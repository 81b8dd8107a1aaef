--------------------------- MODULE JsonTextProofs ---------------------------
(***************************************************************************)
(* For all values, however deep and wide: what to_byte_vector writes has   *)
(* its separators in place, and is a text of the grammar, which the parser *)
(* reads to its end.                                                       *)
(*                                                                         *)
(* One flag is enough because it and the last token always agree: where a  *)
(* value, a member or the end of a container may come next, the flag is    *)
(* set if and only if the last token is one nothing was written behind.    *)
(*                                                                         *)
(* The text is a text of the grammar because it leads, token by token, to  *)
(* a place of the grammar that the position of the walk and the flag tell; *)
(* and the parser follows the same places, with what is left to read.      *)
(*                                                                         *)
(* What is read is what was meant because what was written so far builds,  *)
(* in last_key_wins, the containers of the walk with the members that came *)
(* so far, whatever is written behind it; and what is left to read builds  *)
(* the rest, from what has been read.                                      *)
(***************************************************************************)
EXTENDS JsonText, SequenceTheorems, FiniteSetTheorems, TLAPS

Last(b) == b[Len(b)].t

\* The tokens a value ends with.
Enders == {"atom", "]", "}"}

\* The containers of the walk, whatever their members are.
Frames(S) == [value: {v \in S : v.kind \in Containers}, at: Nat]
WalkOK == \E S : walk \in Seq(Frames(S))

BufferOK == buffer_ \in Seq(Tokens) /\ first_ \in BOOLEAN

\* Nothing has been written.
Fresh == buffer_ = << >> /\ first_ = TRUE

\* The flag agrees with the last token.
BeforeValue ==
    IF first_ THEN buffer_ # << >> => Last(buffer_) \in {"[", ":"}
              ELSE buffer_ # << >> /\ Last(buffer_) \in Enders
BeforeMember ==
    /\ walk # << >> /\ buffer_ # << >>
    /\ IF first_ THEN Last(buffer_) = Begin[Head(walk).value.kind]
                 ELSE Last(buffer_) \in Enders
AfterValue == buffer_ # << >> /\ Last(buffer_) \in Enders

FlagOK ==
    /\ pc = "value" => BeforeValue
    /\ pc = "members" => BeforeMember
    /\ pc = "after" => AfterValue
    /\ pc \in {"read", "parsed"} => Fresh

Inv == BufferOK /\ WalkOK /\ FlagOK /\ SeparatorsInPlace

-----------------------------------------------------------------------------
(* Lemmas on texts.                                                        *)

InPlace(b) == \A i \in 1..(Len(b) - 1) : b[i + 1].t \in Follower(b[i].t)

\* May the token follow the text?
Fits(b, tok) == b # << >> => tok.t \in Follower(Last(b))

LEMMA AppendInPlace ==
    ASSUME NEW b \in Seq(Tokens), NEW tok \in Tokens, InPlace(b), Fits(b, tok)
    PROVE  /\ Append(b, tok) \in Seq(Tokens)
           /\ Append(b, tok) # << >>
           /\ Last(Append(b, tok)) = tok.t
           /\ InPlace(Append(b, tok))
<1> DEFINE c == Append(b, tok)
<1>1. /\ c \in Seq(Tokens) /\ c # << >> /\ Len(c) = Len(b) + 1 /\ Len(b) \in Nat
      /\ c[Len(b) + 1] = tok
      /\ \A i \in 1..Len(b) : c[i] = b[i]
  BY SMT
<1>2. Last(c) = tok.t
  BY <1>1 DEF Last
<1>3. ASSUME NEW i \in 1..(Len(c) - 1) PROVE c[i + 1].t \in Follower(c[i].t)
  <2>1. CASE i = Len(b)
    <3>1. b # << >> /\ c[i] = b[Len(b)] /\ c[i + 1] = tok
      BY <1>1, <1>3, <2>1, SMT
    <3> QED BY <3>1 DEF Fits, Last
  <2>2. CASE i # Len(b)
    <3>1. i \in 1..(Len(b) - 1) /\ c[i] = b[i] /\ c[i + 1] = b[i + 1]
      BY <1>1, <1>3, <2>2, SMT
    <3> QED BY <3>1 DEF InPlace
  <2> QED BY <2>1, <2>2
<1>4. InPlace(c)
  BY <1>3 DEF InPlace
<1> HIDE DEF c
<1> QED BY <1>1, <1>2, <1>4 DEF c

LEMMA TokensAre ==
    /\ \A x \in Atoms : Token("atom", x) \in Tokens /\ Token("atom", x).t = "atom"
    /\ \A k \in Keys : Token("key", k) \in Tokens /\ Token("key", k).t = "key"
    /\ \A t \in Punctuation : Token(t, None) \in Tokens /\ Token(t, None).t = t
BY DEF Token, Tokens

LEMMA PunctuationIs ==
    /\ \A kind \in Containers :
         /\ Begin[kind] \in Punctuation \cap BeginsValue
         /\ End[kind] \in Punctuation \cap Enders
         /\ End[kind] \in Follower(Begin[kind])
    /\ "," \in Punctuation /\ ":" \in Punctuation
    /\ Begin["object"] = "{" /\ Begin["array"] = "["
    /\ "array" \in Containers /\ "object" \in Containers
<1>1. \A kind \in Containers : kind = "array" \/ kind = "object"
  BY DEF Containers
<1>2. Begin["array"] = "[" /\ Begin["object"] = "{" /\ End["array"] = "]" /\ End["object"] = "}"
  BY DEF Begin, End
<1>3. "]" \in Follower("[") /\ "}" \in Follower("{")
  BY Zenon DEF Follower
<1> QED BY <1>1, <1>2, <1>3 DEF Containers, Punctuation, BeginsValue, Enders

LEMMA FollowersAre ==
    /\ \A t \in Enders : "," \in Follower(t) /\ "]" \in Follower(t) /\ "}" \in Follower(t)
    /\ \A t \in {"[", ":", ","} : BeginsValue \subseteq Follower(t)
    /\ \A t \in {"{", ","} : "key" \in Follower(t)
    /\ ":" \in Follower("key")
<1>1. /\ Follower("atom") = {",", "]", "}"}
      /\ Follower("]") = {",", "]", "}"}
      /\ Follower("}") = {",", "]", "}"}
  BY Zenon DEF Follower
<1>2. /\ Follower("[") = BeginsValue \cup {"]"}
      /\ Follower("{") = {"key", "}"}
      /\ Follower(",") = BeginsValue \cup {"key"}
      /\ Follower("key") = {":"}
      /\ Follower(":") = BeginsValue
  BY Zenon DEF Follower
<1> QED BY <1>1, <1>2 DEF Enders

LEMMA EndAfterEnder ==
    \A kind \in Containers : \A t \in Enders : End[kind] \in Follower(t)
<1>1. End["array"] = "]" /\ End["object"] = "}"
  BY DEF End
<1>2. \A kind \in Containers : kind = "array" \/ kind = "object"
  BY DEF Containers
<1> QED BY <1>1, <1>2, FollowersAre, Zenon

-----------------------------------------------------------------------------
(* What next gives: a text that a value, or the name of a member, fits.    *)

LEMMA CommaAfterEnder ==
    ASSUME BufferOK, SeparatorsInPlace, ~first_, buffer_ # << >>, Last(buffer_) \in Enders
    PROVE  /\ next \in Seq(Tokens) /\ InPlace(next)
           /\ next # << >> /\ Last(next) = ","
<1>1. next = Append(buffer_, Token(",", None))
  BY DEF next, BufferOK
<1>2. Token(",", None) \in Tokens /\ Token(",", None).t = ","
  BY TokensAre, PunctuationIs
<1>3. Fits(buffer_, Token(",", None))
  BY <1>2, FollowersAre DEF Fits
<1>4. buffer_ \in Seq(Tokens) /\ InPlace(buffer_)
  BY DEF BufferOK, SeparatorsInPlace, InPlace
<1> QED BY <1>1, <1>2, <1>3, <1>4, AppendInPlace

LEMMA NextBeforeValue ==
    ASSUME BufferOK, SeparatorsInPlace, BeforeValue
    PROVE  /\ next \in Seq(Tokens) /\ InPlace(next)
           /\ \A tok : tok.t \in BeginsValue => Fits(next, tok)
<1>1. CASE first_
  <2>1. next = buffer_ /\ (buffer_ # << >> => Last(buffer_) \in {"[", ":"})
    BY <1>1 DEF next, BeforeValue
  <2>2. buffer_ \in Seq(Tokens) /\ InPlace(buffer_)
    BY DEF BufferOK, SeparatorsInPlace, InPlace
  <2> QED BY <2>1, <2>2, FollowersAre DEF Fits
<1>2. CASE ~first_
  <2>1. buffer_ # << >> /\ Last(buffer_) \in Enders
    BY <1>2 DEF BeforeValue
  <2> QED BY <1>2, <2>1, CommaAfterEnder, FollowersAre DEF Fits
<1> QED BY <1>1, <1>2

LEMMA NextBeforeKey ==
    ASSUME BufferOK, SeparatorsInPlace, BeforeMember, Head(walk).value.kind = "object"
    PROVE  /\ next \in Seq(Tokens) /\ InPlace(next)
           /\ \A tok : tok.t = "key" => Fits(next, tok)
<1>1. CASE first_
  <2>1. next = buffer_ /\ Last(buffer_) = "{"
    BY <1>1, PunctuationIs DEF next, BeforeMember
  <2>2. buffer_ \in Seq(Tokens) /\ InPlace(buffer_)
    BY DEF BufferOK, SeparatorsInPlace, InPlace
  <2> QED BY <2>1, <2>2, FollowersAre DEF Fits
<1>2. CASE ~first_
  <2>1. buffer_ # << >> /\ Last(buffer_) \in Enders
    BY <1>2 DEF BeforeMember
  <2> QED BY <1>2, <2>1, CommaAfterEnder, FollowersAre DEF Fits
<1> QED BY <1>1, <1>2

-----------------------------------------------------------------------------
(* The walk.                                                               *)

\* A container is entered.
LEMMA PushWalk ==
    ASSUME NEW S, walk \in Seq(Frames(S)), NEW v, v.kind \in Containers
    PROVE  /\ <<[value |-> v, at |-> 0]>> \o walk \in Seq(Frames(S \cup {v}))
           /\ <<[value |-> v, at |-> 0]>> \o walk # << >>
           /\ Head(<<[value |-> v, at |-> 0]>> \o walk).value = v
<1> DEFINE T == Frames(S \cup {v})
           f == [value |-> v, at |-> 0]
<1>1. Frames(S) \subseteq T /\ f \in T
  BY DEF Frames
<1>2. f.value = v
  OBVIOUS
<1> HIDE DEF T, f
<1>3. walk \in Seq(T) /\ <<f>> \in Seq(T)
  BY <1>1
<1>4. /\ <<f>> \o walk \in Seq(T) /\ <<f>> \o walk # << >> /\ Head(<<f>> \o walk) = f
  BY <1>3, SMT
<1> QED BY <1>2, <1>4 DEF T, f

\* The innermost container goes on with its next member.
LEMMA AdvanceWalk ==
    ASSUME NEW S, walk \in Seq(Frames(S)), walk # << >>
    PROVE  /\ <<[Head(walk) EXCEPT !.at = @ + 1]>> \o Tail(walk) \in Seq(Frames(S))
           /\ Tail(walk) \in Seq(Frames(S))
           /\ Head(walk).value.kind \in Containers
<1> DEFINE f == [Head(walk) EXCEPT !.at = @ + 1]
<1>1. Head(walk) \in Frames(S) /\ Tail(walk) \in Seq(Frames(S))
  BY SMT
<1>2. f \in Frames(S) /\ Head(walk).value.kind \in Containers
  BY <1>1, SMT DEF Frames
<1> HIDE DEF f
<1>3. <<f>> \o Tail(walk) \in Seq(Frames(S))
  BY <1>1, <1>2, SMT
<1> QED BY <1>1, <1>2, <1>3 DEF f

-----------------------------------------------------------------------------
(* The events of the writer.                                               *)

LEMMA WriteAtomKeepsInv == Inv /\ WriteAtom => Inv'
<1> SUFFICES ASSUME Inv, WriteAtom PROVE Inv'
  OBVIOUS
<1> USE DEF Inv
<1>1. pc = "value" /\ walk' = walk /\ first_' = first_
  BY DEF WriteAtom
<1>2. CASE pc' = "thrown" /\ buffer_' = << >>
  BY <1>1, <1>2 DEF BufferOK, WalkOK, FlagOK, SeparatorsInPlace
<1>3. CASE /\ todo.atom \in Atoms /\ pc' = "after"
           /\ buffer_' = Append(next, Token("atom", todo.atom))
  <2>1. Token("atom", todo.atom) \in Tokens /\ Token("atom", todo.atom).t = "atom"
    BY <1>3, TokensAre
  <2>2. BeforeValue
    BY <1>1 DEF FlagOK
  <2> DEFINE tok == Token("atom", todo.atom)
  <2> tok.t \in BeginsValue
    BY <2>1 DEF BeginsValue
  <2> HIDE DEF tok
  <2>3. next \in Seq(Tokens) /\ InPlace(next) /\ Fits(next, tok)
    BY <2>2, NextBeforeValue
  <2>4. /\ buffer_' \in Seq(Tokens) /\ buffer_' # << >>
        /\ Last(buffer_') = "atom" /\ InPlace(buffer_')
    BY <1>3, <2>1, <2>3, AppendInPlace DEF tok
  <2> QED BY <1>1, <1>3, <2>4
        DEF BufferOK, WalkOK, FlagOK, AfterValue, Enders, SeparatorsInPlace, InPlace
<1> QED BY <1>2, <1>3 DEF WriteAtom

LEMMA WriteBeginKeepsInv == Inv /\ WriteBegin => Inv'
<1> SUFFICES ASSUME Inv, WriteBegin PROVE Inv'
  OBVIOUS
<1> USE DEF Inv
<1> DEFINE tok == Token(Begin[todo.kind], None)
<1>1. /\ pc = "value" /\ pc' = "members" /\ first_' = TRUE
      /\ todo.kind \in Containers
      /\ buffer_' = Append(next, tok)
      /\ walk' = <<[value |-> todo, at |-> 0]>> \o walk
  BY DEF WriteBegin
<1>2. tok \in Tokens /\ tok.t = Begin[todo.kind] /\ tok.t \in BeginsValue
  BY <1>1, TokensAre, PunctuationIs
<1> HIDE DEF tok
<1>3. next \in Seq(Tokens) /\ InPlace(next) /\ Fits(next, tok)
  BY <1>1, <1>2, NextBeforeValue DEF FlagOK
<1>4. /\ buffer_' \in Seq(Tokens) /\ buffer_' # << >>
      /\ Last(buffer_') = Begin[todo.kind] /\ InPlace(buffer_')
  BY <1>1, <1>2, <1>3, AppendInPlace
<1>5. PICK S : walk \in Seq(Frames(S))
  BY DEF WalkOK
<1>6. walk' \in Seq(Frames(S \cup {todo})) /\ walk' # << >> /\ Head(walk').value = todo
  BY <1>1, <1>5, PushWalk
<1>7. BufferOK' /\ WalkOK' /\ SeparatorsInPlace'
  BY <1>1, <1>4, <1>6 DEF BufferOK, WalkOK, SeparatorsInPlace, InPlace
<1>8. FlagOK'
  BY <1>1, <1>4, <1>6 DEF FlagOK, BeforeMember
<1> QED BY <1>7, <1>8

LEMMA NextItemKeepsInv == Inv /\ NextItem => Inv'
<1> SUFFICES ASSUME Inv, NextItem PROVE Inv'
  OBVIOUS
<1> USE DEF Inv
<1>1. /\ pc = "members" /\ pc' = "value" /\ buffer_' = buffer_ /\ first_' = first_
      /\ Head(walk).value.kind = "array"
      /\ walk' = <<[Head(walk) EXCEPT !.at = @ + 1]>> \o Tail(walk)
  BY DEF NextItem, Advance
<1>2. BeforeMember
  BY <1>1 DEF FlagOK
<1>3. PICK S : walk \in Seq(Frames(S))
  BY DEF WalkOK
<1>4. walk' \in Seq(Frames(S))
  BY <1>1, <1>2, <1>3, AdvanceWalk DEF BeforeMember
<1>5. FlagOK'
  BY <1>1, <1>2, PunctuationIs DEF FlagOK, BeforeMember, BeforeValue
<1> QED BY <1>1, <1>4, <1>5 DEF BufferOK, WalkOK, SeparatorsInPlace

LEMMA KeyKeepsInv == Inv /\ Key => Inv'
<1> SUFFICES ASSUME Inv, Key PROVE Inv'
  OBVIOUS
<1> USE DEF Inv
<1>1. PICK k \in Keys : buffer_' = next \o <<Token("key", k), Token(":", None)>>
  BY DEF Key
<1>2. /\ pc = "members" /\ pc' = "value" /\ first_' = TRUE
      /\ Head(walk).value.kind = "object"
      /\ walk' = <<[Head(walk) EXCEPT !.at = @ + 1]>> \o Tail(walk)
  BY DEF Key, Advance
<1>3. BeforeMember
  BY <1>2 DEF FlagOK
<1>4. PICK S : walk \in Seq(Frames(S))
  BY DEF WalkOK
<1>5. walk' \in Seq(Frames(S))
  BY <1>2, <1>3, <1>4, AdvanceWalk DEF BeforeMember
<1>6. /\ Token("key", k) \in Tokens /\ Token("key", k).t = "key"
      /\ Token(":", None) \in Tokens /\ Token(":", None).t = ":"
  BY TokensAre, PunctuationIs
<1>7. next \in Seq(Tokens) /\ InPlace(next) /\ Fits(next, Token("key", k))
  BY <1>2, <1>3, <1>6, NextBeforeKey
<1> DEFINE named == Append(next, Token("key", k))
<1>8. /\ named \in Seq(Tokens) /\ named # << >>
      /\ Last(named) = "key" /\ InPlace(named)
  BY <1>6, <1>7, AppendInPlace
<1>9. buffer_' = Append(named, Token(":", None))
  BY <1>1, <1>6, <1>7, SMT
<1> HIDE DEF named
<1>10. Fits(named, Token(":", None))
  BY <1>6, <1>8, FollowersAre DEF Fits
<1>11. /\ buffer_' \in Seq(Tokens) /\ buffer_' # << >>
       /\ Last(buffer_') = ":" /\ InPlace(buffer_')
  BY <1>6, <1>8, <1>9, <1>10, AppendInPlace
<1>12. FlagOK'
  BY <1>2, <1>11 DEF FlagOK, BeforeValue
<1> QED BY <1>2, <1>5, <1>11, <1>12 DEF BufferOK, WalkOK, SeparatorsInPlace, InPlace

LEMMA ElementKeepsInv == Inv /\ Element => Inv'
<1> SUFFICES ASSUME Inv, Element PROVE Inv'
  OBVIOUS
<1> USE DEF Inv
<1>1. /\ pc = "after" /\ walk # << >> /\ pc' = "members" /\ first_' = FALSE
      /\ walk' = walk /\ buffer_' = buffer_
  BY DEF Element
<1>2. FlagOK'
  BY <1>1 DEF FlagOK, AfterValue, BeforeMember
<1> QED BY <1>1, <1>2 DEF BufferOK, WalkOK, SeparatorsInPlace

LEMMA WriteEndKeepsInv == Inv /\ WriteEnd => Inv'
<1> SUFFICES ASSUME Inv, WriteEnd PROVE Inv'
  OBVIOUS
<1> USE DEF Inv
<1> DEFINE kind == Head(walk).value.kind
           tok == Token(End[kind], None)
<1>1. /\ pc = "members" /\ pc' = "after" /\ first_' = first_
      /\ buffer_' = Append(buffer_, tok)
      /\ walk' = Tail(walk)
  BY DEF WriteEnd
<1>2. BeforeMember
  BY <1>1 DEF FlagOK
<1>3. PICK S : walk \in Seq(Frames(S))
  BY DEF WalkOK
<1>4. walk' \in Seq(Frames(S)) /\ kind \in Containers
  BY <1>1, <1>2, <1>3, AdvanceWalk DEF BeforeMember
<1>5. tok \in Tokens /\ tok.t = End[kind] /\ tok.t \in Enders
  BY <1>4, TokensAre, PunctuationIs
<1>6. tok.t \in Follower(Last(buffer_))
  <2>1. CASE first_
    BY <1>2, <1>4, <1>5, <2>1, PunctuationIs DEF BeforeMember
  <2>2. CASE ~first_
    <3>1. Last(buffer_) \in Enders
      BY <1>2, <2>2 DEF BeforeMember
    <3> QED BY <1>4, <1>5, <3>1, EndAfterEnder
  <2> QED BY <2>1, <2>2
<1> HIDE DEF kind, tok
<1>7. /\ buffer_' \in Seq(Tokens) /\ buffer_' # << >>
      /\ Last(buffer_') = tok.t /\ InPlace(buffer_')
  BY <1>1, <1>5, <1>6, AppendInPlace DEF BufferOK, SeparatorsInPlace, InPlace, Fits
<1>8. FlagOK'
  BY <1>1, <1>5, <1>7 DEF FlagOK, AfterValue
<1> QED BY <1>1, <1>4, <1>7, <1>8 DEF BufferOK, WalkOK, SeparatorsInPlace, InPlace

-----------------------------------------------------------------------------
(* The rest leaves the buffer alone, or empties it.                        *)

LEMMA OthersKeepInv == Inv /\ (Deliver \/ Read \/ Generate \/ UNCHANGED vars) => Inv'
<1> SUFFICES ASSUME Inv, Deliver \/ Read \/ Generate \/ UNCHANGED vars PROVE Inv'
  OBVIOUS
<1> USE DEF Inv
<1>1. CASE Deliver
  <2>1. buffer_' = << >> /\ first_' = TRUE /\ pc' = "read" /\ walk' = walk
    BY <1>1 DEF Deliver
  <2> QED BY <2>1 DEF BufferOK, WalkOK, FlagOK, Fresh, SeparatorsInPlace
<1>2. CASE Read
  <2>1. /\ pc = "read" /\ UNCHANGED <<walk, buffer_, first_>>
        /\ pc' \in {"read", "parsed", "thrown"}
    BY <1>2 DEF Read, ReadAtom, ReadBegin, ReadKey, ReadSeparator, ReadMember, ReadEnd,
                FinishParse, Refuse, Sees, writer_vars, reader_vars
  <2> QED BY <2>1 DEF BufferOK, WalkOK, FlagOK, Fresh, SeparatorsInPlace
<1>3. CASE Generate
  <2>1. pc = "parsed" /\ pc' = "value" /\ UNCHANGED <<walk, buffer_, first_>>
    BY <1>3 DEF Generate, reader_vars
  <2> QED BY <2>1 DEF BufferOK, WalkOK, FlagOK, Fresh, BeforeValue, SeparatorsInPlace
<1>4. CASE UNCHANGED vars
  BY <1>4 DEF vars, writer_vars, BufferOK, WalkOK, FlagOK, Fresh, BeforeValue,
              BeforeMember, AfterValue, SeparatorsInPlace
<1> QED BY <1>1, <1>2, <1>3, <1>4

LEMMA InitInv == Init => Inv
<1> SUFFICES ASSUME Init PROVE Inv
  OBVIOUS
<1>1. buffer_ = << >> /\ first_ = TRUE /\ walk = << >> /\ pc = "value"
  BY DEF Init
<1>2. walk \in Seq(Frames({}))
  BY <1>1
<1> QED BY <1>1, <1>2
      DEF Inv, BufferOK, WalkOK, FlagOK, Fresh, BeforeValue, SeparatorsInPlace

\* For every value that may be written, whatever its depth, and for every value
\* read back from a text, cut or whole: the comma and colon handling of
\* to_byte_vector (src/utils/json.cxx) puts each separator where the grammar
\* has it.
THEOREM SeparatorsAlwaysInPlace == Spec => []SeparatorsInPlace
<1>1. Init => Inv
  BY InitInv
<1>2. Inv /\ [Next]_vars => Inv'
  BY WriteAtomKeepsInv, WriteBeginKeepsInv, NextItemKeepsInv, KeyKeepsInv,
     ElementKeepsInv, WriteEndKeepsInv, OthersKeepInv DEF Next, Write
<1>3. Inv => SeparatorsInPlace
  BY DEF Inv
<1> QED BY <1>1, <1>2, <1>3, PTL DEF Spec

-----------------------------------------------------------------------------
(* Where the grammar is.  A place is what it has next and the containers   *)
(* around it, innermost first; a value that has become a member is passed. *)

Place(e, k) == [next |-> e, around |-> k]

\* The place after a value.
Passed(k) == Place(IF k = << >> THEN "after" ELSE "more", k)

Start == Place("value", << >>)
Complete == Passed(<< >>)

In(c, kind) == c.around # << >> /\ Head(c.around) = kind

\* A value may come, or the name of a member.
ValueMayCome(c) == c.next = "value" \/ (c.next = "first" /\ In(c, "array"))
KeyMayCome(c) == c.next = "key" \/ (c.next = "first" /\ In(c, "object"))

\* From the place c the grammar gets with a token of the kind t to the place d.
Go(c, t, d) ==
    \/ /\ t = "atom" /\ ValueMayCome(c)
       /\ d = Passed(c.around)
    \/ \E kind \in Containers :
          /\ t = Begin[kind] /\ ValueMayCome(c)
          /\ d = Place("first", <<kind>> \o c.around)
    \/ /\ t = "key" /\ KeyMayCome(c)
       /\ d = Place("colon", c.around)
    \/ /\ t = ":" /\ c.next = "colon"
       /\ d = Place("value", c.around)
    \/ /\ t = "," /\ c.next = "more"
       /\ d = Place(IF In(c, "object") THEN "key" ELSE "value", c.around)
    \/ \E kind \in Containers :
          /\ t = End[kind] /\ c.next \in {"first", "more"} /\ In(c, kind)
          /\ d = Passed(Tail(c.around))

\* And with the text b.
Leads(b, c, d) ==
    \E g : /\ g[1] = c /\ g[Len(b) + 1] = d
           /\ \A i \in 1..Len(b) : Go(g[i], b[i].t, g[i + 1])

LEMMA LeadsNowhere ==
    ASSUME NEW c
    PROVE  /\ Leads(<< >>, c, c)
           /\ \A d : Leads(<< >>, c, d) => d = c
<1>1. Len(<< >>) = 0 /\ 1..0 = {}
  OBVIOUS
<1>2. Leads(<< >>, c, c)
  <2> DEFINE g == [i \in {1} |-> c]
  <2>1. g[1] = c
    OBVIOUS
  <2> HIDE DEF g
  <2>2. QED BY <1>1, <2>1 DEF Leads
<1>3. QED BY <1>1, <1>2 DEF Leads

LEMMA LeadsOn ==
    ASSUME NEW b \in Seq(Tokens), NEW tok \in Tokens, NEW c, NEW d, NEW e,
           Leads(b, c, d), Go(d, tok.t, e)
    PROVE  Leads(Append(b, tok), c, e)
<1> DEFINE n == Len(b)
           w == Append(b, tok)
<1>1. /\ n \in Nat /\ Len(w) = n + 1 /\ w[n + 1] = tok
      /\ \A i \in 1..n : w[i] = b[i]
  OBVIOUS
<1>2. PICK f : /\ f[1] = c /\ f[n + 1] = d
               /\ \A i \in 1..n : Go(f[i], b[i].t, f[i + 1])
  BY DEF Leads
<1> DEFINE g == [i \in 1..n + 2 |-> IF i = n + 2 THEN e ELSE f[i]]
<1> HIDE DEF n, w
<1>3. /\ g[n + 2] = e /\ g[n + 1] = d /\ g[1] = c
      /\ \A i \in 1..n : g[i] = f[i] /\ g[i + 1] = f[i + 1]
  BY <1>1, <1>2
<1> HIDE DEF g
<1>4. ASSUME NEW i \in 1..n + 1 PROVE Go(g[i], w[i].t, g[i + 1])
  <2>1. CASE i \in 1..n
    BY <1>1, <1>2, <1>3, <2>1
  <2>2. CASE i = n + 1
    <3>1. i + 1 = n + 2
      BY <1>1, <2>2
    <3>2. QED BY <1>1, <1>3, <2>2, <3>1
  <2>3. QED BY <1>1, <2>1, <2>2
<1>5. Len(w) + 1 = n + 2
  BY <1>1
<1>6. Leads(w, c, e)
  BY <1>1, <1>3, <1>4, <1>5 DEF Leads
<1>7. QED BY <1>6 DEF w

LEMMA LeadsOff ==
    ASSUME NEW b \in Seq(Tokens), b # << >>, NEW c, NEW d, Leads(b, c, d)
    PROVE  \E e : Go(c, Head(b).t, e) /\ Leads(Tail(b), e, d)
<1> DEFINE w == Tail(b)
           n == Len(w)
<1>1. /\ n \in Nat /\ Len(b) = n + 1 /\ Head(b) = b[1]
      /\ \A i \in 1..n : w[i] = b[i + 1]
  OBVIOUS
<1>2. PICK f : /\ f[1] = c /\ f[Len(b) + 1] = d
               /\ \A i \in 1..Len(b) : Go(f[i], b[i].t, f[i + 1])
  BY DEF Leads
<1> HIDE DEF n, w
<1> DEFINE g == [i \in 1..n + 1 |-> f[i + 1]]
<1>3. g[1] = f[2] /\ g[n + 1] = d /\ \A i \in 1..n : g[i] = f[i + 1] /\ g[i + 1] = f[i + 2]
  <2>1. Len(b) + 1 = (n + 1) + 1 /\ 1 \in 1..n + 1 /\ n + 1 \in 1..n + 1
    BY <1>1
  <2>2. \A i \in 1..n : i \in 1..n + 1 /\ i + 1 \in 1..n + 1 /\ (i + 1) + 1 = i + 2
    BY <1>1
  <2>3. QED BY <1>2, <2>1, <2>2
<1> HIDE DEF g
<1>4. \A i \in 1..n : Go(g[i], w[i].t, g[i + 1])
  <2>1. TAKE i \in 1..n
  <2>2. i + 1 \in 1..Len(b) /\ (i + 1) + 1 = i + 2
    BY <1>1
  <2>3. Go(f[i + 1], b[i + 1].t, f[i + 2])
    BY <1>2, <2>2
  <2>4. QED BY <1>1, <1>3, <2>3
<1>5. Leads(w, f[2], d)
  BY <1>3, <1>4 DEF Leads, n
<1>6. Go(c, Head(b).t, f[2])
  <2>1. 1 \in 1..Len(b) /\ 1 + 1 = 2
    BY <1>1
  <2>2. QED BY <1>1, <1>2, <2>1
<1>7. QED BY <1>5, <1>6 DEF w

-----------------------------------------------------------------------------
(* Nests of containers.                                                    *)

\* The kinds of the containers of the walk, and of those that are being built.
WalkNest(w) == [i \in 1..Len(w) |-> w[i].value.kind]
Nest(k) == [i \in 1..Len(k) |-> k[i].kind]

\* What is built is a container, whatever its members.
Built(M) == [kind: Containers, atom: {None}, members: M]

\* Two sequences of one length, without their first elements.
LEMMA TailsAre ==
    ASSUME NEW S, NEW T, NEW w \in Seq(S), NEW k \in Seq(T), Len(k) = Len(w), w # << >>
    PROVE  /\ Head(w) = w[1] /\ Head(k) = k[1] /\ 1 \in 1..Len(w)
           /\ Tail(k) = [i \in 1..Len(Tail(w)) |-> Tail(k)[i]]
           /\ \A i \in 1..Len(Tail(w)) :
                 i + 1 \in 1..Len(w) /\ Tail(w)[i] = w[i + 1] /\ Tail(k)[i] = k[i + 1]
<1>1. Len(w) \in Nat /\ Len(w) # 0 /\ k # << >> /\ Head(w) = w[1]
  BY EmptySeq
<1>2. Head(k) = k[1]
  BY <1>1
<1>3. /\ Tail(w) \in Seq(S) /\ Len(Tail(w)) = Len(w) - 1
      /\ \A i \in 1..Len(Tail(w)) : Tail(w)[i] = w[i + 1]
  BY HeadTailProperties
<1> DEFINE u == Tail(k)
<1>4. /\ u \in Seq(T) /\ Len(u) = Len(k) - 1
      /\ \A i \in 1..Len(u) : u[i] = k[i + 1]
  BY <1>1, HeadTailProperties
<1> HIDE DEF u
<1>5. u = [i \in 1..Len(u) |-> u[i]] /\ Len(u) = Len(Tail(w))
  BY <1>3, <1>4
<1>6. \A i \in 1..Len(Tail(w)) : i + 1 \in 1..Len(w)
  BY <1>1, <1>3
<1>7. QED BY <1>1, <1>2, <1>3, <1>4, <1>5, <1>6 DEF u

LEMMA WalkNestIs ==
    ASSUME NEW S, NEW w \in Seq(Frames(S))
    PROVE  /\ WalkNest(w) \in Seq(Containers)
           /\ WalkNest(w) = << >> <=> w = << >>
           /\ w # << >> => /\ Head(WalkNest(w)) = Head(w).value.kind
                           /\ WalkNest(Tail(w)) = Tail(WalkNest(w))
<1> DEFINE k == WalkNest(w)
<1>1. \A i \in 1..Len(w) : w[i].value.kind \in Containers
  <2>1. \A i \in 1..Len(w) : w[i] \in Frames(S)
    OBVIOUS
  <2>2. QED BY <2>1 DEF Frames
<1>2. Len(w) \in Nat /\ k \in Seq(Containers) /\ Len(k) = Len(w)
      /\ \A i \in 1..Len(w) : k[i] = w[i].value.kind
  BY <1>1 DEF WalkNest
<1>3. k = << >> <=> w = << >>
  BY <1>2, EmptySeq
<1> HIDE DEF k
<1>4. ASSUME w # << >>
      PROVE  Head(k) = Head(w).value.kind /\ WalkNest(Tail(w)) = Tail(k)
  <2>1. /\ Head(w) = w[1] /\ Head(k) = k[1] /\ 1 \in 1..Len(w)
        /\ Tail(k) = [i \in 1..Len(Tail(w)) |-> Tail(k)[i]]
        /\ \A i \in 1..Len(Tail(w)) :
              i + 1 \in 1..Len(w) /\ Tail(w)[i] = w[i + 1] /\ Tail(k)[i] = k[i + 1]
    BY <1>2, <1>4, TailsAre
  <2>2. \A i \in 1..Len(Tail(w)) : Tail(k)[i] = Tail(w)[i].value.kind
    BY <1>2, <2>1
  <2>3. QED BY <1>2, <2>1, <2>2 DEF WalkNest
<1>5. QED BY <1>2, <1>3, <1>4 DEF k

LEMMA NestIs ==
    ASSUME NEW M, NEW w \in Seq(Built(M))
    PROVE  /\ Nest(w) \in Seq(Containers)
           /\ Nest(w) = << >> <=> w = << >>
           /\ w # << >> => /\ Head(Nest(w)) = Head(w).kind
                           /\ Nest(Tail(w)) = Tail(Nest(w))
<1> DEFINE k == Nest(w)
<1>1. \A i \in 1..Len(w) : w[i].kind \in Containers
  <2>1. \A i \in 1..Len(w) : w[i] \in Built(M)
    OBVIOUS
  <2>2. QED BY <2>1 DEF Built
<1>2. Len(w) \in Nat /\ k \in Seq(Containers) /\ Len(k) = Len(w)
      /\ \A i \in 1..Len(w) : k[i] = w[i].kind
  BY <1>1 DEF Nest
<1>3. k = << >> <=> w = << >>
  BY <1>2, EmptySeq
<1> HIDE DEF k
<1>4. ASSUME w # << >>
      PROVE  Head(k) = Head(w).kind /\ Nest(Tail(w)) = Tail(k)
  <2>1. /\ Head(w) = w[1] /\ Head(k) = k[1] /\ 1 \in 1..Len(w)
        /\ Tail(k) = [i \in 1..Len(Tail(w)) |-> Tail(k)[i]]
        /\ \A i \in 1..Len(Tail(w)) :
              i + 1 \in 1..Len(w) /\ Tail(w)[i] = w[i + 1] /\ Tail(k)[i] = k[i + 1]
    BY <1>2, <1>4, TailsAre
  <2>2. \A i \in 1..Len(Tail(w)) : Tail(k)[i] = Tail(w)[i].kind
    BY <1>2, <2>1
  <2>3. QED BY <1>2, <2>1, <2>2 DEF Nest
<1>5. QED BY <1>2, <1>3, <1>4 DEF k

\* A container is put around, or inside, what there is.
LEMMA WalkNestPush ==
    ASSUME NEW S, NEW f \in Frames(S), NEW w \in Seq(Frames(S))
    PROVE  WalkNest(<<f>> \o w) = <<f.value.kind>> \o WalkNest(w)
<1> DEFINE v == <<f>> \o w
           u == WalkNest(v)
           k == <<f.value.kind>> \o WalkNest(w)
<1>1. f.value.kind \in Containers /\ <<f>> \in Seq(Frames(S)) /\ Len(<<f>>) = 1
  BY DEF Frames
<1>2. WalkNest(w) \in Seq(Containers) /\ Len(WalkNest(w)) = Len(w) /\ Len(w) \in Nat
      /\ \A i \in 1..Len(w) : WalkNest(w)[i] = w[i].value.kind
  <2>1. WalkNest(w) \in Seq(Containers)
    BY WalkNestIs
  <2>2. QED BY <2>1 DEF WalkNest
<1>3. v \in Seq(Frames(S)) /\ Len(v) = 1 + Len(w) /\ v[1] = f
      /\ \A i \in 2..1 + Len(w) : v[i] = w[i - 1]
  BY <1>1, <1>2
<1>4. k \in Seq(Containers) /\ Len(k) = 1 + Len(w) /\ k[1] = f.value.kind
      /\ \A i \in 2..1 + Len(w) : k[i] = WalkNest(w)[i - 1]
  BY <1>1, <1>2
<1>5. u \in Seq(Containers) /\ Len(u) = Len(v) /\ \A i \in 1..Len(v) : u[i] = v[i].value.kind
  <2> HIDE DEF v
  <2>1. u \in Seq(Containers)
    BY <1>3, WalkNestIs
  <2>2. QED BY <1>3, <2>1 DEF WalkNest
<1> HIDE DEF v, u, k
<1>6. \A i \in 1..1 + Len(w) : u[i] = k[i]
  <2>1. TAKE i \in 1..1 + Len(w)
  <2>2. CASE i = 1
    BY <1>3, <1>4, <1>5, <2>2
  <2>3. CASE i # 1
    <3>1. i \in 2..1 + Len(w) /\ i - 1 \in 1..Len(w)
      BY <1>2, <2>3
    <3>2. QED BY <1>2, <1>3, <1>4, <1>5, <3>1
  <2>4. QED BY <2>2, <2>3
<1>7. u = k
  BY <1>3, <1>4, <1>5, <1>6, SeqEqual
<1>8. QED BY <1>7 DEF u, v, k

LEMMA NestPush ==
    ASSUME NEW M, NEW f \in Built(M), NEW w \in Seq(Built(M))
    PROVE  Nest(<<f>> \o w) = <<f.kind>> \o Nest(w)
<1> DEFINE v == <<f>> \o w
           u == Nest(v)
           k == <<f.kind>> \o Nest(w)
<1>1. f.kind \in Containers /\ <<f>> \in Seq(Built(M)) /\ Len(<<f>>) = 1
  BY DEF Built
<1>2. Nest(w) \in Seq(Containers) /\ Len(Nest(w)) = Len(w) /\ Len(w) \in Nat
      /\ \A i \in 1..Len(w) : Nest(w)[i] = w[i].kind
  <2>1. Nest(w) \in Seq(Containers)
    BY NestIs
  <2>2. QED BY <2>1 DEF Nest
<1>3. v \in Seq(Built(M)) /\ Len(v) = 1 + Len(w) /\ v[1] = f
      /\ \A i \in 2..1 + Len(w) : v[i] = w[i - 1]
  BY <1>1, <1>2
<1>4. k \in Seq(Containers) /\ Len(k) = 1 + Len(w) /\ k[1] = f.kind
      /\ \A i \in 2..1 + Len(w) : k[i] = Nest(w)[i - 1]
  BY <1>1, <1>2
<1>5. u \in Seq(Containers) /\ Len(u) = Len(v) /\ \A i \in 1..Len(v) : u[i] = v[i].kind
  <2> HIDE DEF v
  <2>1. u \in Seq(Containers)
    BY <1>3, NestIs
  <2>2. QED BY <1>3, <2>1 DEF Nest
<1> HIDE DEF v, u, k
<1>6. \A i \in 1..1 + Len(w) : u[i] = k[i]
  <2>1. TAKE i \in 1..1 + Len(w)
  <2>2. CASE i = 1
    BY <1>3, <1>4, <1>5, <2>2
  <2>3. CASE i # 1
    <3>1. i \in 2..1 + Len(w) /\ i - 1 \in 1..Len(w)
      BY <1>2, <2>3
    <3>2. QED BY <1>2, <1>3, <1>4, <1>5, <3>1
  <2>4. QED BY <2>2, <2>3
<1>7. u = k
  BY <1>3, <1>4, <1>5, <1>6, SeqEqual
<1>8. QED BY <1>7 DEF u, v, k

-----------------------------------------------------------------------------
(* The writer is where the grammar is.                                     *)

\* The place the text has led to, by the position of the walk and the flag.
WriterPlace ==
    LET k == WalkNest(walk)
    IN  CASE pc = "value" ->
               Place(IF k = << >> \/ Head(k) = "object" THEN "value"
                     ELSE IF first_ THEN "first" ELSE "more", k)
          [] pc = "members" -> Place(IF first_ THEN "first" ELSE "more", k)
          [] pc = "after" -> Passed(k)

Writing == pc \in {"value", "members", "after"}

\* What was written leads there, and before the value of a member the flag is set.
Grammatical ==
    /\ Writing => Leads(buffer_, Start, WriterPlace)
    /\ pc = "value" /\ (walk = << >> \/ Head(walk).value.kind = "object") => first_
    /\ pc \in {"read", "parsed"} => walk = << >>

\* The place where a value may come, behind the separator.
LEMMA NextLeadsToValue ==
    ASSUME Inv, Grammatical, pc = "value"
    PROVE  \E c : /\ Leads(next, Start, c) /\ next \in Seq(Tokens)
                  /\ ValueMayCome(c) /\ c.around = WalkNest(walk)
<1> DEFINE k == WalkNest(walk)
<1>1. PICK S : walk \in Seq(Frames(S))
  BY DEF Inv, WalkOK
<1>2. /\ k \in Seq(Containers) /\ (k = << >> <=> walk = << >>)
      /\ walk # << >> => Head(k) = Head(walk).value.kind
  BY <1>1, WalkNestIs
<1> HIDE DEF k
<1>3. /\ buffer_ \in Seq(Tokens) /\ first_ \in BOOLEAN
      /\ Leads(buffer_, Start, WriterPlace)
      /\ k = << >> \/ Head(k) = "object" => first_
  BY <1>2 DEF Inv, BufferOK, Grammatical, Writing
<1>4. WriterPlace = Place(IF k = << >> \/ Head(k) = "object" THEN "value"
                          ELSE IF first_ THEN "first" ELSE "more", k)
  BY DEF WriterPlace, k
<1>5. k # << >> => Head(k) = "array" \/ Head(k) = "object"
  <2>1. k # << >> => Head(k) \in Containers
    BY <1>2
  <2>2. QED BY <2>1 DEF Containers
<1>6. CASE first_
  <2>1. next = buffer_
    BY <1>6 DEF next
  <2>2. ValueMayCome(WriterPlace) /\ WriterPlace.around = k
    <3>1. CASE k = << >> \/ Head(k) = "object"
      BY <1>4, <3>1 DEF Place, ValueMayCome
    <3>2. CASE k # << >> /\ Head(k) = "array"
      BY <1>4, <1>6, <3>2 DEF Place, ValueMayCome, In
    <3>3. QED BY <1>5, <3>1, <3>2
  <2>3. QED BY <1>3, <2>1, <2>2 DEF k
<1>7. CASE ~first_
  <2>1. next = Append(buffer_, Token(",", None))
    BY <1>7 DEF next
  <2>2. Token(",", None) \in Tokens /\ Token(",", None).t = ","
    BY TokensAre, PunctuationIs
  <2>3. k # << >> /\ Head(k) = "array"
    BY <1>3, <1>5, <1>7
  <2>4. WriterPlace = Place("more", k)
    BY <1>4, <1>7, <2>3
  <2> DEFINE c == Place("value", k)
  <2>5. Go(WriterPlace, ",", c)
    BY <2>3, <2>4 DEF Go, Place, In
  <2>6. ValueMayCome(c) /\ c.around = k
    BY DEF Place, ValueMayCome
  <2> HIDE DEF c
  <2>7. Leads(next, Start, c)
    BY <1>3, <2>1, <2>2, <2>5, LeadsOn
  <2>8. next \in Seq(Tokens)
    BY <1>3, <2>1, <2>2, AppendProperties
  <2>9. QED BY <2>6, <2>7, <2>8 DEF k
<1>8. QED BY <1>3, <1>6, <1>7

\* The place where the name of a member may come.
LEMMA NextLeadsToKey ==
    ASSUME Inv, Grammatical, pc = "members", Head(walk).value.kind = "object"
    PROVE  \E c : /\ Leads(next, Start, c) /\ next \in Seq(Tokens)
                  /\ KeyMayCome(c) /\ c.around = WalkNest(walk)
<1> DEFINE k == WalkNest(walk)
<1>1. PICK S : walk \in Seq(Frames(S))
  BY DEF Inv, WalkOK
<1>2. walk # << >>
  BY DEF Inv, FlagOK, BeforeMember
<1>3. k \in Seq(Containers) /\ k # << >> /\ Head(k) = "object"
  BY <1>1, <1>2, WalkNestIs
<1> HIDE DEF k
<1>4. /\ buffer_ \in Seq(Tokens) /\ first_ \in BOOLEAN
      /\ Leads(buffer_, Start, WriterPlace)
  BY DEF Inv, BufferOK, Grammatical, Writing
<1>5. WriterPlace = Place(IF first_ THEN "first" ELSE "more", k)
  BY DEF WriterPlace, k
<1>6. CASE first_
  <2>1. next = buffer_
    BY <1>6 DEF next
  <2>2. KeyMayCome(WriterPlace) /\ WriterPlace.around = k
    BY <1>3, <1>5, <1>6 DEF Place, KeyMayCome, In
  <2>3. QED BY <1>4, <2>1, <2>2 DEF k
<1>7. CASE ~first_
  <2>1. next = Append(buffer_, Token(",", None))
    BY <1>7 DEF next
  <2>2. Token(",", None) \in Tokens /\ Token(",", None).t = ","
    BY TokensAre, PunctuationIs
  <2>3. WriterPlace = Place("more", k)
    BY <1>5, <1>7
  <2> DEFINE c == Place("key", k)
  <2>4. Go(WriterPlace, ",", c)
    BY <1>3, <2>3 DEF Go, Place, In
  <2>5. KeyMayCome(c) /\ c.around = k
    BY DEF Place, KeyMayCome
  <2> HIDE DEF c
  <2>6. Leads(next, Start, c)
    BY <1>4, <2>1, <2>2, <2>4, LeadsOn
  <2>7. next \in Seq(Tokens)
    BY <1>4, <2>1, <2>2, AppendProperties
  <2>8. QED BY <2>5, <2>6, <2>7 DEF k
<1>8. QED BY <1>4, <1>6, <1>7

LEMMA WriteAtomGrammatical == Inv /\ Grammatical /\ WriteAtom => Grammatical'
<1> SUFFICES ASSUME Inv, Grammatical, WriteAtom PROVE Grammatical'
  OBVIOUS
<1>1. pc = "value" /\ walk' = walk /\ first_' = first_ /\ pc' \in {"after", "thrown"}
  BY DEF WriteAtom
<1>2. CASE pc' = "thrown"
  BY <1>2 DEF Grammatical, Writing
<1>3. CASE pc' = "after"
  <2> DEFINE tok == Token("atom", todo.atom)
  <2>1. todo.atom \in Atoms /\ buffer_' = Append(next, tok)
    BY <1>3 DEF WriteAtom
  <2>2. tok \in Tokens /\ tok.t = "atom"
    BY <2>1, TokensAre
  <2> HIDE DEF tok
  <2>3. PICK c : /\ Leads(next, Start, c) /\ next \in Seq(Tokens)
                 /\ ValueMayCome(c) /\ c.around = WalkNest(walk)
    BY <1>1, NextLeadsToValue
  <2>4. Go(c, tok.t, Passed(WalkNest(walk)))
    BY <2>2, <2>3 DEF Go
  <2>5. Leads(buffer_', Start, Passed(WalkNest(walk)))
    BY <2>1, <2>2, <2>3, <2>4, LeadsOn
  <2>6. WriterPlace' = Passed(WalkNest(walk))
    BY <1>1, <1>3 DEF WriterPlace
  <2>7. QED BY <1>1, <1>3, <2>5, <2>6 DEF Grammatical, Writing, Leads
<1>4. QED BY <1>1, <1>2, <1>3

LEMMA WriteBeginGrammatical == Inv /\ Grammatical /\ WriteBegin => Grammatical'
<1> SUFFICES ASSUME Inv, Grammatical, WriteBegin PROVE Grammatical'
  OBVIOUS
<1> DEFINE tok == Token(Begin[todo.kind], None)
           f == [value |-> todo, at |-> 0]
           k == <<todo.kind>> \o WalkNest(walk)
<1>1. /\ pc = "value" /\ pc' = "members" /\ first_' = TRUE /\ todo.kind \in Containers
      /\ buffer_' = Append(next, tok) /\ walk' = <<f>> \o walk
  BY DEF WriteBegin
<1>2. tok \in Tokens /\ tok.t = Begin[todo.kind]
  BY <1>1, TokensAre, PunctuationIs
<1>3. PICK c : /\ Leads(next, Start, c) /\ next \in Seq(Tokens)
               /\ ValueMayCome(c) /\ c.around = WalkNest(walk)
  BY <1>1, NextLeadsToValue
<1>4. Go(c, tok.t, Place("first", k))
  BY <1>1, <1>2, <1>3 DEF Go
<1> HIDE DEF tok
<1>5. Leads(buffer_', Start, Place("first", k))
  BY <1>1, <1>2, <1>3, <1>4, LeadsOn
<1>6. WalkNest(walk') = k
  <2>1. PICK S : walk \in Seq(Frames(S))
    BY DEF Inv, WalkOK
  <2> DEFINE T == Frames(S \cup {todo})
  <2>2. Frames(S) \subseteq T /\ f \in T /\ f.value = todo
    BY <1>1 DEF Frames
  <2> HIDE DEF T, f
  <2>3. walk \in Seq(T)
    BY <2>1, <2>2, SeqMonotonic
  <2>4. WalkNest(<<f>> \o walk) = <<f.value.kind>> \o WalkNest(walk)
    BY <2>2, <2>3, WalkNestPush DEF T
  <2>5. QED BY <1>1, <2>2, <2>4
<1> HIDE DEF k
<1>7. WriterPlace' = Place("first", k)
  BY <1>1, <1>6 DEF WriterPlace
<1>8. QED BY <1>1, <1>5, <1>7 DEF Grammatical, Writing, Leads

\* The nest of the walk is the same when it takes another member.
LEMMA AdvanceNest ==
    ASSUME Inv, pc = "members", NEW w, w = <<[Head(walk) EXCEPT !.at = @ + 1]>> \o Tail(walk)
    PROVE  /\ WalkNest(w) = WalkNest(walk) /\ WalkNest(walk) # << >> /\ w # << >>
           /\ Head(WalkNest(walk)) = Head(walk).value.kind
           /\ Head(w).value.kind = Head(walk).value.kind
<1>1. PICK S : walk \in Seq(Frames(S))
  BY DEF Inv, WalkOK
<1>2. walk # << >>
  BY DEF Inv, FlagOK, BeforeMember
<1> DEFINE f == [Head(walk) EXCEPT !.at = @ + 1]
<1>3. f \in Frames(S) /\ f.value = Head(walk).value /\ Tail(walk) \in Seq(Frames(S))
  <2>1. Head(walk) \in Frames(S) /\ Tail(walk) \in Seq(Frames(S))
    BY <1>1, <1>2
  <2>2. f \in Frames(S) /\ f.value = Head(walk).value
    BY <2>1, SMTT(30) DEF Frames
  <2>3. QED BY <2>1, <2>2
<1> HIDE DEF f
<1>4. WalkNest(<<f>> \o Tail(walk)) = <<f.value.kind>> \o WalkNest(Tail(walk))
  BY <1>3, WalkNestPush
<1> DEFINE k == WalkNest(walk)
<1>5. k \in Seq(Containers) /\ k # << >> /\ Head(k) = Head(walk).value.kind
      /\ WalkNest(Tail(walk)) = Tail(k)
  BY <1>1, <1>2, WalkNestIs
<1> HIDE DEF k
<1>6. <<Head(k)>> \o Tail(k) = k
  BY <1>5
<1>7. w = <<f>> \o Tail(walk)
  BY DEF f
<1>8. w # << >> /\ Head(w) = f
  <2>1. <<f>> \in Seq(Frames(S))
    BY <1>3
  <2>2. QED BY <1>3, <1>7, <2>1
<1>9. QED BY <1>3, <1>4, <1>5, <1>6, <1>7, <1>8 DEF k

LEMMA NextItemGrammatical == Inv /\ Grammatical /\ NextItem => Grammatical'
<1> SUFFICES ASSUME Inv, Grammatical, NextItem PROVE Grammatical'
  OBVIOUS
<1>1. /\ pc = "members" /\ pc' = "value" /\ buffer_' = buffer_ /\ first_' = first_
      /\ Head(walk).value.kind = "array"
      /\ walk' = <<[Head(walk) EXCEPT !.at = @ + 1]>> \o Tail(walk)
  BY DEF NextItem, Advance
<1>2. /\ WalkNest(walk') = WalkNest(walk) /\ WalkNest(walk) # << >> /\ walk' # << >>
      /\ Head(WalkNest(walk)) = "array" /\ Head(walk').value.kind = "array"
  BY <1>1, AdvanceNest
<1>3. WriterPlace' = WriterPlace
  BY <1>1, <1>2 DEF WriterPlace
<1>4. Leads(buffer_, Start, WriterPlace)
  BY <1>1 DEF Grammatical, Writing
<1>5. QED BY <1>1, <1>2, <1>3, <1>4 DEF Grammatical, Writing, Leads

LEMMA KeyGrammatical == Inv /\ Grammatical /\ Key => Grammatical'
<1> SUFFICES ASSUME Inv, Grammatical, Key PROVE Grammatical'
  OBVIOUS
<1>1. /\ pc = "members" /\ pc' = "value" /\ first_' = TRUE
      /\ Head(walk).value.kind = "object"
      /\ walk' = <<[Head(walk) EXCEPT !.at = @ + 1]>> \o Tail(walk)
  BY DEF Key, Advance
<1>2. PICK n \in Keys : buffer_' = next \o <<Token("key", n), Token(":", None)>>
  BY DEF Key
<1> DEFINE k == WalkNest(walk)
           name == Token("key", n)
           colon == Token(":", None)
           named == Append(next, name)
<1>3. WalkNest(walk') = k /\ k # << >> /\ Head(k) = "object"
  BY <1>1, AdvanceNest
<1>4. name \in Tokens /\ name.t = "key" /\ colon \in Tokens /\ colon.t = ":"
  BY TokensAre, PunctuationIs
<1>5. PICK c : /\ Leads(next, Start, c) /\ next \in Seq(Tokens)
               /\ KeyMayCome(c) /\ c.around = k
  BY <1>1, NextLeadsToKey
<1> HIDE DEF k, name, colon
<1>6. Go(c, name.t, Place("colon", k))
  BY <1>4, <1>5 DEF Go
<1>7. Leads(named, Start, Place("colon", k)) /\ named \in Seq(Tokens)
  BY <1>4, <1>5, <1>6, LeadsOn
<1>8. Go(Place("colon", k), colon.t, Place("value", k))
  BY <1>4 DEF Go, Place
<1>9. buffer_' = Append(named, colon)
  BY <1>2, <1>4, <1>5 DEF name, colon
<1> HIDE DEF named
<1>10. Leads(buffer_', Start, Place("value", k))
  BY <1>4, <1>7, <1>8, <1>9, LeadsOn
<1>11. WriterPlace' = Place("value", k)
  BY <1>1, <1>3 DEF WriterPlace
<1>12. QED BY <1>1, <1>10, <1>11 DEF Grammatical, Writing, Leads

LEMMA ElementGrammatical == Inv /\ Grammatical /\ Element => Grammatical'
<1> SUFFICES ASSUME Inv, Grammatical, Element PROVE Grammatical'
  OBVIOUS
<1>1. /\ pc = "after" /\ walk # << >> /\ pc' = "members" /\ first_' = FALSE
      /\ walk' = walk /\ buffer_' = buffer_
  BY DEF Element
<1>2. PICK S : walk \in Seq(Frames(S))
  BY DEF Inv, WalkOK
<1>3. WalkNest(walk) # << >>
  BY <1>1, <1>2, WalkNestIs
<1>4. WriterPlace = Place("more", WalkNest(walk))
  BY <1>1, <1>3 DEF WriterPlace, Passed
<1>5. WriterPlace' = Place("more", WalkNest(walk))
  BY <1>1 DEF WriterPlace
<1>6. Leads(buffer_, Start, WriterPlace)
  BY <1>1 DEF Grammatical, Writing
<1>7. QED BY <1>1, <1>4, <1>5, <1>6 DEF Grammatical, Writing, Leads

LEMMA WriteEndGrammatical == Inv /\ Grammatical /\ WriteEnd => Grammatical'
<1> SUFFICES ASSUME Inv, Grammatical, WriteEnd PROVE Grammatical'
  OBVIOUS
<1> DEFINE kind == Head(walk).value.kind
           tok == Token(End[kind], None)
           k == WalkNest(walk)
<1>1. /\ pc = "members" /\ pc' = "after" /\ first_' = first_
      /\ buffer_' = Append(buffer_, tok)
      /\ walk' = Tail(walk)
  BY DEF WriteEnd
<1>2. PICK S : walk \in Seq(Frames(S))
  BY DEF Inv, WalkOK
<1>3. walk # << >>
  BY <1>1 DEF Inv, FlagOK, BeforeMember
<1>4. k # << >> /\ Head(k) = kind /\ WalkNest(Tail(walk)) = Tail(k)
  BY <1>2, <1>3, WalkNestIs
<1>5. kind \in Containers
  BY <1>2, <1>3, AdvanceWalk
<1>6. tok \in Tokens /\ tok.t = End[kind]
  BY <1>5, TokensAre, PunctuationIs
<1> HIDE DEF kind, tok, k
<1>7. WriterPlace = Place(IF first_ THEN "first" ELSE "more", k)
  BY <1>1 DEF WriterPlace, k
<1>8. Leads(buffer_, Start, WriterPlace) /\ buffer_ \in Seq(Tokens)
  BY <1>1 DEF Grammatical, Writing, Inv, BufferOK
<1>9. Go(WriterPlace, tok.t, Passed(Tail(k)))
  <2>1. WriterPlace.next \in {"first", "more"} /\ WriterPlace.around = k
    BY <1>7 DEF Place
  <2>2. In(WriterPlace, kind)
    BY <1>4, <2>1 DEF In
  <2>3. QED BY <1>5, <1>6, <2>1, <2>2 DEF Go
<1>10. Leads(buffer_', Start, Passed(Tail(k)))
  BY <1>1, <1>6, <1>8, <1>9, LeadsOn
<1>11. WriterPlace' = Passed(Tail(k))
  BY <1>1, <1>4 DEF WriterPlace
<1>12. QED BY <1>1, <1>10, <1>11 DEF Grammatical, Writing, Leads

LEMMA OthersGrammatical ==
    Inv /\ Grammatical /\ (Deliver \/ Read \/ Generate \/ UNCHANGED vars) => Grammatical'
<1> SUFFICES ASSUME Inv, Grammatical, Deliver \/ Read \/ Generate \/ UNCHANGED vars
             PROVE  Grammatical'
  OBVIOUS
<1>1. CASE Deliver
  <2>1. pc' = "read" /\ walk = << >> /\ walk' = walk
    BY <1>1 DEF Deliver
  <2>2. QED BY <2>1 DEF Grammatical, Writing
<1>2. CASE Read
  <2>1. /\ pc = "read" /\ walk' = walk
        /\ pc' \in {"read", "parsed", "thrown"}
    BY <1>2 DEF Read, ReadAtom, ReadBegin, ReadKey, ReadSeparator, ReadMember, ReadEnd,
                FinishParse, Refuse, Sees, writer_vars, reader_vars
  <2>2. QED BY <2>1 DEF Grammatical, Writing
<1>3. CASE Generate
  <2>1. pc = "parsed" /\ pc' = "value" /\ UNCHANGED <<walk, buffer_, first_>>
    BY <1>3 DEF Generate, reader_vars
  <2>2. walk = << >> /\ buffer_ = << >> /\ first_ = TRUE
    BY <2>1 DEF Inv, FlagOK, Fresh, Grammatical
  <2>3. WalkNest(walk) = << >>
    BY <2>2 DEF WalkNest
  <2>4. WriterPlace' = Start
    BY <2>1, <2>3 DEF WriterPlace, Start
  <2>5. Leads(<< >>, Start, Start)
    BY LeadsNowhere
  <2>6. QED BY <2>1, <2>2, <2>4, <2>5 DEF Grammatical, Writing, Leads
<1>4. CASE UNCHANGED vars
  BY <1>4 DEF vars, writer_vars, Grammatical, Writing, WriterPlace, Leads
<1>5. QED BY <1>1, <1>2, <1>3, <1>4

LEMMA InitGrammatical == Init => Grammatical
<1> SUFFICES ASSUME Init PROVE Grammatical
  OBVIOUS
<1>1. walk = << >> /\ buffer_ = << >> /\ first_ = TRUE /\ pc = "value"
  BY DEF Init
<1>2. WalkNest(walk) = << >>
  BY <1>1 DEF WalkNest
<1>3. WriterPlace = Start
  BY <1>1, <1>2 DEF WriterPlace, Start
<1>4. Leads(<< >>, Start, Start)
  BY LeadsNowhere
<1>5. QED BY <1>1, <1>3, <1>4 DEF Grammatical, Writing

-----------------------------------------------------------------------------
(* The reader.                                                             *)

\* What is being built are containers, whatever their members are.
BuiltOK == \E M : stack_ \in Seq(Built(M))

\* m is the number of the members with a name that containers of the kinds k are
\* waiting for, when e is expected: each object for one, but the innermost only if
\* it has the name.
Waiting == {"colon", "value", "after"}
Names(k, e, m) ==
    \E n \in [1..Len(k) + 1 -> Nat] :
        /\ n[Len(k) + 1] = 0
        /\ \A i \in 1..Len(k) :
              n[i] = n[i + 1] + (IF k[i] = "object" /\ (i = 1 => e \in Waiting) THEN 1 ELSE 0)
        /\ m = n[1]

\* There is a name for each of them, and no other.
NamesOK == Names(Nest(stack_), expect, Len(keys_))

ExpectOK ==
    /\ expect \in {"value", "first", "key", "colon", "after", "more"}
    /\ expect \in {"first", "more"} => stack_ # << >>
    /\ expect \in {"key", "colon"} => Inside("object")

ReaderOK ==
    /\ text \in Seq(Tokens) /\ cut \in BOOLEAN /\ keys_ \in Seq(Keys)
    /\ BuiltOK /\ ExpectOK
    /\ pc = "read" => NamesOK

\* Where the parser is, and that the rest of the text leads from there to the end
\* of the value if, and only if, it was not cut.
ReaderPlace == IF expect = "after" THEN Passed(Nest(stack_)) ELSE Place(expect, Nest(stack_))
Ends(e) == cut <=> e # Complete
WillComplete == pc = "read" => \E e : Ends(e) /\ Leads(text, ReaderPlace, e)

PcOK ==
    /\ pc \in {"value", "members", "after", "read", "parsed", "thrown"}
    /\ pc = "parsed" => ~cut

ReadInv == Inv /\ Grammatical /\ ReaderOK /\ WillComplete /\ PcOK /\ ThrowsOnlyForCause

LEMMA StackFacts ==
    ASSUME BuiltOK
    PROVE  /\ Len(stack_) \in Nat
           /\ Nest(stack_) = << >> <=> stack_ = << >>
           /\ stack_ # << >> => /\ Head(Nest(stack_)) = Head(stack_).kind
                                /\ Nest(Tail(stack_)) = Tail(Nest(stack_))
                                /\ Head(stack_) = stack_[1] /\ Len(stack_) >= 1
                                /\ Head(stack_).kind \in Containers
<1>1. PICK M : stack_ \in Seq(Built(M))
  BY DEF BuiltOK
<1>2. /\ Nest(stack_) = << >> <=> stack_ = << >>
      /\ stack_ # << >> => /\ Head(Nest(stack_)) = Head(stack_).kind
                           /\ Nest(Tail(stack_)) = Tail(Nest(stack_))
  BY <1>1, NestIs
<1>3. Len(stack_) \in Nat
      /\ stack_ # << >> => Head(stack_) = stack_[1] /\ Len(stack_) >= 1 /\ Head(stack_) \in Built(M)
  BY <1>1
<1>4. stack_ # << >> => Head(stack_).kind \in Containers
  BY <1>3 DEF Built
<1>5. QED BY <1>2, <1>3, <1>4

\* The kinds of token do not get mixed up.
LEMMA KindsDiffer ==
    /\ Begin["array"] = "[" /\ Begin["object"] = "{"
    /\ End["array"] = "]" /\ End["object"] = "}"
    /\ \A kind \in Containers : kind = "array" \/ kind = "object"
    /\ "array" \in Containers /\ "object" \in Containers
BY DEF Begin, End, Containers

\* What Go says of each kind of token.
LEMMA GoByKind ==
    ASSUME NEW c, NEW t, NEW d, Go(c, t, d)
    PROVE  /\ t = "atom" => d = Passed(c.around)
           /\ \A kind \in Containers :
                 t = Begin[kind] => d = Place("first", <<kind>> \o c.around)
           /\ t = "key" => d = Place("colon", c.around)
           /\ t = ":" => d = Place("value", c.around)
           /\ t = "," => d = Place(IF In(c, "object") THEN "key" ELSE "value", c.around)
           /\ t \in {"]", "}"} => d = Passed(Tail(c.around))
BY KindsDiffer DEF Go

\* What may come for Go is acceptable.
LEMMA GoIsAcceptable ==
    ASSUME ReaderOK, expect # "after", NEW t, NEW d, Go(ReaderPlace, t, d)
    PROVE  t \in Acceptable
<1>1. ReaderPlace.next = expect /\ ReaderPlace.around = Nest(stack_)
  BY DEF ReaderPlace, Place
<1>2. \A kind : In(ReaderPlace, kind) => Inside(kind)
  BY <1>1, StackFacts DEF In, Inside, ReaderOK
<1>3. ValueMayCome(ReaderPlace) => expect = "value" \/ (expect = "first" /\ Inside("array"))
  BY <1>1, <1>2 DEF ValueMayCome
<1>4. KeyMayCome(ReaderPlace) => expect = "key" \/ (expect = "first" /\ Inside("object"))
  BY <1>1, <1>2 DEF KeyMayCome
<1>5. CASE t = "atom" /\ ValueMayCome(ReaderPlace)
  BY <1>3, <1>5 DEF Acceptable, BeginsValue
<1>6. CASE \E kind \in Containers : t = Begin[kind] /\ ValueMayCome(ReaderPlace)
  <2>1. t \in {"[", "{"} /\ ValueMayCome(ReaderPlace)
    BY <1>6, KindsDiffer
  <2>2. QED BY <1>3, <2>1 DEF Acceptable, BeginsValue, Punctuation
<1>7. CASE t = "key" /\ KeyMayCome(ReaderPlace)
  BY <1>4, <1>7 DEF Acceptable
<1>8. CASE t = ":" /\ ReaderPlace.next = "colon"
  BY <1>1, <1>8 DEF Acceptable, Punctuation
<1>9. CASE t = "," /\ ReaderPlace.next = "more"
  BY <1>1, <1>9 DEF Acceptable, Punctuation
<1>10. CASE \E kind \in Containers :
              t = End[kind] /\ ReaderPlace.next \in {"first", "more"} /\ In(ReaderPlace, kind)
  <2>1. PICK kind \in Containers : t = End[kind] /\ In(ReaderPlace, kind)
    BY <1>10
  <2>2. t = End[Head(stack_).kind] /\ expect \in {"first", "more"}
    BY <1>1, <1>2, <1>10, <2>1 DEF Inside
  <2>3. t \in Punctuation
    BY <2>1, KindsDiffer DEF Punctuation
  <2>4. QED BY <2>2, <2>3 DEF Acceptable
<1>11. QED BY <1>5, <1>6, <1>7, <1>8, <1>9, <1>10 DEF Go

\* What a token has the grammar accept it in.
LEMMA SeenIsAccepted ==
    ASSUME ReaderOK, NEW T, Sees(T)
    PROVE  /\ pc = "read" /\ text # << >> /\ Head(text) \in Tokens /\ Head(text).t \in T
           /\ Tail(text) \in Seq(Tokens)
           /\ expect # "after"
           /\ Head(text).t \in BeginsValue =>
                 expect = "value" \/ (expect = "first" /\ Inside("array"))
           /\ Head(text).t = "key" =>
                 expect = "key" \/ (expect = "first" /\ Inside("object"))
           /\ Head(text).t = ":" => expect = "colon"
           /\ Head(text).t = "," => expect = "more"
           /\ Head(text).t \in {"]", "}"} =>
                 expect \in {"first", "more"} /\ Head(text).t = End[Head(stack_).kind]
<1>1. text \in Seq(Tokens) /\ ExpectOK /\ BuiltOK
  BY DEF ReaderOK
<1>2. pc = "read" /\ text # << >> /\ Head(text).t \in T /\ Head(text).t \in Acceptable
  BY DEF Sees
<1>3. Head(text) \in Tokens /\ Tail(text) \in Seq(Tokens)
  BY <1>1, <1>2
<1> DEFINE t == Head(text).t
           e == End[Head(stack_).kind]
<1>4. expect \in {"first", "more"} => e \in {"]", "}"}
  BY <1>1, StackFacts, KindsDiffer DEF ExpectOK
<1> HIDE DEF t, e
<1>5. \/ t \in BeginsValue /\ (expect = "value" \/ (expect = "first" /\ Inside("array")))
      \/ t = "key" /\ (expect = "key" \/ (expect = "first" /\ Inside("object")))
      \/ t = ":" /\ expect = "colon"
      \/ t = "," /\ expect = "more"
      \/ expect \in {"first", "more"} /\ t = e
  BY <1>2 DEF Acceptable, t, e
<1>6. expect # "after"
  BY <1>5
<1>7. t \in BeginsValue => expect = "value" \/ (expect = "first" /\ Inside("array"))
  BY <1>4, <1>5 DEF BeginsValue
<1>8. /\ t = "key" => expect = "key" \/ (expect = "first" /\ Inside("object"))
      /\ t = ":" => expect = "colon"
      /\ t = "," => expect = "more"
      /\ t \in {"]", "}"} => expect \in {"first", "more"} /\ t = e
  BY <1>4, <1>5 DEF BeginsValue
<1>9. QED BY <1>2, <1>3, <1>6, <1>7, <1>8 DEF t, e

-----------------------------------------------------------------------------
(* How many names there are.                                               *)

\* Whether an array is waiting makes no difference.
LEMMA NamesSame ==
    ASSUME NEW k \in Seq(Containers), NEW e, NEW f, NEW m, Names(k, e, m),
           k # << >> /\ Head(k) = "object" => (e \in Waiting <=> f \in Waiting)
    PROVE  Names(k, f, m)
<1>1. \A i \in 1..Len(k) : i = 1 => k # << >> /\ Head(k) = k[i]
  OBVIOUS
<1>2. \A i \in 1..Len(k) : (k[i] = "object" /\ (i = 1 => e \in Waiting)) <=> (k[i] = "object" /\ (i = 1 => f \in Waiting))
  BY <1>1
<1>3. QED BY <1>2 DEF Names

\* An object takes a name.
LEMMA NamesOneMore ==
    ASSUME NEW k \in Seq(Containers), k # << >>, Head(k) = "object", NEW m,
           NEW e, e \notin Waiting, NEW d, d \in Waiting, Names(k, e, m)
    PROVE  Names(k, d, m + 1)
<1>1. PICK n \in [1..Len(k) + 1 -> Nat] :
           /\ n[Len(k) + 1] = 0 /\ m = n[1]
           /\ \A i \in 1..Len(k) :
                 n[i] = n[i + 1] + (IF k[i] = "object" /\ (i = 1 => FALSE) THEN 1 ELSE 0)
  BY DEF Names
<1>2. Len(k) \in Nat /\ Len(k) >= 1 /\ k[1] = "object"
  OBVIOUS
<1> DEFINE f == [i \in 1..Len(k) + 1 |-> IF i = 1 THEN n[1] + 1 ELSE n[i]]
<1>3. f \in [1..Len(k) + 1 -> Nat] /\ f[1] = m + 1 /\ f[Len(k) + 1] = 0
      /\ \A i \in 2..Len(k) + 1 : f[i] = n[i]
  BY <1>1, <1>2
<1> HIDE DEF f
<1>4. ASSUME NEW i \in 1..Len(k)
      PROVE  f[i] = f[i + 1] + (IF k[i] = "object" /\ (i = 1 => TRUE) THEN 1 ELSE 0)
  <2>1. n[i] \in Nat /\ n[i + 1] \in Nat /\ f[i + 1] = n[i + 1]
    <3>1. i \in 1..Len(k) + 1 /\ i + 1 \in 1..Len(k) + 1 /\ i + 1 \in 2..Len(k) + 1
      BY <1>2
    <3>2. QED BY <1>3, <3>1
  <2>2. CASE i = 1
    BY <1>1, <1>2, <1>3, <2>1, <2>2
  <2>3. CASE i # 1
    <3>1. f[i] = n[i]
      BY <1>2, <1>3, <2>3
    <3>2. QED BY <1>1, <2>1, <2>3, <3>1
  <2>4. QED BY <2>2, <2>3
<1>5. QED BY <1>3, <1>4 DEF Names

\* And gives it up.
LEMMA NamesOneLess ==
    ASSUME NEW k \in Seq(Containers), k # << >>, Head(k) = "object", NEW m,
           NEW e, e \in Waiting, NEW d, d \notin Waiting, Names(k, e, m)
    PROVE  m \in Nat /\ m >= 1 /\ Names(k, d, m - 1)
<1>1. PICK n \in [1..Len(k) + 1 -> Nat] :
           /\ n[Len(k) + 1] = 0 /\ m = n[1]
           /\ \A i \in 1..Len(k) :
                 n[i] = n[i + 1] + (IF k[i] = "object" /\ (i = 1 => TRUE) THEN 1 ELSE 0)
  BY DEF Names
<1>2. Len(k) \in Nat /\ Len(k) >= 1 /\ k[1] = "object"
  OBVIOUS
<1>3. n[1] = n[2] + 1 /\ n[2] \in Nat
  <2>1. 1 \in 1..Len(k) /\ 2 \in 1..Len(k) + 1 /\ 1 + 1 = 2
    BY <1>2
  <2>2. QED BY <1>1, <1>2, <2>1
<1> DEFINE f == [i \in 1..Len(k) + 1 |-> IF i = 1 THEN n[2] ELSE n[i]]
<1>4. f \in [1..Len(k) + 1 -> Nat] /\ f[1] = n[2] /\ f[Len(k) + 1] = 0
      /\ \A i \in 2..Len(k) + 1 : f[i] = n[i]
  BY <1>1, <1>2, <1>3
<1> HIDE DEF f
<1>5. ASSUME NEW i \in 1..Len(k)
      PROVE  f[i] = f[i + 1] + (IF k[i] = "object" /\ (i = 1 => FALSE) THEN 1 ELSE 0)
  <2>1. n[i] \in Nat /\ n[i + 1] \in Nat /\ f[i + 1] = n[i + 1]
    <3>1. i \in 1..Len(k) + 1 /\ i + 1 \in 1..Len(k) + 1 /\ i + 1 \in 2..Len(k) + 1
      BY <1>2
    <3>2. QED BY <1>4, <3>1
  <2>2. CASE i = 1
    BY <1>3, <1>4, <2>1, <2>2
  <2>3. CASE i # 1
    <3>1. f[i] = n[i]
      BY <1>2, <1>4, <2>3
    <3>2. QED BY <1>1, <2>1, <2>3, <3>1
  <2>4. QED BY <2>2, <2>3
<1>6. m \in Nat /\ m >= 1 /\ m - 1 = n[2]
  <2>1. m = n[2] + 1 /\ n[2] \in Nat
    BY <1>1, <1>3
  <2>2. QED BY <2>1
<1>7. QED BY <1>4, <1>5, <1>6 DEF Names

\* A container begins: the one around it, if it is an object, has the name.
LEMMA NamesPush ==
    ASSUME NEW k \in Seq(Containers), NEW kind \in Containers, NEW m,
           NEW e, e \in Waiting, NEW d, d \notin Waiting, Names(k, e, m)
    PROVE  Names(<<kind>> \o k, d, m)
<1>1. PICK n \in [1..Len(k) + 1 -> Nat] :
           /\ n[Len(k) + 1] = 0 /\ m = n[1]
           /\ \A i \in 1..Len(k) :
                 n[i] = n[i + 1] + (IF k[i] = "object" /\ (i = 1 => TRUE) THEN 1 ELSE 0)
  BY DEF Names
<1> DEFINE l == <<kind>> \o k
<1>2. Len(k) \in Nat /\ l \in Seq(Containers) /\ Len(l) = Len(k) + 1
      /\ \A i \in 2..Len(k) + 1 : l[i] = k[i - 1]
  OBVIOUS
<1> HIDE DEF l
<1> DEFINE f == [i \in 1..Len(l) + 1 |-> IF i = 1 THEN n[1] ELSE n[i - 1]]
<1>3. f \in [1..Len(l) + 1 -> Nat] /\ f[1] = m /\ f[Len(l) + 1] = 0
      /\ \A i \in 2..Len(l) + 1 : f[i] = n[i - 1]
  BY <1>1, <1>2
<1> HIDE DEF f
<1>4. ASSUME NEW i \in 1..Len(l)
      PROVE  f[i] = f[i + 1] + (IF l[i] = "object" /\ (i = 1 => FALSE) THEN 1 ELSE 0)
  <2>1. i + 1 \in 2..Len(l) + 1 /\ (i + 1) - 1 = i /\ i \in 1..Len(k) + 1
    BY <1>2
  <2>2. f[i + 1] = n[i] /\ n[i] \in Nat
    BY <1>3, <2>1
  <2>3. CASE i = 1
    BY <1>1, <1>3, <2>2, <2>3
  <2>4. CASE i # 1
    <3>1. i \in 2..Len(k) + 1 /\ i \in 2..Len(l) + 1 /\ i - 1 \in 1..Len(k) /\ (i - 1) + 1 = i
      BY <1>2, <2>4
    <3>2. n[i - 1] = n[i] + (IF k[i - 1] = "object" /\ (i - 1 = 1 => TRUE) THEN 1 ELSE 0)
      BY <1>1, <3>1
    <3>3. f[i] = n[i - 1] /\ l[i] = k[i - 1]
      BY <1>2, <1>3, <3>1
    <3>4. QED BY <2>2, <2>4, <3>2, <3>3
  <2>5. QED BY <2>3, <2>4
<1>5. Names(l, d, m)
  BY <1>3, <1>4 DEF Names
<1>6. QED BY <1>5 DEF l

\* It ends, and is the value of that member.
LEMMA NamesPop ==
    ASSUME NEW k \in Seq(Containers), k # << >>, NEW m,
           NEW e, e \notin Waiting, NEW d, d \in Waiting, Names(k, e, m)
    PROVE  Names(Tail(k), d, m)
<1>1. PICK n \in [1..Len(k) + 1 -> Nat] :
           /\ n[Len(k) + 1] = 0 /\ m = n[1]
           /\ \A i \in 1..Len(k) :
                 n[i] = n[i + 1] + (IF k[i] = "object" /\ (i = 1 => FALSE) THEN 1 ELSE 0)
  BY DEF Names
<1> DEFINE l == Tail(k)
<1>2. Len(k) \in Nat /\ Len(k) >= 1 /\ l \in Seq(Containers) /\ Len(l) = Len(k) - 1
      /\ \A i \in 1..Len(l) : l[i] = k[i + 1]
  OBVIOUS
<1> HIDE DEF l
<1> DEFINE f == [i \in 1..Len(l) + 1 |-> n[i + 1]]
<1>3. f \in [1..Len(l) + 1 -> Nat] /\ f[1] = n[2] /\ f[Len(l) + 1] = 0
      /\ \A i \in 1..Len(l) + 1 : f[i] = n[i + 1]
  BY <1>1, <1>2
<1>4. n[2] = m
  <2>1. 1 \in 1..Len(k) /\ 2 \in 1..Len(k) + 1 /\ 1 + 1 = 2
    BY <1>2
  <2>2. n[2] \in Nat /\ n[1] = n[2] + 0
    BY <1>1, <2>1
  <2>3. QED BY <1>1, <2>2
<1> HIDE DEF f
<1>5. ASSUME NEW i \in 1..Len(l)
      PROVE  f[i] = f[i + 1] + (IF l[i] = "object" /\ (i = 1 => TRUE) THEN 1 ELSE 0)
  <2>1. i + 1 \in 1..Len(k) /\ i + 1 # 1 /\ i \in 1..Len(l) + 1 /\ i + 1 \in 1..Len(l) + 1
    BY <1>2
  <2>2. n[i + 1] = n[(i + 1) + 1] + (IF k[i + 1] = "object" THEN 1 ELSE 0)
    BY <1>1, <2>1
  <2>3. f[i] = n[i + 1] /\ f[i + 1] = n[(i + 1) + 1] /\ l[i] = k[i + 1]
    BY <1>2, <1>3, <2>1
  <2>4. QED BY <2>2, <2>3
<1>6. Names(l, d, m)
  BY <1>3, <1>4, <1>5 DEF Names
<1>7. QED BY <1>6 DEF l

-----------------------------------------------------------------------------
(* The events of the reader.                                               *)

\* A token that the parser takes is the one the text leads on with.
LEMMA TokenLeads ==
    ASSUME ReaderOK, WillComplete, NEW T, Sees(T)
    PROVE  \E d, e : Ends(e) /\ Go(ReaderPlace, Head(text).t, d) /\ Leads(Tail(text), d, e)
<1>1. PICK e : Ends(e) /\ Leads(text, ReaderPlace, e)
  BY DEF WillComplete, Sees
<1>2. QED BY <1>1, LeadsOff DEF ReaderOK, Sees

LEMMA ReadAtomReads == ReadInv /\ ReadAtom => (ReaderOK /\ WillComplete)'
<1> SUFFICES ASSUME ReadInv, ReadAtom PROVE (ReaderOK /\ WillComplete)'
  OBVIOUS
<1> DEFINE k == Nest(stack_)
<1>1. /\ Sees({"atom"}) /\ text' = Tail(text) /\ expect' = "after"
      /\ UNCHANGED <<pc, cut, stack_, keys_>>
  BY DEF ReadAtom
<1>2. ReaderOK /\ WillComplete /\ BuiltOK
  BY DEF ReadInv, ReaderOK
<1>3. /\ pc = "read" /\ Head(text).t = "atom" /\ Tail(text) \in Seq(Tokens) /\ expect # "after"
      /\ expect = "value" \/ (expect = "first" /\ Inside("array"))
  BY <1>1, <1>2, SeenIsAccepted DEF BeginsValue
<1>4. /\ k \in Seq(Containers)
      /\ k = << >> <=> stack_ = << >>
      /\ stack_ # << >> => Head(k) = Head(stack_).kind
  BY <1>2, NestIs DEF BuiltOK
<1>5. NamesOK'
  <2>1. Names(k, expect, Len(keys_))
    BY <1>2, <1>3 DEF ReaderOK, NamesOK
  <2>2. k # << >> /\ Head(k) = "object" => expect \in Waiting
    BY <1>3, <1>4 DEF Inside, Waiting
  <2>3. "after" \in Waiting
    BY DEF Waiting
  <2> HIDE DEF k
  <2>4. Names(k, "after", Len(keys_))
    BY <1>4, <2>1, <2>2, <2>3, NamesSame
  <2>5. QED BY <1>1, <2>4 DEF NamesOK, k
<1>6. ReaderOK'
  BY <1>1, <1>2, <1>3, <1>5 DEF ReaderOK, BuiltOK, ExpectOK, Inside
<1>7. WillComplete'
  <2>1. PICK d, e : Ends(e) /\ Go(ReaderPlace, Head(text).t, d) /\ Leads(Tail(text), d, e)
    BY <1>1, <1>2, TokenLeads
  <2>2. ReaderPlace.around = k
    BY <1>3 DEF ReaderPlace, Place
  <2>3. d = Passed(k)
    BY <1>3, <2>1, <2>2, GoByKind
  <2>4. ReaderPlace' = Passed(k)
    BY <1>1 DEF ReaderPlace
  <2>5. QED BY <1>1, <2>1, <2>3, <2>4 DEF WillComplete, Leads, Ends
<1>8. QED BY <1>6, <1>7

LEMMA ReadBeginReads == ReadInv /\ ReadBegin => (ReaderOK /\ WillComplete)'
<1> SUFFICES ASSUME ReadInv, ReadBegin PROVE (ReaderOK /\ WillComplete)'
  OBVIOUS
<1> DEFINE k == Nest(stack_)
<1>1. PICK kind \in Containers :
           Sees({Begin[kind]}) /\ stack_' = <<Container(kind, << >>)>> \o stack_
  BY DEF ReadBegin
<1>2. text' = Tail(text) /\ expect' = "first" /\ UNCHANGED <<pc, cut, keys_>>
  BY DEF ReadBegin
<1>3. ReaderOK /\ WillComplete /\ BuiltOK
  BY DEF ReadInv, ReaderOK
<1>4. /\ pc = "read" /\ Head(text).t = Begin[kind] /\ Tail(text) \in Seq(Tokens)
      /\ expect # "after"
      /\ expect = "value" \/ (expect = "first" /\ Inside("array"))
  <2>1. /\ pc = "read" /\ Head(text).t \in {Begin[kind]} /\ Tail(text) \in Seq(Tokens)
        /\ expect # "after"
        /\ Head(text).t \in BeginsValue =>
              expect = "value" \/ (expect = "first" /\ Inside("array"))
    BY <1>1, <1>3, SeenIsAccepted
  <2>2. Begin[kind] \in BeginsValue
    BY PunctuationIs
  <2>3. QED BY <2>1, <2>2
<1>5. /\ k \in Seq(Containers)
      /\ k = << >> <=> stack_ = << >>
      /\ stack_ # << >> => Head(k) = Head(stack_).kind
  BY <1>3, NestIs DEF BuiltOK
<1>6. BuiltOK' /\ Nest(stack_') = <<kind>> \o k /\ stack_' # << >>
  <2>1. PICK M : stack_ \in Seq(Built(M))
    BY <1>3 DEF BuiltOK
  <2> DEFINE B == Built(M \cup {<< >>})
             f == Container(kind, << >>)
  <2>2. Built(M) \subseteq B /\ f \in B /\ f.kind = kind
    BY <1>1 DEF Built, Container
  <2> HIDE DEF B, f
  <2>3. stack_ \in Seq(B)
    BY <2>1, <2>2, SeqMonotonic
  <2>4. <<f>> \o stack_ \in Seq(B) /\ <<f>> \o stack_ # << >>
    <3>1. <<f>> \in Seq(B)
      BY <2>2
    <3>2. QED BY <2>3, <3>1
  <2>5. Nest(<<f>> \o stack_) = <<f.kind>> \o k
    BY <2>2, <2>3, NestPush DEF B
  <2>6. stack_' \in Seq(Built(M \cup {<< >>}))
    BY <1>1, <2>4 DEF f, B
  <2>7. QED BY <1>1, <2>2, <2>4, <2>5, <2>6 DEF BuiltOK, f
<1>7. NamesOK'
  <2>1. Names(k, expect, Len(keys_))
    BY <1>3, <1>4 DEF ReaderOK, NamesOK
  <2>2. k # << >> /\ Head(k) = "object" => expect \in Waiting
    BY <1>4, <1>5 DEF Inside, Waiting
  <2>3. "value" \in Waiting /\ "first" \notin Waiting
    BY DEF Waiting
  <2> HIDE DEF k
  <2>4. Names(k, "value", Len(keys_))
    BY <1>5, <2>1, <2>2, <2>3, NamesSame
  <2>5. Names(<<kind>> \o k, "first", Len(keys_))
    BY <1>5, <2>3, <2>4, NamesPush
  <2>6. QED BY <1>2, <1>6, <2>5 DEF NamesOK
<1>8. ReaderOK'
  BY <1>2, <1>3, <1>4, <1>6, <1>7 DEF ReaderOK, ExpectOK
<1>9. WillComplete'
  <2>1. PICK d, e : Ends(e) /\ Go(ReaderPlace, Head(text).t, d) /\ Leads(Tail(text), d, e)
    BY <1>1, <1>3, TokenLeads
  <2>2. ReaderPlace.around = k
    BY <1>4 DEF ReaderPlace, Place
  <2>3. d = Place("first", <<kind>> \o ReaderPlace.around)
    <3>1. PICK x \in Containers :
             Head(text).t = Begin[x] /\ d = Place("first", <<x>> \o ReaderPlace.around)
      BY <1>4, <2>1, KindsDiffer DEF Go
    <3>2. x = kind
      BY <1>4, <3>1, KindsDiffer
    <3>3. QED BY <3>1, <3>2
  <2>4. ReaderPlace' = Place("first", <<kind>> \o k)
    BY <1>2, <1>6 DEF ReaderPlace
  <2>5. QED BY <1>2, <2>1, <2>2, <2>3, <2>4 DEF WillComplete, Leads, Ends
<1>10. QED BY <1>8, <1>9

LEMMA ReadKeyReads == ReadInv /\ ReadKey => (ReaderOK /\ WillComplete)'
<1> SUFFICES ASSUME ReadInv, ReadKey PROVE (ReaderOK /\ WillComplete)'
  OBVIOUS
<1> DEFINE k == Nest(stack_)
<1>1. /\ Sees({"key"}) /\ text' = Tail(text) /\ expect' = "colon"
      /\ keys_' = <<Head(text).v>> \o keys_ /\ UNCHANGED <<pc, cut, stack_>>
  BY DEF ReadKey
<1>2. ReaderOK /\ WillComplete /\ BuiltOK /\ ExpectOK /\ keys_ \in Seq(Keys)
  BY DEF ReadInv, ReaderOK
<1>3. /\ pc = "read" /\ Head(text) \in Tokens /\ Head(text).t = "key"
      /\ Tail(text) \in Seq(Tokens) /\ expect # "after"
      /\ expect = "key" \/ (expect = "first" /\ Inside("object"))
  <2>1. /\ pc = "read" /\ Head(text) \in Tokens /\ Head(text).t \in {"key"}
        /\ Tail(text) \in Seq(Tokens) /\ expect # "after"
        /\ Head(text).t = "key" => expect = "key" \/ (expect = "first" /\ Inside("object"))
    BY <1>1, <1>2, SeenIsAccepted
  <2>2. QED BY <2>1
<1>4. Inside("object")
  BY <1>2, <1>3 DEF ExpectOK
<1>5. k \in Seq(Containers) /\ k # << >> /\ Head(k) = "object"
  BY <1>2, <1>4, NestIs DEF BuiltOK, Inside
<1>6. keys_' \in Seq(Keys) /\ Len(keys_') = Len(keys_) + 1
  <2>1. Head(text).v \in Keys
    BY <1>3 DEF Tokens, Punctuation
  <2>2. <<Head(text).v>> \in Seq(Keys) /\ Len(<<Head(text).v>>) = 1
    BY <2>1
  <2>3. QED BY <1>1, <1>2, <2>2
<1>7. NamesOK'
  <2>1. Names(k, expect, Len(keys_))
    BY <1>2, <1>3 DEF ReaderOK, NamesOK
  <2>2. expect \notin Waiting /\ "colon" \in Waiting
    BY <1>3 DEF Waiting
  <2> HIDE DEF k
  <2>3. Names(k, "colon", Len(keys_) + 1)
    BY <1>5, <2>1, <2>2, NamesOneMore
  <2>4. QED BY <1>1, <1>6, <2>3 DEF NamesOK, k
<1>8. ReaderOK'
  BY <1>1, <1>2, <1>3, <1>4, <1>6, <1>7 DEF ReaderOK, BuiltOK, ExpectOK, Inside
<1>9. WillComplete'
  <2>1. PICK d, e : Ends(e) /\ Go(ReaderPlace, Head(text).t, d) /\ Leads(Tail(text), d, e)
    BY <1>1, <1>2, TokenLeads
  <2>2. ReaderPlace.around = k
    BY <1>3 DEF ReaderPlace, Place
  <2>3. d = Place("colon", k)
    BY <1>3, <2>1, <2>2, GoByKind
  <2>4. ReaderPlace' = Place("colon", k)
    BY <1>1 DEF ReaderPlace
  <2>5. QED BY <1>1, <2>1, <2>3, <2>4 DEF WillComplete, Leads, Ends
<1>10. QED BY <1>8, <1>9

LEMMA ReadSeparatorReads == ReadInv /\ ReadSeparator => (ReaderOK /\ WillComplete)'
<1> SUFFICES ASSUME ReadInv, ReadSeparator PROVE (ReaderOK /\ WillComplete)'
  OBVIOUS
<1> DEFINE k == Nest(stack_)
<1>1. /\ Sees({",", ":"}) /\ text' = Tail(text)
      /\ expect' = IF Head(text).t = "," /\ Inside("object") THEN "key" ELSE "value"
      /\ UNCHANGED <<pc, cut, stack_, keys_>>
  BY DEF ReadSeparator
<1>2. ReaderOK /\ WillComplete /\ BuiltOK /\ ExpectOK
  BY DEF ReadInv, ReaderOK
<1>3. /\ pc = "read" /\ Head(text).t \in {",", ":"} /\ Tail(text) \in Seq(Tokens)
      /\ expect # "after"
      /\ Head(text).t = ":" => expect = "colon"
      /\ Head(text).t = "," => expect = "more"
  BY <1>1, <1>2, SeenIsAccepted
<1>4. /\ k \in Seq(Containers)
      /\ k = << >> <=> stack_ = << >>
      /\ stack_ # << >> => Head(k) = Head(stack_).kind
  BY <1>2, NestIs DEF BuiltOK
<1>5. expect' \in {"key", "value"} /\ (expect' = "key" => Inside("object"))
      /\ (Head(text).t = "," /\ Inside("object") => expect' = "key")
      /\ (Head(text).t = ":" => expect' = "value")
  BY <1>1
<1>6. NamesOK'
  <2>1. Names(k, expect, Len(keys_))
    BY <1>2, <1>3 DEF ReaderOK, NamesOK
  <2>2. k # << >> /\ Head(k) = "object" => (expect \in Waiting <=> expect' \in Waiting)
    <3> SUFFICES ASSUME k # << >>, Head(k) = "object"
                 PROVE  expect \in Waiting <=> expect' \in Waiting
      BY Zenon
    <3>1. Inside("object")
      BY <1>4 DEF Inside
    <3>2. CASE Head(text).t = ","
      BY <1>3, <1>5, <3>1, <3>2 DEF Waiting
    <3>3. CASE Head(text).t = ":"
      BY <1>3, <1>5, <3>3 DEF Waiting
    <3>4. QED BY <1>3, <3>2, <3>3
  <2> HIDE DEF k
  <2>3. Names(k, expect', Len(keys_))
    BY <1>4, <2>1, <2>2, NamesSame
  <2>4. QED BY <1>1, <2>3 DEF NamesOK, k
<1>7. ReaderOK'
  BY <1>1, <1>2, <1>3, <1>5, <1>6 DEF ReaderOK, BuiltOK, ExpectOK, Inside
<1>8. WillComplete'
  <2>1. PICK d, e : Ends(e) /\ Go(ReaderPlace, Head(text).t, d) /\ Leads(Tail(text), d, e)
    BY <1>1, <1>2, TokenLeads
  <2>2. ReaderPlace.around = k
    BY <1>3 DEF ReaderPlace, Place
  <2>3. In(ReaderPlace, "object") <=> Inside("object")
    <3> HIDE DEF k
    <3>1. QED BY <1>4, <2>2 DEF In, Inside
  <2>4. d = Place(expect', k)
    BY <1>1, <1>3, <2>1, <2>2, <2>3, GoByKind, ZenonT(30)
  <2>5. ReaderPlace' = Place(expect', k)
    BY <1>1, <1>5 DEF ReaderPlace
  <2>6. QED BY <1>1, <2>1, <2>4, <2>5 DEF WillComplete, Leads, Ends
<1>9. QED BY <1>7, <1>8

\* The innermost container is another, of the same kind.
LEMMA SameNest ==
    ASSUME BuiltOK, stack_ # << >>, NEW m
    PROVE  LET new == <<[Head(stack_) EXCEPT !.members = m]>> \o Tail(stack_)
           IN  /\ \E M : new \in Seq(Built(M))
               /\ Nest(new) = Nest(stack_) /\ new # << >>
               /\ Head(new).kind = Head(stack_).kind
<1> DEFINE f == [Head(stack_) EXCEPT !.members = m]
           new == <<f>> \o Tail(stack_)
           k == Nest(stack_)
<1>1. PICK M : stack_ \in Seq(Built(M))
  BY DEF BuiltOK
<1> DEFINE B == Built(M \cup {m})
<1>2. Built(M) \subseteq B
  BY DEF Built
<1>3. f \in B /\ f.kind = Head(stack_).kind
  <2>1. Head(stack_) \in Built(M)
    BY <1>1
  <2>2. QED BY <2>1 DEF Built
<1> HIDE DEF B, f
<1>4. Tail(stack_) \in Seq(B)
  <2>1. Tail(stack_) \in Seq(Built(M))
    BY <1>1
  <2>2. QED BY <1>2, <2>1, SeqMonotonic
<1>5. new \in Seq(B) /\ new # << >> /\ Head(new) = f
  <2>1. <<f>> \in Seq(B)
    BY <1>3
  <2>2. QED BY <1>4, <2>1
<1>6. Nest(new) = <<f.kind>> \o Nest(Tail(stack_))
  BY <1>3, <1>4, NestPush DEF B
<1>7. k \in Seq(Containers) /\ k # << >> /\ Head(k) = Head(stack_).kind
      /\ Nest(Tail(stack_)) = Tail(k)
  BY <1>1, NestIs
<1> HIDE DEF k
<1>8. <<Head(k)>> \o Tail(k) = k
  BY <1>7
<1>9. QED BY <1>3, <1>5, <1>6, <1>7, <1>8 DEF B, f, k

LEMMA ReadMemberReads == ReadInv /\ ReadMember => (ReaderOK /\ WillComplete)'
<1> SUFFICES ASSUME ReadInv, ReadMember PROVE (ReaderOK /\ WillComplete)'
  OBVIOUS
<1> DEFINE k == Nest(stack_)
<1>1. /\ pc = "read" /\ expect = "after" /\ expect' = "more"
      /\ UNCHANGED <<pc, text, cut>>
  BY DEF ReadMember
<1>2. ReaderOK /\ WillComplete /\ BuiltOK /\ ExpectOK /\ keys_ \in Seq(Keys)
  BY DEF ReadInv, ReaderOK
<1>3. stack_ # << >>
  BY DEF ReadMember, Inside
<1>4. k \in Seq(Containers) /\ k # << >> /\ Head(k) = Head(stack_).kind
  BY <1>2, <1>3, NestIs DEF BuiltOK
<1>5. \E m : stack_' = <<[Head(stack_) EXCEPT !.members = m]>> \o Tail(stack_)
  BY DEF ReadMember
<1>6. BuiltOK' /\ Nest(stack_') = k /\ stack_' # << >>
  BY <1>2, <1>3, <1>5, SameNest DEF BuiltOK
<1>7. Names(k, "after", Len(keys_)) /\ "after" \in Waiting /\ "more" \notin Waiting
  BY <1>1, <1>2 DEF ReaderOK, NamesOK, Waiting
<1> HIDE DEF k
<1>8. keys_' \in Seq(Keys) /\ Names(k, "more", Len(keys_'))
  <2>1. CASE Inside("object") /\ keys_' = Tail(keys_)
    <3>1. Head(k) = "object"
      BY <1>4, <2>1 DEF Inside
    <3>2. Len(keys_) >= 1 /\ Names(k, "more", Len(keys_) - 1)
      BY <1>4, <1>7, <3>1, NamesOneLess
    <3>3. keys_' \in Seq(Keys) /\ Len(keys_') = Len(keys_) - 1
      <4>1. keys_ # << >>
        BY <1>2, <3>2, EmptySeq
      <4>2. QED BY <1>2, <2>1, <4>1
    <3>4. QED BY <3>2, <3>3
  <2>2. CASE Inside("array") /\ keys_' = keys_
    <3>1. Head(k) = "array"
      BY <1>4, <2>2 DEF Inside
    <3>2. Names(k, "more", Len(keys_))
      BY <1>4, <1>7, <3>1, NamesSame
    <3>3. QED BY <1>2, <2>2, <3>2
  <2>3. QED BY <2>1, <2>2 DEF ReadMember
<1>9. NamesOK'
  BY <1>1, <1>6, <1>8 DEF NamesOK
<1>10. ReaderOK'
  BY <1>1, <1>2, <1>6, <1>8, <1>9 DEF ReaderOK, ExpectOK
<1>11. WillComplete'
  <2>1. ReaderPlace = Place("more", k)
    BY <1>1, <1>4 DEF ReaderPlace, Passed, k
  <2>2. ReaderPlace' = Place("more", k)
    BY <1>1, <1>6 DEF ReaderPlace
  <2>3. QED BY <1>1, <1>2, <2>1, <2>2 DEF WillComplete, Leads, Ends
<1>12. QED BY <1>10, <1>11

LEMMA ReadEndReads == ReadInv /\ ReadEnd => (ReaderOK /\ WillComplete)'
<1> SUFFICES ASSUME ReadInv, ReadEnd PROVE (ReaderOK /\ WillComplete)'
  OBVIOUS
<1> DEFINE k == Nest(stack_)
<1>1. /\ Sees({"]", "}"}) /\ text' = Tail(text) /\ expect' = "after"
      /\ stack_' = Tail(stack_) /\ UNCHANGED <<pc, cut, keys_>>
  BY DEF ReadEnd
<1>2. ReaderOK /\ WillComplete /\ BuiltOK /\ ExpectOK
  BY DEF ReadInv, ReaderOK
<1>3. /\ pc = "read" /\ Head(text).t \in {"]", "}"} /\ Tail(text) \in Seq(Tokens)
      /\ expect \in {"first", "more"}
  BY <1>1, <1>2, SeenIsAccepted
<1>4. stack_ # << >>
  BY <1>2, <1>3 DEF ExpectOK
<1>5. /\ k \in Seq(Containers) /\ k # << >> /\ Nest(stack_') = Tail(k)
      /\ BuiltOK'
  <2>1. PICK M : stack_ \in Seq(Built(M))
    BY <1>2 DEF BuiltOK
  <2>2. k \in Seq(Containers) /\ k # << >> /\ Nest(Tail(stack_)) = Tail(k)
    BY <1>4, <2>1, NestIs
  <2>3. Tail(stack_) \in Seq(Built(M))
    BY <1>4, <2>1
  <2>4. BuiltOK'
    BY <1>1, <2>3 DEF BuiltOK
  <2>5. QED BY <1>1, <2>2, <2>4
<1>6. NamesOK'
  <2>1. Names(k, expect, Len(keys_))
    BY <1>2, <1>3 DEF ReaderOK, NamesOK
  <2>2. expect \notin Waiting /\ "after" \in Waiting
    BY <1>3 DEF Waiting
  <2> HIDE DEF k
  <2>3. Names(Tail(k), "after", Len(keys_))
    BY <1>5, <2>1, <2>2, NamesPop
  <2>4. QED BY <1>1, <1>5, <2>3 DEF NamesOK
<1>7. ReaderOK'
  BY <1>1, <1>2, <1>3, <1>5, <1>6 DEF ReaderOK, ExpectOK
<1>8. WillComplete'
  <2>1. PICK d, e : Ends(e) /\ Go(ReaderPlace, Head(text).t, d) /\ Leads(Tail(text), d, e)
    BY <1>1, <1>2, TokenLeads
  <2>2. ReaderPlace.around = k
    BY <1>3 DEF ReaderPlace, Place
  <2> HIDE DEF k
  <2>3. d = Passed(Tail(k))
    BY <1>3, <2>1, <2>2, GoByKind
  <2>4. ReaderPlace' = Passed(Tail(k))
    BY <1>1, <1>5 DEF ReaderPlace, k
  <2>5. QED BY <1>1, <2>1, <2>3, <2>4 DEF WillComplete, Leads, Ends
<1>9. QED BY <1>7, <1>8

\* Nowhere does the grammar have anything after the whole value.
LEMMA NothingFollows ==
    ASSUME NEW t, NEW d
    PROVE  ~Go(Complete, t, d)
BY DEF Go, Complete, Passed, Place, ValueMayCome, KeyMayCome, In

\* The parser gives up only on a text that was cut.
LEMMA GivesUpForCause ==
    ReadInv /\ (FinishParse \/ Refuse) => (ReaderOK /\ WillComplete /\ PcOK /\ ThrowsOnlyForCause)'
<1> SUFFICES ASSUME ReadInv, FinishParse \/ Refuse
             PROVE  (ReaderOK /\ WillComplete /\ PcOK /\ ThrowsOnlyForCause)'
  OBVIOUS
<1>1. /\ pc = "read" /\ pc' \in {"parsed", "thrown"}
      /\ UNCHANGED <<todo, text, cut, expect, stack_, keys_>>
  BY DEF FinishParse, Refuse, writer_vars, reader_vars
<1>2. ReaderOK /\ WillComplete /\ BuiltOK /\ text \in Seq(Tokens)
  BY DEF ReadInv, ReaderOK
<1>3. ReaderOK' /\ WillComplete'
  BY <1>1, <1>2 DEF ReaderOK, BuiltOK, ExpectOK, Inside, WillComplete
<1>4. ASSUME pc' = "thrown", ~cut PROVE FALSE
  <2>1. Leads(text, ReaderPlace, Complete)
    BY <1>1, <1>2, <1>4 DEF WillComplete, Ends
  <2>2. text # << >> => \E d : Go(ReaderPlace, Head(text).t, d)
    BY <1>2, <2>1, LeadsOff
  <2>3. CASE FinishParse
    <3>1. expect = "after" /\ stack_ = << >> /\ text # << >>
      BY <1>4, <2>3 DEF FinishParse
    <3>2. ReaderPlace = Complete
      BY <1>2, <3>1, StackFacts DEF ReaderPlace, Complete
    <3>3. QED BY <2>2, <3>1, <3>2, NothingFollows
  <2>4. CASE Refuse
    <3>1. expect # "after" /\ (text # << >> => Head(text).t \notin Acceptable)
      BY <2>4 DEF Refuse
    <3>2. text = << >>
      BY <1>2, <2>2, <3>1, GoIsAcceptable
    <3>3. ReaderPlace = Complete
      BY <2>1, <3>2, LeadsNowhere
    <3>4. ReaderPlace.next = expect /\ Complete.next = "after"
      BY <3>1 DEF ReaderPlace, Complete, Passed, Place
    <3>5. QED BY <3>1, <3>3, <3>4
  <2>5. QED BY <2>3, <2>4
<1>5. pc' = "parsed" => ~cut
  <2> SUFFICES ASSUME pc' = "parsed" PROVE ~cut
    OBVIOUS
  <2>1. expect = "after" /\ stack_ = << >> /\ text = << >>
    BY DEF FinishParse, Refuse
  <2>2. ReaderPlace = Complete
    BY <1>2, <2>1, StackFacts DEF ReaderPlace, Complete
  <2>3. PICK e : Ends(e) /\ Leads(text, ReaderPlace, e)
    BY <1>1, <1>2 DEF WillComplete
  <2>4. QED BY <2>1, <2>2, <2>3, LeadsNowhere DEF Ends
<1>6. QED BY <1>1, <1>3, <1>4, <1>5 DEF PcOK, ThrowsOnlyForCause

\* A text that was cut leads to a place where more has to come.
LEMMA LeadsShort ==
    ASSUME NEW b \in Seq(Tokens), NEW c, NEW d, Leads(b, c, d), NEW n \in 0..(Len(b) - 1)
    PROVE  \E e : e # Complete /\ Leads(SubSeq(b, 1, n), c, e)
<1> DEFINE w == SubSeq(b, 1, n)
<1>1. /\ Len(b) \in Nat /\ Len(w) = n /\ n \in Nat /\ n + 1 \in 1..Len(b)
      /\ \A i \in 1..n : i \in 1..Len(b) /\ w[i] = b[i]
  OBVIOUS
<1>2. PICK g : /\ g[1] = c /\ g[Len(b) + 1] = d
               /\ \A i \in 1..Len(b) : Go(g[i], b[i].t, g[i + 1])
  BY DEF Leads
<1> HIDE DEF w
<1>3. Leads(w, c, g[n + 1])
  BY <1>1, <1>2 DEF Leads
<1>4. g[n + 1] # Complete
  BY <1>1, <1>2, NothingFollows
<1>5. QED BY <1>3, <1>4 DEF w

LEMMA DeliverReads == ReadInv /\ Deliver => (ReaderOK /\ WillComplete /\ PcOK /\ ThrowsOnlyForCause)'
<1> SUFFICES ASSUME ReadInv, Deliver
             PROVE  (ReaderOK /\ WillComplete /\ PcOK /\ ThrowsOnlyForCause)'
  OBVIOUS
<1>1. /\ pc = "after" /\ walk = << >> /\ pc' = "read"
      /\ expect' = "value" /\ stack_' = << >> /\ keys_' = << >>
      /\ \/ cut' = FALSE /\ text' = buffer_
         \/ cut' = TRUE /\ \E n \in 0..(Len(buffer_) - 1) : text' = SubSeq(buffer_, 1, n)
  BY DEF Deliver
<1>2. buffer_ \in Seq(Tokens)
  BY DEF ReadInv, Inv, BufferOK
<1>3. text' \in Seq(Tokens) /\ cut' \in BOOLEAN
  <2>1. ASSUME NEW n \in 0..(Len(buffer_) - 1) PROVE SubSeq(buffer_, 1, n) \in Seq(Tokens)
    BY <1>2, <2>1
  <2>2. QED BY <1>1, <1>2, <2>1
<1>4. Nest(stack_') = << >>
  BY <1>1 DEF Nest
<1>5. NamesOK'
  <2> DEFINE n == [i \in {1} |-> 0]
  <2>1. n \in [1..Len(<< >>) + 1 -> Nat] /\ n[1] = 0 /\ Len(<< >>) = 0
    OBVIOUS
  <2> HIDE DEF n
  <2>2. Names(<< >>, "value", Len(<< >>))
    BY <2>1 DEF Names
  <2>3. QED BY <1>1, <1>4, <2>2 DEF NamesOK
<1>6. BuiltOK' /\ keys_' \in Seq(Keys)
  <2>1. << >> \in Seq(Built({})) /\ << >> \in Seq(Keys)
    OBVIOUS
  <2>2. QED BY <1>1, <2>1 DEF BuiltOK
<1>7. ReaderOK'
  BY <1>1, <1>3, <1>5, <1>6 DEF ReaderOK, ExpectOK
<1>8. WillComplete'
  <2>1. Leads(buffer_, Start, WriterPlace)
    BY <1>1 DEF ReadInv, Grammatical, Writing
  <2>2. WriterPlace = Complete
    <3>1. WalkNest(walk) = << >>
      BY <1>1 DEF WalkNest
    <3>2. QED BY <1>1, <3>1 DEF WriterPlace, Complete
  <2>3. ReaderPlace' = Start
    BY <1>1, <1>4 DEF ReaderPlace, Start
  <2>4. CASE ~cut' /\ text' = buffer_
    <3>1. Leads(text', ReaderPlace', Complete) /\ Ends(Complete)'
      BY <2>1, <2>2, <2>3, <2>4 DEF Leads, Ends
    <3>2. QED BY <3>1 DEF WillComplete, Leads, Ends
  <2>5. CASE cut' /\ \E n \in 0..(Len(buffer_) - 1) : text' = SubSeq(buffer_, 1, n)
    <3>1. PICK n \in 0..(Len(buffer_) - 1) : text' = SubSeq(buffer_, 1, n)
      BY <2>5
    <3>2. PICK e : e # Complete /\ Leads(SubSeq(buffer_, 1, n), Start, e)
      BY <1>2, <2>1, LeadsShort
    <3>3. Leads(text', ReaderPlace', e) /\ Ends(e)'
      BY <2>3, <2>5, <3>1, <3>2 DEF Leads, Ends
    <3>4. QED BY <3>3 DEF WillComplete, Leads, Ends
  <2>6. QED BY <1>1, <2>4, <2>5
<1>9. QED BY <1>1, <1>7, <1>8 DEF PcOK, ThrowsOnlyForCause

\* The writer leaves the reader alone, and throws at what is unwritable.
LEMMA WriterReads ==
    ReadInv /\ (WriteAtom \/ WriteBegin \/ NextItem \/ Key \/ Element \/ WriteEnd \/ Generate)
        => (ReaderOK /\ WillComplete /\ PcOK /\ ThrowsOnlyForCause)'
<1> SUFFICES ASSUME ReadInv, WriteAtom \/ WriteBegin \/ NextItem \/ Key \/ Element
                             \/ WriteEnd \/ Generate
             PROVE  (ReaderOK /\ WillComplete /\ PcOK /\ ThrowsOnlyForCause)'
  OBVIOUS
<1>1. /\ UNCHANGED reader_vars
      /\ pc' \in {"value", "members", "after", "thrown"}
      /\ pc' = "thrown" => todo' = todo /\ todo.atom \in Unwritable
  BY DEF WriteAtom, WriteBegin, NextItem, Key, Advance, Element, WriteEnd, Generate
<1>2. ReaderOK' /\ WillComplete'
  BY <1>1 DEF ReadInv, ReaderOK, BuiltOK, ExpectOK, Inside, WillComplete, reader_vars
<1>3. QED BY <1>1, <1>2 DEF PcOK, ThrowsOnlyForCause

\* The reader goes on.
LEMMA ReaderReads ==
    ReadInv /\ (ReadAtom \/ ReadBegin \/ ReadKey \/ ReadSeparator \/ ReadMember \/ ReadEnd)
        => (ReaderOK /\ WillComplete /\ PcOK /\ ThrowsOnlyForCause)'
<1> SUFFICES ASSUME ReadInv, ReadAtom \/ ReadBegin \/ ReadKey \/ ReadSeparator
                             \/ ReadMember \/ ReadEnd
             PROVE  (ReaderOK /\ WillComplete /\ PcOK /\ ThrowsOnlyForCause)'
  OBVIOUS
<1>1. (ReaderOK /\ WillComplete)'
  BY ReadAtomReads, ReadBeginReads, ReadKeyReads, ReadSeparatorReads, ReadMemberReads,
     ReadEndReads
<1>2. pc' = "read"
  BY DEF ReadAtom, ReadBegin, ReadKey, ReadSeparator, ReadMember, ReadEnd, Sees
<1>3. QED BY <1>1, <1>2 DEF PcOK, ThrowsOnlyForCause

LEMMA StepKeepsReadInv == ReadInv /\ [Next]_vars => ReadInv'
<1> SUFFICES ASSUME ReadInv, [Next]_vars PROVE ReadInv'
  OBVIOUS
<1>1. Inv'
  BY WriteAtomKeepsInv, WriteBeginKeepsInv, NextItemKeepsInv, KeyKeepsInv,
     ElementKeepsInv, WriteEndKeepsInv, OthersKeepInv DEF Next, Write, ReadInv
<1>2. Grammatical'
  BY WriteAtomGrammatical, WriteBeginGrammatical, NextItemGrammatical, KeyGrammatical,
     ElementGrammatical, WriteEndGrammatical, OthersGrammatical DEF Next, Write, ReadInv
<1>3. (ReaderOK /\ WillComplete /\ PcOK /\ ThrowsOnlyForCause)'
  <2>1. CASE UNCHANGED vars
    <3>1. UNCHANGED <<pc, todo, text, cut, expect, stack_, keys_>>
      BY <2>1 DEF vars, writer_vars, reader_vars
    <3>2. ReaderOK' /\ WillComplete'
      BY <3>1 DEF ReadInv, ReaderOK, BuiltOK, ExpectOK, Inside, NamesOK, Names, Nest,
                  WillComplete, ReaderPlace, Leads, Ends
    <3>3. QED BY <3>1, <3>2 DEF ReadInv, PcOK, ThrowsOnlyForCause
  <2>2. CASE Next
    BY <2>2, GivesUpForCause, DeliverReads, WriterReads, ReaderReads DEF Next, Write, Read
  <2>3. QED BY <2>1, <2>2
<1>4. QED BY <1>1, <1>2, <1>3 DEF ReadInv

LEMMA InitReadInv == Init => ReadInv
<1> SUFFICES ASSUME Init PROVE ReadInv
  OBVIOUS
<1>1. pc = "value" /\ text = << >> /\ cut = FALSE /\ expect = "value"
      /\ stack_ = << >> /\ keys_ = << >>
  BY DEF Init
<1>2. << >> \in Seq(Built({})) /\ << >> \in Seq(Keys) /\ << >> \in Seq(Tokens)
  OBVIOUS
<1>3. ReaderOK /\ WillComplete /\ PcOK /\ ThrowsOnlyForCause
  BY <1>1, <1>2 DEF ReaderOK, BuiltOK, ExpectOK, WillComplete, PcOK, ThrowsOnlyForCause
<1>4. QED BY <1>3, InitInv, InitGrammatical DEF ReadInv

LEMMA ReadInvAlways == Spec => []ReadInv
BY InitReadInv, StepKeepsReadInv, PTL DEF Spec

\* For every value and every text, cut or whole: the buffer and what is left to
\* read are tokens, and last_key_wins (src/utils/json.cxx) never looks for the
\* name of a member when there is none: the names it keeps are one for each
\* object it is in the middle of.
THEOREM TypeCorrect == Spec => []TypeOK
<1>1. ReadInv => TypeOK
  BY DEF ReadInv, Inv, BufferOK, ReaderOK, ExpectOK, PcOK, TypeOK
<1>2. QED BY <1>1, ReadInvAlways, PTL

\* For every value, however deep and wide: what to_byte_vector writes of it is a
\* text of the grammar, which parse_binary reads to its end.  Writing throws only
\* at what cannot be written, and reading only when the text was cut.
THEOREM AlwaysThrowsForCause == Spec => []ThrowsOnlyForCause
<1>1. ReadInv => ThrowsOnlyForCause
  BY DEF ReadInv
<1>2. QED BY <1>1, ReadInvAlways, PTL

-----------------------------------------------------------------------------
(* Members in the order of their names.                                    *)

\* Every set of numbers that is not empty has a least one.
LEMMA LeastNat ==
    ASSUME NEW S \in SUBSET Nat, S # {}
    PROVE  \E i \in S : \A j \in S : i <= j
<1>1. PICK i \in S : \A j \in S : <<j, i>> \notin OpToRel(<, Nat)
  BY NatLessThanWellFounded, WFMin
<1>2. ASSUME NEW j \in S
      PROVE  i <= j
  <2>1. <<j, i>> \in Nat \X Nat
    OBVIOUS
  <2>2. QED BY <1>1, <2>1 DEF OpToRel
<1>3. QED BY <1>2

\* m has the members in S, in the order of their names.
Orders(m, S) ==
    /\ S = {m[i] : i \in DOMAIN m}
    /\ \A i, j \in DOMAIN m : i < j => m[i].key < m[j].key

Orderable(S) == \E m \in [1..Cardinality(S) -> S] : Orders(m, S)

LEMMA InOrderIs ==
    ASSUME NEW S, Orderable(S)
    PROVE  InOrder(S) \in [1..Cardinality(S) -> S] /\ Orders(InOrder(S), S)
BY DEF InOrder, Orderable, Orders

\* Any sequence that has them in order shows that there is one.
LEMMA OrdersOrderable ==
    ASSUME NEW S, NEW n \in Nat, NEW m \in [1..n -> S], Orders(m, S), \A x \in S : x.key \in Nat
    PROVE  Orderable(S)
<1>1. m \in Bijection(1..n, S)
  <2>1. \A i \in 1..n : m[i].key \in Nat
    <3>1. \A i \in 1..n : m[i] \in S
      OBVIOUS
    <3>2. QED BY <3>1
  <2>2. ASSUME NEW i \in 1..n, NEW j \in 1..n, m[i] = m[j] PROVE i = j
    <3> DEFINE x == m[i].key
    <3>1. x \in Nat /\ m[j].key = x /\ ~(x < x)
      BY <2>1, <2>2
    <3>2. \A a, b \in 1..n : a < b => m[a].key < m[b].key
      BY DEF Orders
    <3>3. ~(i < j) /\ ~(j < i)
      BY <3>1, <3>2
    <3>4. QED BY <3>3
  <2>3. \A x \in S : \E i \in 1..n : m[i] = x
    BY DEF Orders
  <2>4. m \in Injection(1..n, S)
    <3>1. \A i, j \in 1..n : m[i] = m[j] => i = j
      BY <2>2
    <3>2. QED BY <3>1 DEF Injection, IsInjective
  <2>5. m \in Surjection(1..n, S)
    BY <2>3 DEF Surjection
  <2>6. QED BY <2>4, <2>5 DEF Bijection
<1>2. Cardinality(S) = n
  BY <1>1, FS_CountingElements DEF ExistsBijection
<1>3. QED BY <1>2 DEF Orderable

LEMMA EmptyOrderable == Orderable({}) /\ InOrder({}) = << >>
<1> DEFINE m == [i \in 1..0 |-> 0]
<1>1. Cardinality({}) = 0
  BY FS_EmptySet
<1>2. m \in [1..0 -> {}] /\ Orders(m, {})
  BY DEF Orders
<1>3. Orderable({})
  BY <1>1, <1>2 DEF Orderable
<1>4. InOrder({}) \in [1..0 -> {}]
  BY <1>1, <1>3, InOrderIs
<1>5. \A f \in [1..0 -> {}] : f = << >>
  OBVIOUS
<1>6. QED BY <1>3, <1>4, <1>5

\* The members of S without those of one name, and with one of that name.
Replaced(S, e) == {x \in S : x.key # e.key} \cup {e}

\* Where a name belongs in an order.
LEMMA Position ==
    ASSUME NEW n \in Nat, NEW S, NEW m \in [1..n -> S], \A x \in S : x.key \in Nat,
           \A i, j \in 1..n : i < j => m[i].key < m[j].key,
           NEW k \in Nat
    PROVE  \E p \in 0..n : /\ \A i \in 1..p : m[i].key < k
                           /\ \A i \in (p + 1)..n : k <= m[i].key
                           /\ \A i \in (p + 2)..n : k < m[i].key
<1> DEFINE L == {i \in 1..n : k <= m[i].key}
<1>1. \A i \in 1..n : m[i].key \in Nat
  OBVIOUS
<1>2. CASE L = {}
  <2>1. \A i \in 1..n : m[i].key < k
    BY <1>1, <1>2
  <2>2. n \in 0..n /\ (n + 1)..n = {} /\ (n + 2)..n = {}
    OBVIOUS
  <2>3. QED BY <2>1, <2>2
<1>3. CASE L # {}
  <2>1. PICK l \in L : \A j \in L : l <= j
    <3>1. L \in SUBSET Nat
      OBVIOUS
    <3> HIDE DEF L
    <3>2. QED BY <1>3, <3>1, LeastNat
  <2>2. l \in 1..n /\ k <= m[l].key
    OBVIOUS
  <2>3. l - 1 \in 0..n /\ (l - 1) + 1 = l /\ (l - 1) + 2 = l + 1
    BY <2>2
  <2>4. \A i \in 1..(l - 1) : m[i].key < k
    <3>1. TAKE i \in 1..(l - 1)
    <3>2. i \in 1..n /\ ~(l <= i)
      BY <2>2
    <3>3. i \notin L
      BY <2>1, <3>2
    <3>4. QED BY <1>1, <3>2, <3>3
  <2>5. \A i \in (l + 1)..n : k < m[i].key
    <3>1. TAKE i \in (l + 1)..n
    <3>2. i \in 1..n /\ l < i
      BY <2>2
    <3>3. m[l].key < m[i].key
      BY <2>2, <3>2
    <3>4. QED BY <1>1, <2>2, <3>2, <3>3
  <2>6. \A i \in l..n : k <= m[i].key
    <3>1. TAKE i \in l..n
    <3>2. i = l \/ i \in (l + 1)..n
      BY <2>2
    <3>3. i \in 1..n
      BY <2>2
    <3>4. QED BY <1>1, <2>2, <2>5, <3>2, <3>3
  <2> HIDE DEF L
  <2>7. QED BY <2>3, <2>4, <2>5, <2>6
<1>4. QED BY <1>2, <1>3

\* One more member can be put in order with the others.
LEMMA InsertOrderable ==
    ASSUME NEW S, Orderable(S), \A x \in S : x.key \in Nat, NEW e, e.key \in Nat,
           IsFiniteSet(S)
    PROVE  Orderable(Replaced(S, e))
<1> DEFINE n == Cardinality(S)
           T == Replaced(S, e)
<1>1. n \in Nat
  BY FS_CardinalityType
<1>2. PICK m \in [1..n -> S] : Orders(m, S)
  BY DEF Orderable
<1> HIDE DEF n
<1>3. /\ S = {m[i] : i \in 1..n}
      /\ \A i, j \in 1..n : i < j => m[i].key < m[j].key
      /\ \A i \in 1..n : m[i] \in S /\ m[i].key \in Nat
  BY <1>2 DEF Orders
<1>4. PICK p \in 0..n : /\ \A i \in 1..p : m[i].key < e.key
                        /\ \A i \in (p + 1)..n : e.key <= m[i].key
                        /\ \A i \in (p + 2)..n : e.key < m[i].key
  BY <1>1, <1>2, <1>3, Position
<1>5. \A x \in T : x.key \in Nat
  BY DEF Replaced
<1>6. CASE p + 1 \in 1..n /\ m[p + 1].key = e.key
  <2> DEFINE t == [m EXCEPT ![p + 1] = e]
  <2>1. DOMAIN t = 1..n /\ t[p + 1] = e /\ \A i \in 1..n : i # p + 1 => t[i] = m[i]
    BY <1>2, <1>6
  <2> HIDE DEF t
  <2>2. \A i \in 1..n : i # p + 1 => m[i].key # e.key
    <3>1. TAKE i \in 1..n
    <3>2. i # p + 1 => i \in 1..p \/ i \in (p + 2)..n
      BY <1>1, <1>4
    <3>3. m[i].key \in Nat /\ (i # p + 1 => m[i].key < e.key \/ e.key < m[i].key)
      BY <1>3, <1>4, <3>2
    <3>4. QED BY ONLY <3>3, e.key \in Nat
  <2>3. \A i \in 1..n : t[i] \in T
    BY <1>3, <2>1, <2>2 DEF Replaced
  <2>4. ASSUME NEW x \in T PROVE \E i \in 1..n : t[i] = x
    <3>1. CASE x = e
      BY <1>6, <2>1, <3>1
    <3>2. CASE x \in S /\ x.key # e.key
      <4>1. PICK i \in 1..n : x = m[i]
        BY <1>3, <3>2
      <4>2. i # p + 1
        BY <1>6, <3>2, <4>1
      <4>3. QED BY <2>1, <4>1, <4>2
    <3>3. QED BY <3>1, <3>2 DEF Replaced
  <2>5. \A i \in 1..n : t[i].key = m[i].key
    BY <1>6, <2>1
  <2>6. t \in [1..n -> T]
    <3>1. t = [i \in 1..n |-> t[i]]
      BY <1>2 DEF t
    <3>2. QED BY <2>3, <3>1
  <2>7. Orders(t, T)
    BY <1>3, <2>1, <2>3, <2>4, <2>5 DEF Orders
  <2> HIDE DEF T
  <2>8. QED BY <1>1, <1>5, <2>6, <2>7, OrdersOrderable DEF T
<1>7. CASE ~(p + 1 \in 1..n /\ m[p + 1].key = e.key)
  <2> DEFINE t == [i \in 1..n + 1 |-> IF i <= p THEN m[i] ELSE IF i = p + 1 THEN e ELSE m[i - 1]]
  <2>1. \A i \in (p + 1)..n : e.key < m[i].key
    <3>1. TAKE i \in (p + 1)..n
    <3>2. i = p + 1 \/ i \in (p + 2)..n
      BY <1>1, <1>4
    <3>3. i \in 1..n /\ m[i].key \in Nat
      BY <1>1, <1>3, <1>4
    <3>4. CASE i = p + 1
      BY <1>4, <1>7, <3>3, <3>4
    <3>5. QED BY <1>4, <3>2, <3>4
  <2>2. /\ DOMAIN t = 1..n + 1 /\ p + 1 \in 1..n + 1 /\ t[p + 1] = e
        /\ \A i \in 1..p : i \in 1..n /\ i \in 1..n + 1 /\ t[i] = m[i]
        /\ \A i \in (p + 2)..(n + 1) : i - 1 \in (p + 1)..n /\ i - 1 \in 1..n /\ t[i] = m[i - 1]
        /\ \A i \in 1..n + 1 : i \in 1..p \/ i = p + 1 \/ i \in (p + 2)..(n + 1)
    BY <1>1, <1>4
  <2> HIDE DEF t
  <2>3. \A i \in 1..n + 1 : t[i] \in T
    <3>1. TAKE i \in 1..n + 1
    <3>2. CASE i \in 1..p
      <4>1. i \in 1..n /\ t[i] = m[i] /\ m[i].key < e.key
        BY <1>4, <2>2, <3>2
      <4>2. m[i] \in S /\ m[i].key \in Nat
        BY <1>3, <4>1
      <4>3. m[i].key # e.key
        BY ONLY <4>1, <4>2, e.key \in Nat
      <4>4. QED BY <4>1, <4>2, <4>3 DEF Replaced
    <3>3. CASE i = p + 1
      BY <2>2, <3>3 DEF Replaced
    <3>4. CASE i \in (p + 2)..(n + 1)
      <4>1. i - 1 \in 1..n /\ t[i] = m[i - 1] /\ e.key < m[i - 1].key
        BY <2>1, <2>2, <3>4
      <4>2. m[i - 1] \in S /\ m[i - 1].key \in Nat
        BY <1>3, <4>1
      <4>3. m[i - 1].key # e.key
        BY ONLY <4>1, <4>2, e.key \in Nat
      <4>4. QED BY <4>1, <4>2, <4>3 DEF Replaced
    <3>5. QED BY <2>2, <3>2, <3>3, <3>4
  <2>4. ASSUME NEW x \in T PROVE \E i \in 1..n + 1 : t[i] = x
    <3>1. CASE x = e
      BY <2>2, <3>1
    <3>2. CASE x \in S
      <4>1. PICK i \in 1..n : x = m[i]
        BY <1>3, <3>2
      <4>2. CASE i <= p
        <5>1. i \in 1..p
          BY <1>1, <1>4, <4>2
        <5>2. QED BY <2>2, <4>1, <5>1
      <4>3. CASE ~(i <= p)
        <5>1. i + 1 \in (p + 2)..(n + 1) /\ i + 1 \in 1..n + 1 /\ (i + 1) - 1 = i
          BY <1>1, <1>4, <4>3
        <5>2. t[i + 1] = m[(i + 1) - 1]
          BY <2>2, <5>1
        <5>3. QED BY <4>1, <5>1, <5>2
      <4>4. QED BY <4>2, <4>3
    <3>3. QED BY <3>1, <3>2 DEF Replaced
  <2>5. ASSUME NEW i \in 1..n + 1, NEW j \in 1..n + 1, i < j PROVE t[i].key < t[j].key
    <3>1. CASE i \in 1..p /\ j \in 1..p
      BY <1>3, <2>2, <2>5, <3>1
    <3>2. CASE i \in 1..p /\ j = p + 1
      BY <1>4, <2>2, <3>2
    <3>3. CASE i \in 1..p /\ j \in (p + 2)..(n + 1)
      <4>1. i \in 1..n /\ j - 1 \in 1..n /\ i < j - 1 /\ t[i] = m[i] /\ t[j] = m[j - 1]
        BY <1>4, <2>2, <3>3
      <4>2. QED BY <1>3, <4>1
    <3>4. CASE i = p + 1 /\ j \in (p + 2)..(n + 1)
      BY <2>1, <2>2, <3>4
    <3>5. CASE i \in (p + 2)..(n + 1) /\ j \in (p + 2)..(n + 1)
      <4>1. i - 1 \in 1..n /\ j - 1 \in 1..n /\ i - 1 < j - 1
            /\ t[i] = m[i - 1] /\ t[j] = m[j - 1]
        BY <1>4, <2>2, <2>5, <3>5
      <4>2. QED BY <1>3, <4>1
    <3>6. QED BY <1>4, <2>2, <2>5, <3>1, <3>2, <3>3, <3>4, <3>5
  <2>6. t \in [1..n + 1 -> T]
    <3>1. t = [i \in 1..n + 1 |-> t[i]]
      BY DEF t
    <3>2. QED BY <2>3, <3>1
  <2>7. Orders(t, T)
    BY <2>2, <2>3, <2>4, <2>5 DEF Orders
  <2>8. n + 1 \in Nat
    BY <1>1
  <2> HIDE DEF T
  <2>9. QED BY <1>5, <2>6, <2>7, <2>8, OrdersOrderable DEF T
<1>8. QED BY <1>6, <1>7

\* An assignment to a member of a std::map.
LEMMA PutIs ==
    ASSUME NEW S, Orderable(S), NEW k, NEW v
    PROVE  put(InOrder(S), k, v) = InOrder(Replaced(S, Member(k, v)))
<1> DEFINE m == InOrder(S)
           others == {i \in DOMAIN m : m[i].key # k}
<1>1. S = {m[i] : i \in DOMAIN m}
  BY InOrderIs DEF Orders
<1>2. {m[i] : i \in others} = {x \in S : x.key # k}
  BY <1>1
<1>3. Member(k, v).key = k
  BY DEF Member
<1>4. QED BY <1>2, <1>3 DEF put, Replaced

-----------------------------------------------------------------------------
(* Values, and what they mean.                                             *)

LEMMA DocumentIs ==
    ASSUME NEW v \in Documents
    PROVE  /\ \/ v.kind = "atom" /\ v = Atom(v.atom) /\ v.atom \in Atoms \cup Unwritable
              \/ v.kind \in Containers /\ v = Container(v.kind, v.members)
           /\ Len(v.members) \in Nat /\ DOMAIN v.members = 1..Len(v.members)
           /\ \A i \in 1..Len(v.members) :
                /\ v.members[i].value \in Documents
                /\ Depth(v) \in Nat /\ Depth(v.members[i].value) \in Nat
                /\ Depth(v.members[i].value) < Depth(v)
                /\ v.kind = "object" => v.members[i].key \in Keys
                /\ v.kind = "array" => v.members[i].key = None
<1> DEFINE m == v.members
<1>1. m \in Seq(MembersOf(v))
  BY DocumentsAssumption
<1>2. Len(m) \in Nat /\ DOMAIN m = 1..Len(m)
  BY <1>1
<1>3. \A i \in 1..Len(m) : m[i] \in MembersOf(v)
  BY <1>2 DEF MembersOf
<1>4. ASSUME NEW i \in 1..Len(m)
      PROVE  m[i].value \in Documents /\ Depth(m[i].value) < Depth(v) /\ m[i].key \in NamesIn[v.kind]
  <2>1. m[i].value \in UNION {{e.value : e \in MembersOf(u)} : u \in Documents}
    BY <1>3, <1>4
  <2>2. QED BY <1>3, <1>4, <2>1, DocumentsAssumption
<1>5. Depth(v) \in Nat /\ \A i \in 1..Len(m) : Depth(m[i].value) \in Nat
  BY <1>4, DocumentsAssumption
<1>6. NamesIn["object"] = Keys /\ NamesIn["array"] = {None}
  BY DEF NamesIn
<1>7. \/ v.kind = "atom" /\ v = Atom(v.atom) /\ v.atom \in Atoms \cup Unwritable
      \/ v.kind \in Containers /\ v = Container(v.kind, v.members)
  BY DocumentsAssumption
<1> HIDE DEF m
<1>8. QED BY <1>2, <1>4, <1>5, <1>6, <1>7 DEF m

\* The i-th member of v, read, if M is what values mean.
Item(v, i, M) == Member(v.members[i].key, M[v.members[i].value])

\* Of the first n members those that no other one of them replaces.
Lasting(v, n) == {i \in 1..n : \A j \in 1..n : j > i => v.members[j].key # v.members[i].key}
Items(v, n, M) == {Item(v, i, M) : i \in Lasting(v, n)}

\* What they come to.
Meant(v, n, M) ==
    IF v.kind = "object" THEN InOrder(Items(v, n, M)) ELSE [i \in 1..n |-> Item(v, i, M)]

MeaningBy(v, M) == [v EXCEPT !.members = Meant(v, Len(v.members), M)]

LEMMA MeaningDefinition ==
    Meaning = CHOOSE M : M = [v \in Documents |-> MeaningBy(v, M)]
<1> DEFINE Old(v, M) ==
             LET m == v.members
                 read == [i \in DOMAIN m |-> Member(m[i].key, M[m[i].value])]
                 last == {i \in DOMAIN m : \A j \in DOMAIN m : j > i => m[j].key # m[i].key}
             IN  [v EXCEPT !.members = IF v.kind = "object" THEN InOrder({read[i] : i \in last}) ELSE read]
<1>1. ASSUME NEW M, NEW v \in Documents PROVE Old(v, M) = MeaningBy(v, M)
  <2> DEFINE m == v.members
             read == [i \in DOMAIN m |-> Member(m[i].key, M[m[i].value])]
             last == {i \in DOMAIN m : \A j \in DOMAIN m : j > i => m[j].key # m[i].key}
  <2>1. DOMAIN m = 1..Len(m)
    BY DocumentIs
  <2>2. last = Lasting(v, Len(m))
    BY <2>1 DEF Lasting
  <2>3. read = [i \in 1..Len(m) |-> Item(v, i, M)]
    BY <2>1 DEF Item
  <2>4. {read[i] : i \in last} = Items(v, Len(m), M)
    <3>1. \A i \in last : read[i] = Item(v, i, M)
      BY DEF Item
    <3> HIDE DEF read, last
    <3>2. QED BY <2>2, <3>1 DEF Items
  <2>5. QED BY <2>3, <2>4 DEF MeaningBy, Meant
<1>2. \A M : [v \in Documents |-> Old(v, M)] = [v \in Documents |-> MeaningBy(v, M)]
  BY <1>1
<1>3. Meaning = CHOOSE M : M = [v \in Documents |-> Old(v, M)]
  BY DEF Meaning
<1> HIDE DEF Old
<1>4. QED BY <1>2, <1>3

\* It depends on what the members mean, and on nothing else.
LEMMA MeaningBySame ==
    ASSUME NEW v \in Documents, NEW f, NEW g,
           \A i \in 1..Len(v.members) : f[v.members[i].value] = g[v.members[i].value]
    PROVE  MeaningBy(v, f) = MeaningBy(v, g)
<1> DEFINE n == Len(v.members)
<1>1. \A i \in 1..n : Item(v, i, f) = Item(v, i, g)
  BY DEF Item
<1>2. Items(v, n, f) = Items(v, n, g)
  BY <1>1 DEF Items, Lasting
<1>3. QED BY <1>1, <1>2 DEF MeaningBy, Meant

\* f is what values mean down to the depth n.
Below(n) == {v \in Documents : Depth(v) < n}
Partial(n, f) == f = [v \in Below(n) |-> MeaningBy(v, f)]

LEMMA PartialUnique ==
    ASSUME NEW n \in Nat, NEW m \in Nat, n <= m, NEW f, NEW g, Partial(n, f), Partial(m, g)
    PROVE  \A v \in Below(n) : f[v] = g[v]
<1> DEFINE D == {d \in Nat : \E v \in Below(n) : Depth(v) = d /\ f[v] # g[v]}
<1>1. \A v \in Below(n) : v \in Documents /\ v \in Below(m) /\ Depth(v) \in Nat
  BY DocumentsAssumption DEF Below
<1>2. \A v \in Below(n) : f[v] = MeaningBy(v, f) /\ g[v] = MeaningBy(v, g)
  BY <1>1 DEF Partial
<1>3. CASE D = {}
  BY <1>1, <1>3
<1>4. CASE D # {}
  <2>1. PICK d \in D : \A e \in D : d <= e
    <3>1. D \in SUBSET Nat
      OBVIOUS
    <3> HIDE DEF D
    <3>2. QED BY <1>4, <3>1, LeastNat
  <2>2. PICK v \in Below(n) : Depth(v) = d /\ f[v] # g[v]
    OBVIOUS
  <2>3. ASSUME NEW i \in 1..Len(v.members)
        PROVE  f[v.members[i].value] = g[v.members[i].value]
    <3> DEFINE u == v.members[i].value
    <3>1. u \in Documents /\ Depth(u) \in Nat /\ Depth(u) < Depth(v) /\ Depth(v) \in Nat
      BY <1>1, <2>3, DocumentIs
    <3>2. Depth(v) < n
      BY DEF Below
    <3>3. u \in Below(n)
      BY <3>1, <3>2 DEF Below
    <3> HIDE DEF u
    <3>4. f[u] # g[u] => Depth(u) \in D
      BY <3>1, <3>3
    <3>5. Depth(u) \notin D
      <4>1. ~(d <= Depth(u))
        BY <2>2, <3>1
      <4> HIDE DEF D
      <4>2. QED BY <2>1, <4>1
    <3> HIDE DEF D
    <3>6. QED BY <3>4, <3>5 DEF u
  <2>4. MeaningBy(v, f) = MeaningBy(v, g)
    BY <1>1, <2>3, MeaningBySame
  <2>5. QED BY <1>2, <2>2, <2>4
<1>5. QED BY <1>3, <1>4

LEMMA PartialExists == \A n \in Nat : \E f : Partial(n, f)
<1> DEFINE B == {n \in Nat : ~ \E f : Partial(n, f)}
<1>1. SUFFICES ASSUME B # {} PROVE FALSE
  OBVIOUS
<1>2. PICK n \in B : \A k \in B : n <= k
  <2>1. B \in SUBSET Nat
    OBVIOUS
  <2> HIDE DEF B
  <2>2. QED BY <1>1, <2>1, LeastNat
<1>3. n \in Nat /\ ~ \E f : Partial(n, f)
  OBVIOUS
<1>4. CASE n = 0
  <2> DEFINE f == [v \in {} |-> 0]
  <2>1. Below(0) = {}
    BY DocumentsAssumption DEF Below
  <2>2. Partial(0, f)
    BY <2>1 DEF Partial
  <2>3. QED BY <1>3, <1>4, <2>2
<1>5. CASE n # 0
  <2>1. n - 1 \in Nat /\ ~(n <= n - 1) /\ n - 1 < n
    BY <1>3, <1>5
  <2>2. n - 1 \notin B
    <3> HIDE DEF B
    <3>1. QED BY <1>2, <2>1
  <2>3. PICK g : Partial(n - 1, g)
    BY <2>1, <2>2
  <2> DEFINE f == [v \in Below(n) |-> MeaningBy(v, g)]
  <2>4. ASSUME NEW v \in Below(n) PROVE MeaningBy(v, g) = MeaningBy(v, f)
    <3>1. v \in Documents /\ Depth(v) < n /\ Depth(v) \in Nat
      BY DocumentsAssumption DEF Below
    <3>2. ASSUME NEW i \in 1..Len(v.members)
          PROVE  g[v.members[i].value] = f[v.members[i].value]
      <4> DEFINE u == v.members[i].value
      <4>1. u \in Documents /\ Depth(u) \in Nat /\ Depth(u) < Depth(v)
        BY <3>1, <3>2, DocumentIs
      <4>2. Depth(u) < n - 1 /\ Depth(u) < n
        BY <2>1, <3>1, <4>1
      <4>3. u \in Below(n - 1) /\ u \in Below(n)
        BY <4>1, <4>2 DEF Below
      <4> HIDE DEF u
      <4>4. g[u] = MeaningBy(u, g) /\ f[u] = MeaningBy(u, g)
        BY <2>3, <4>3 DEF Partial
      <4> HIDE DEF f
      <4>5. QED BY <4>4 DEF u
    <3> HIDE DEF f
    <3>3. QED BY <3>1, <3>2, MeaningBySame
  <2>5. f = [v \in Below(n) |-> MeaningBy(v, f)]
    <3> DEFINE h == [v \in Below(n) |-> MeaningBy(v, f)]
    <3>1. h = [v \in Below(n) |-> MeaningBy(v, g)]
      <4> HIDE DEF f
      <4>1. QED BY <2>4
    <3>2. QED BY <3>1
  <2> HIDE DEF f
  <2>6. Partial(n, f)
    BY <2>5 DEF Partial
  <2>7. QED BY <1>3, <2>6
<1>6. QED BY <1>4, <1>5

LEMMA MeaningExists == \E M : M = [v \in Documents |-> MeaningBy(v, M)]
<1> DEFINE F(n) == CHOOSE f : Partial(n, f)
           M == [v \in Documents |-> F(Depth(v) + 1)[v]]
<1>1. \A n \in Nat : Partial(n, F(n))
  BY PartialExists
<1> HIDE DEF F
<1>2. ASSUME NEW v \in Documents PROVE M[v] = MeaningBy(v, M)
  <2> DEFINE n == Depth(v) + 1
  <2>1. n \in Nat /\ v \in Below(n)
    BY DocumentsAssumption DEF Below
  <2>2. M[v] = F(n)[v]
    OBVIOUS
  <2>3. F(n)[v] = MeaningBy(v, F(n))
    <3> HIDE DEF n
    <3>1. F(n) = [u \in Below(n) |-> MeaningBy(u, F(n))]
      BY <1>1, <2>1 DEF Partial
    <3>2. QED BY <2>1, <3>1
  <2>4. ASSUME NEW i \in 1..Len(v.members)
        PROVE  F(n)[v.members[i].value] = M[v.members[i].value]
    <3> DEFINE u == v.members[i].value
               m == Depth(u) + 1
    <3>1. u \in Documents /\ Depth(u) \in Nat /\ Depth(u) < Depth(v) /\ Depth(v) \in Nat
      BY <2>4, DocumentIs
    <3>2. m \in Nat /\ m <= n /\ u \in Below(m)
      BY <3>1 DEF Below
    <3>3. M[u] = F(m)[u]
      BY <3>1
    <3> HIDE DEF u, m, n, M
    <3>4. F(m)[u] = F(n)[u]
      BY <1>1, <2>1, <3>2, PartialUnique
    <3>5. QED BY <3>3, <3>4 DEF u
  <2> HIDE DEF n, M
  <2>5. MeaningBy(v, F(n)) = MeaningBy(v, M)
    BY <2>4, MeaningBySame
  <2>6. QED BY <2>2, <2>3, <2>5
<1>3. M = [v \in Documents |-> MeaningBy(v, M)]
  <2>1. M = [v \in Documents |-> M[v]]
    OBVIOUS
  <2> HIDE DEF M
  <2>2. [v \in Documents |-> M[v]] = [v \in Documents |-> MeaningBy(v, M)]
    BY <1>2
  <2>3. QED BY <2>1, <2>2
<1> HIDE DEF M
<1>4. QED BY <1>3

LEMMA MeaningIs ==
    ASSUME NEW v \in Documents
    PROVE  Meaning[v] = [v EXCEPT !.members = Meant(v, Len(v.members), Meaning)]
<1>1. Meaning = [u \in Documents |-> MeaningBy(u, Meaning)]
  <2> DEFINE P(M) == M = [u \in Documents |-> MeaningBy(u, M)]
  <2>1. P(CHOOSE M : P(M))
    <3>1. \E M : P(M)
      BY MeaningExists
    <3> HIDE DEF P
    <3>2. QED BY <3>1
  <2>2. Meaning = CHOOSE M : P(M)
    BY MeaningDefinition
  <2>3. P(Meaning)
    <3> HIDE DEF P
    <3>1. QED BY <2>1, <2>2
  <2>4. QED BY <2>3
<1>2. Meaning[v] = MeaningBy(v, Meaning)
  <2> DEFINE f == Meaning
  <2>1. f = [u \in Documents |-> MeaningBy(u, f)]
    BY <1>1
  <2> HIDE DEF f
  <2>2. f[v] = MeaningBy(v, f)
    BY <2>1
  <2>3. QED BY <2>2 DEF f
<1>3. QED BY <1>2 DEF MeaningBy

\* The next member replaces the one of its name.
LEMMA ItemsStep ==
    ASSUME NEW v \in Documents, NEW n \in 0..(Len(v.members) - 1), NEW M
    PROVE  Items(v, n + 1, M) = Replaced(Items(v, n, M), Item(v, n + 1, M))
<1> DEFINE e == Item(v, n + 1, M)
<1>1. n \in Nat /\ \A i : Item(v, i, M).key = v.members[i].key
  BY DocumentIs DEF Item, Member
<1>2. n + 1 \in Lasting(v, n + 1)
  BY <1>1 DEF Lasting
<1>3. ASSUME NEW i \in Lasting(v, n + 1), i # n + 1
      PROVE  i \in Lasting(v, n) /\ v.members[i].key # v.members[n + 1].key
  BY <1>1, <1>3 DEF Lasting
<1>4. ASSUME NEW i \in Lasting(v, n), v.members[i].key # v.members[n + 1].key
      PROVE  i \in Lasting(v, n + 1)
  BY <1>1, <1>4 DEF Lasting
<1>5. ASSUME NEW x \in Items(v, n + 1, M) PROVE x \in Replaced(Items(v, n, M), e)
  <2>1. PICK i \in Lasting(v, n + 1) : x = Item(v, i, M)
    BY DEF Items
  <2>2. CASE i = n + 1
    BY <2>1, <2>2 DEF Replaced
  <2>3. CASE i # n + 1
    <3>1. x \in Items(v, n, M) /\ x.key # e.key
      BY <1>1, <1>3, <2>1, <2>3 DEF Items
    <3>2. QED BY <3>1 DEF Replaced
  <2>4. QED BY <2>2, <2>3
<1>6. ASSUME NEW x \in Replaced(Items(v, n, M), e) PROVE x \in Items(v, n + 1, M)
  <2>1. CASE x = e
    BY <1>2, <2>1 DEF Items
  <2>2. CASE x \in Items(v, n, M) /\ x.key # e.key
    <3>1. PICK i \in Lasting(v, n) : x = Item(v, i, M)
      BY <2>2 DEF Items
    <3>2. i \in Lasting(v, n + 1)
      BY <1>1, <1>4, <2>2, <3>1
    <3>3. QED BY <3>1, <3>2 DEF Items
  <2>3. QED BY <2>1, <2>2 DEF Replaced
<1>7. QED BY <1>5, <1>6

LEMMA ItemsOrderable ==
    ASSUME NEW v \in Documents, v.kind = "object", NEW M
    PROVE  \A n \in 0..Len(v.members) : Orderable(Items(v, n, M))
<1> DEFINE P(n) == /\ IsFiniteSet(Items(v, n, M)) /\ Orderable(Items(v, n, M))
                   /\ \A x \in Items(v, n, M) : x.key \in Nat
           B == {n \in 0..Len(v.members) : ~P(n)}
<1>1. Len(v.members) \in Nat
  BY DocumentIs
<1>2. \A i \in 1..Len(v.members) : Item(v, i, M).key \in Nat
  BY DocumentIs, JsonTextAssumption DEF Item, Member
<1>3. P(0)
  <2>1. Items(v, 0, M) = {}
    BY DEF Items, Lasting
  <2>2. QED BY <2>1, EmptyOrderable, FS_EmptySet
<1>4. ASSUME NEW n \in 0..(Len(v.members) - 1), P(n) PROVE P(n + 1)
  <2> DEFINE S == Items(v, n, M)
             e == Item(v, n + 1, M)
  <2>1. Items(v, n + 1, M) = Replaced(S, e)
    BY ItemsStep
  <2>2. e.key \in Nat
    <3>1. n + 1 \in 1..Len(v.members)
      BY <1>1
    <3>2. QED BY <1>2, <3>1
  <2>3. IsFiniteSet(S) /\ Orderable(S) /\ \A x \in S : x.key \in Nat
    BY <1>4
  <2> HIDE DEF S, e, P
  <2>4. Orderable(Replaced(S, e))
    BY <2>2, <2>3, InsertOrderable
  <2>5. IsFiniteSet({x \in S : x.key # e.key})
    BY <2>3, FS_Subset
  <2>6. IsFiniteSet(Replaced(S, e))
    BY <2>5, FS_AddElement DEF Replaced
  <2>7. \A x \in Replaced(S, e) : x.key \in Nat
    BY <2>2, <2>3 DEF Replaced
  <2>8. QED BY <2>1, <2>4, <2>6, <2>7 DEF P
<1> HIDE DEF P
<1>5. CASE B = {}
  BY <1>5 DEF P
<1>6. CASE B # {}
  <2>1. PICK n \in B : \A k \in B : n <= k
    <3>1. B \in SUBSET Nat
      OBVIOUS
    <3> HIDE DEF B
    <3>2. QED BY <1>6, <3>1, LeastNat
  <2>2. n \in 0..Len(v.members) /\ ~P(n)
    OBVIOUS
  <2>3. n # 0
    BY <1>3, <2>2
  <2>4. n - 1 \in 0..(Len(v.members) - 1) /\ n - 1 \in 0..Len(v.members) /\ (n - 1) + 1 = n
        /\ ~(n <= n - 1)
    BY <1>1, <2>2, <2>3
  <2>5. n - 1 \notin B
    <3> HIDE DEF B
    <3>1. QED BY <2>1, <2>4
  <2>6. P(n - 1)
    BY <2>4, <2>5
  <2>7. P((n - 1) + 1)
    BY <1>4, <2>4, <2>6
  <2>8. QED BY <2>2, <2>4, <2>7
<1>7. QED BY <1>5, <1>6

\* What the members read so far come to: in the beginning nothing.
LEMMA NothingMeant ==
    ASSUME NEW v, NEW M
    PROVE  Meant(v, 0, M) = << >>
<1>1. Items(v, 0, M) = {}
  BY DEF Items, Lasting
<1>2. [i \in 1..0 |-> Item(v, i, M)] = << >>
  OBVIOUS
<1>3. QED BY <1>1, <1>2, EmptyOrderable DEF Meant

\* Then one more, put in its place or appended.
LEMMA MeantStep ==
    ASSUME NEW v \in Documents, NEW n \in 0..(Len(v.members) - 1), NEW M
    PROVE  /\ v.kind = "object" =>
                Meant(v, n + 1, M)
                  = put(Meant(v, n, M), v.members[n + 1].key, M[v.members[n + 1].value])
           /\ v.kind = "array" =>
                Meant(v, n + 1, M)
                  = Append(Meant(v, n, M), Member(None, M[v.members[n + 1].value]))
<1>1. n \in Nat /\ n \in 0..Len(v.members) /\ n + 1 \in 1..Len(v.members)
  BY DocumentIs
<1>2. CASE v.kind = "object"
  <2>1. Orderable(Items(v, n, M))
    BY <1>1, <1>2, ItemsOrderable
  <2>2. put(InOrder(Items(v, n, M)), v.members[n + 1].key, M[v.members[n + 1].value])
          = InOrder(Replaced(Items(v, n, M), Item(v, n + 1, M)))
    BY <2>1, PutIs DEF Item
  <2>3. Items(v, n + 1, M) = Replaced(Items(v, n, M), Item(v, n + 1, M))
    BY ItemsStep
  <2>4. QED BY <1>2, <2>2, <2>3 DEF Meant
<1>3. CASE v.kind = "array"
  <2> DEFINE s == [i \in 1..n |-> Item(v, i, M)]
             t == [i \in 1..n + 1 |-> Item(v, i, M)]
             S == {Item(v, i, M) : i \in 1..n + 1}
             x == Item(v, n + 1, M)
  <2>1. x = Member(None, M[v.members[n + 1].value])
    BY <1>1, <1>3, DocumentIs DEF Item
  <2>2. s \in Seq(S) /\ t \in Seq(S) /\ Len(s) = n /\ Len(t) = n + 1 /\ x \in S
        /\ t[n + 1] = x /\ \A i \in 1..n : t[i] = s[i]
    BY <1>1
  <2>3. Meant(v, n, M) = s /\ Meant(v, n + 1, M) = t
    BY <1>3 DEF Meant
  <2> HIDE DEF s, t, S, x
  <2>4. Append(s, x) \in Seq(S) /\ Len(Append(s, x)) = n + 1 /\ Append(s, x)[n + 1] = x
        /\ \A i \in 1..n : Append(s, x)[i] = s[i]
    BY <1>1, <2>2, AppendProperties
  <2>5. \A i \in 1..n + 1 : Append(s, x)[i] = t[i]
    <3>1. TAKE i \in 1..n + 1
    <3>2. i \in 1..n \/ i = n + 1
      BY <1>1
    <3>3. QED BY <2>2, <2>4, <3>2
  <2>6. Append(s, x) = t
    BY <2>2, <2>4, <2>5, SeqEqual
  <2>7. QED BY <1>3, <2>1, <2>3, <2>6
<1>4. QED BY <1>2, <1>3

\* A container means its members, all of them read; anything else itself.
LEMMA WholeMeaning ==
    ASSUME NEW v \in Documents
    PROVE  /\ v.kind \in Containers =>
                Meaning[v] = Container(v.kind, Meant(v, Len(v.members), Meaning))
           /\ v.kind = "atom" => Meaning[v] = v
           /\ Meaning[v] \in Documents
<1> DEFINE m == Meant(v, Len(v.members), Meaning)
<1>1. Meaning[v] = [v EXCEPT !.members = m]
  BY MeaningIs
<1>2. Meaning[v] \in Documents
  BY MeaningAssumption
<1> HIDE DEF m
<1>3. CASE v.kind \in Containers
  <2>1. v.kind # "atom" /\ v = Container(v.kind, v.members)
    BY <1>3, DocumentIs DEF Containers
  <2>2. Meaning[v] = Container(v.kind, m)
    BY <1>1, <2>1 DEF Container
  <2>3. QED BY <1>2, <2>1, <2>2 DEF m
<1>4. CASE v.kind = "atom"
  <2>1. v = Atom(v.atom) /\ v.members = << >> /\ v.kind \notin Containers
    <3>1. v.kind \notin Containers
      BY <1>4 DEF Containers
    <3>2. v = Atom(v.atom)
      BY <3>1, DocumentIs
    <3>3. Atom(v.atom).members = << >>
      BY DEF Atom
    <3>4. QED BY <3>1, <3>2, <3>3
  <2>2. m = << >>
    <3>1. Len(v.members) = 0
      BY <2>1
    <3>2. QED BY <3>1, NothingMeant DEF m
  <2>3. [v EXCEPT !.members = << >>] = v
    <3>1. v = [kind |-> "atom", atom |-> v.atom, members |-> << >>]
      BY <2>1 DEF Atom
    <3>2. QED BY <3>1
  <2>4. QED BY <1>1, <1>2, <2>1, <2>2, <2>3
<1>5. QED BY <1>2, <1>3, <1>4, DocumentIs

-----------------------------------------------------------------------------
(* What last_key_wins builds.                                              *)

Conf(s, k, v) == [stack |-> s, keys |-> k, value |-> v]
Bottom == Conf(<< >>, << >>, Atom(None))

\* The value v is complete and has become a member, if there is a container.
Took(c, v) ==
    IF c.stack = << >> THEN Conf(<< >>, c.keys, v)
    ELSE IF Head(c.stack).kind = "object"
    THEN Conf(<<[Head(c.stack) EXCEPT !.members = put(@, Head(c.keys), v)]>> \o Tail(c.stack),
              Tail(c.keys), v)
    ELSE Conf(<<[Head(c.stack) EXCEPT !.members = Append(@, Member(None, v))]>> \o Tail(c.stack),
              c.keys, v)

\* A token makes d of c.
Turn(c, tok, d) ==
    \/ tok.t = "atom" /\ d = Took(c, Atom(tok.v))
    \/ \E kind \in Containers :
          /\ tok.t = Begin[kind]
          /\ d = Conf(<<Container(kind, << >>)>> \o c.stack, c.keys, c.value)
    \/ tok.t = "key" /\ d = Conf(c.stack, <<tok.v>> \o c.keys, c.value)
    \/ tok.t \in {",", ":"} /\ d = c
    \/ tok.t \in {"]", "}"} /\ d = Took(Conf(Tail(c.stack), c.keys, c.value), Head(c.stack))

\* And so does a text.
Builds(b, c, d) ==
    \E g : /\ g[1] = c /\ g[Len(b) + 1] = d
           /\ \A i \in 1..Len(b) : Turn(g[i], b[i], g[i + 1])

LEMMA BuildsNothing ==
    ASSUME NEW c
    PROVE  /\ Builds(<< >>, c, c)
           /\ \A d : Builds(<< >>, c, d) => d = c
<1>1. Len(<< >>) = 0 /\ 1..0 = {}
  OBVIOUS
<1>2. Builds(<< >>, c, c)
  <2> DEFINE g == [i \in {1} |-> c]
  <2>1. g[1] = c
    OBVIOUS
  <2> HIDE DEF g
  <2>2. QED BY <1>1, <2>1 DEF Builds
<1>3. QED BY <1>1, <1>2 DEF Builds

LEMMA BuildsOn ==
    ASSUME NEW b \in Seq(Tokens), NEW tok \in Tokens, NEW c, NEW d, NEW e,
           Builds(b, c, d), Turn(d, tok, e)
    PROVE  Builds(Append(b, tok), c, e)
<1> DEFINE n == Len(b)
           w == Append(b, tok)
<1>1. /\ n \in Nat /\ Len(w) = n + 1 /\ w[n + 1] = tok
      /\ \A i \in 1..n : w[i] = b[i]
  OBVIOUS
<1>2. PICK f : /\ f[1] = c /\ f[n + 1] = d
               /\ \A i \in 1..n : Turn(f[i], b[i], f[i + 1])
  BY DEF Builds
<1> DEFINE g == [i \in 1..n + 2 |-> IF i = n + 2 THEN e ELSE f[i]]
<1> HIDE DEF n, w
<1>3. /\ g[n + 2] = e /\ g[n + 1] = d /\ g[1] = c
      /\ \A i \in 1..n : g[i] = f[i] /\ g[i + 1] = f[i + 1]
  BY <1>1, <1>2
<1> HIDE DEF g
<1>4. ASSUME NEW i \in 1..n + 1 PROVE Turn(g[i], w[i], g[i + 1])
  <2>1. CASE i \in 1..n
    BY <1>1, <1>2, <1>3, <2>1
  <2>2. CASE i = n + 1
    <3>1. i + 1 = n + 2
      BY <1>1, <2>2
    <3>2. QED BY <1>1, <1>3, <2>2, <3>1
  <2>3. QED BY <1>1, <2>1, <2>2
<1>5. Len(w) + 1 = n + 2
  BY <1>1
<1>6. Builds(w, c, e)
  BY <1>1, <1>3, <1>4, <1>5 DEF Builds
<1>7. QED BY <1>6 DEF w

LEMMA BuildsOff ==
    ASSUME NEW b \in Seq(Tokens), b # << >>, NEW c, NEW d, Builds(b, c, d)
    PROVE  \E e : Turn(c, Head(b), e) /\ Builds(Tail(b), e, d)
<1> DEFINE w == Tail(b)
           n == Len(w)
<1>1. /\ n \in Nat /\ Len(b) = n + 1 /\ Head(b) = b[1]
      /\ \A i \in 1..n : w[i] = b[i + 1]
  OBVIOUS
<1>2. PICK f : /\ f[1] = c /\ f[Len(b) + 1] = d
               /\ \A i \in 1..Len(b) : Turn(f[i], b[i], f[i + 1])
  BY DEF Builds
<1> HIDE DEF n, w
<1> DEFINE g == [i \in 1..n + 1 |-> f[i + 1]]
<1>3. g[1] = f[2] /\ g[n + 1] = d /\ \A i \in 1..n : g[i] = f[i + 1] /\ g[i + 1] = f[i + 2]
  <2>1. Len(b) + 1 = (n + 1) + 1 /\ 1 \in 1..n + 1 /\ n + 1 \in 1..n + 1
    BY <1>1
  <2>2. \A i \in 1..n : i \in 1..n + 1 /\ i + 1 \in 1..n + 1 /\ (i + 1) + 1 = i + 2
    BY <1>1
  <2>3. QED BY <1>2, <2>1, <2>2
<1> HIDE DEF g
<1>4. \A i \in 1..n : Turn(g[i], w[i], g[i + 1])
  <2>1. TAKE i \in 1..n
  <2>2. i + 1 \in 1..Len(b) /\ (i + 1) + 1 = i + 2
    BY <1>1
  <2>3. Turn(f[i + 1], b[i + 1], f[i + 2])
    BY <1>2, <2>2
  <2>4. QED BY <1>1, <1>3, <2>3
<1>5. Builds(w, f[2], d)
  BY <1>3, <1>4 DEF Builds, n
<1>6. Turn(c, Head(b), f[2])
  <2>1. 1 \in 1..Len(b) /\ 1 + 1 = 2
    BY <1>1
  <2>2. QED BY <1>1, <1>2, <2>1
<1>7. QED BY <1>5, <1>6 DEF w

\* A separator builds nothing.
LEMMA BuildsNext ==
    ASSUME BufferOK, NEW c, NEW d, Builds(buffer_, c, d)
    PROVE  Builds(next, c, d) /\ next \in Seq(Tokens)
<1>1. CASE first_
  BY <1>1 DEF next, BufferOK
<1>2. CASE ~first_
  <2>1. next = Append(buffer_, Token(",", None)) /\ buffer_ \in Seq(Tokens)
    BY <1>2 DEF next, BufferOK
  <2>2. Token(",", None) \in Tokens /\ Token(",", None).t = ","
    BY TokensAre, PunctuationIs
  <2>3. Turn(d, Token(",", None), d)
    BY <2>2 DEF Turn
  <2>4. Builds(next, c, d)
    BY <2>1, <2>2, <2>3, BuildsOn
  <2>5. QED BY <2>1, <2>2, <2>4, AppendProperties
<1>3. QED BY <1>1, <1>2

\* Which turn it is is told by the kind of the token.
LEMMA TurnByKind ==
    ASSUME NEW c, NEW tok, NEW d, Turn(c, tok, d)
    PROVE  /\ tok.t = "atom" => d = Took(c, Atom(tok.v))
           /\ \A kind \in Containers : tok.t = Begin[kind] =>
                 d = Conf(<<Container(kind, << >>)>> \o c.stack, c.keys, c.value)
           /\ tok.t = "key" => d = Conf(c.stack, <<tok.v>> \o c.keys, c.value)
           /\ tok.t \in {",", ":"} => d = c
           /\ tok.t \in {"]", "}"} =>
                 d = Took(Conf(Tail(c.stack), c.keys, c.value), Head(c.stack))
BY KindsDiffer DEF Turn

-----------------------------------------------------------------------------
(* How what is built matches the walk.                                     *)

\* The containers that are being built.
Stages == {Container(v.kind, Meant(v, n, Meaning)) : v \in Documents, n \in Nat}

Sane(c) ==
    /\ c = Conf(c.stack, c.keys, c.value)
    /\ c.stack \in Seq(Stages) /\ c.keys \in Seq(Keys)

\* c is b with the container of the frame f, of which f.at members are read.
Holds(c, f, b) ==
    /\ f.at \in 0..Len(f.value.members)
    /\ c.stack = <<Container(f.value.kind, Meant(f.value, f.at, Meaning))>> \o b.stack
    /\ c.keys = b.keys

\* And with the name of the last of them, the value of which is to come.
Waits(c, f, b) ==
    /\ f.at \in 1..Len(f.value.members)
    /\ c.stack = <<Container(f.value.kind, Meant(f.value, f.at - 1, Meaning))>> \o b.stack
    /\ c.keys = IF f.value.kind = "object" THEN <<f.value.members[f.at].key>> \o b.keys
                ELSE b.keys

\* c is where the value v begins, inside the frames of w from the i-th on; those
\* began at cs.
Around(w, cs, i, c, v) ==
    IF i > Len(w) THEN c.stack = << >> /\ c.keys = << >> /\ v = written
    ELSE Waits(c, w[i], cs[i]) /\ v = w[i].value.members[w[i].at].value

Chain(w, cs) == \A i \in 1..Len(w) : Sane(cs[i]) /\ Around(w, cs, i + 1, cs[i], w[i].value)

\* c is where a value is over.
Filled(w, cs, c) ==
    IF w = << >> THEN c.stack = << >> /\ c.value = Meaning[written]
    ELSE Holds(c, w[1], cs[1])

LEMMA PushIs ==
    ASSUME NEW S, NEW s \in Seq(S), NEW x \in S
    PROVE  /\ <<x>> \o s \in Seq(S) /\ <<x>> \o s # << >>
           /\ Head(<<x>> \o s) = x /\ Tail(<<x>> \o s) = s
           /\ Len(<<x>> \o s) = Len(s) + 1 /\ Len(s) \in Nat
           /\ (<<x>> \o s)[1] = x /\ \A i \in 2..(Len(s) + 1) : (<<x>> \o s)[i] = s[i - 1]
<1> DEFINE t == <<x>> \o s
<1>1. <<x>> \in Seq(S) /\ Len(<<x>>) = 1 /\ <<x>>[1] = x
  OBVIOUS
<1>2. /\ t \in Seq(S) /\ Len(t) = Len(s) + 1 /\ Len(s) \in Nat
      /\ t[1] = x /\ \A i \in 2..(Len(s) + 1) : t[i] = s[i - 1]
  BY <1>1, SMT
<1> HIDE DEF t
<1>3. t # << >> /\ Head(t) = x
  BY <1>2
<1>4. Tail(t) \in Seq(S) /\ Len(Tail(t)) = Len(s) /\ \A i \in 1..Len(s) : Tail(t)[i] = s[i]
  <2>1. Tail(t) \in Seq(S) /\ Len(Tail(t)) = Len(s) /\ \A i \in 1..Len(s) : Tail(t)[i] = t[i + 1]
    BY <1>2, <1>3
  <2>2. \A i \in 1..Len(s) : i + 1 \in 2..(Len(s) + 1) /\ (i + 1) - 1 = i
    BY <1>2
  <2>3. QED BY <1>2, <2>1, <2>2
<1>5. Tail(t) = s
  BY <1>4, SeqEqual
<1>6. QED BY <1>2, <1>3, <1>5 DEF t

LEMMA StageIs ==
    ASSUME NEW v \in Documents, NEW n \in Nat
    PROVE  Container(v.kind, Meant(v, n, Meaning)) \in Stages
BY DEF Stages

LEMMA FrameIs ==
    ASSUME NEW w \in Seq(Frames(Documents)), NEW i \in 1..Len(w)
    PROVE  w[i].value \in Documents /\ w[i].value.kind \in Containers /\ w[i].at \in Nat
           /\ (w[i].value.kind = "object" \/ w[i].value.kind = "array")
<1>1. w[i] \in Frames(Documents)
  OBVIOUS
<1>2. QED BY <1>1 DEF Frames, Containers

\* What a value means becomes a member of the container around it.
LEMMA TakenInto ==
    ASSUME NEW f, f.value \in Documents, f.value.kind \in Containers, NEW b, Sane(b),
           NEW c, Waits(c, f, b), NEW v, v = f.value.members[f.at].value
    PROVE  Sane(Took(c, Meaning[v])) /\ Holds(Took(c, Meaning[v]), f, b)
<1> DEFINE u == f.value
           n == f.at
           k == u.members[n].key
           x == Container(u.kind, Meant(u, n - 1, Meaning))
           y == Container(u.kind, Meant(u, n, Meaning))
<1>1. /\ n \in 1..Len(u.members) /\ Len(u.members) \in Nat /\ n \in Nat /\ n - 1 \in Nat
      /\ n - 1 \in 0..(Len(u.members) - 1) /\ (n - 1) + 1 = n /\ n \in 0..Len(u.members)
  BY DocumentIs DEF Waits
<1>2. x \in Stages /\ y \in Stages
  BY <1>1, StageIs
<1>3. x.kind = u.kind /\ [x EXCEPT !.members = Meant(u, n, Meaning)] = y
      /\ x.members = Meant(u, n - 1, Meaning)
  BY DEF Container
<1>4. b.stack \in Seq(Stages) /\ b.keys \in Seq(Keys)
  BY DEF Sane
<1>5. c.stack = <<x>> \o b.stack
  BY DEF Waits
<1>6. c.stack # << >> /\ Head(c.stack) = x /\ Tail(c.stack) = b.stack
  <2> HIDE DEF x
  <2>1. QED BY <1>2, <1>4, <1>5, PushIs
<1>7. <<y>> \o b.stack \in Seq(Stages)
  <2> HIDE DEF y
  <2>1. QED BY <1>2, <1>4, PushIs
<1>8. Took(c, Meaning[v]) = Conf(<<y>> \o b.stack, b.keys, Meaning[v])
  <2>1. CASE u.kind = "object"
    <3>1. k \in Keys /\ c.keys = <<k>> \o b.keys
      BY <1>1, <2>1, DocumentIs DEF Waits
    <3>2. Head(c.keys) = k /\ Tail(c.keys) = b.keys
      <4> HIDE DEF k
      <4>1. QED BY <1>4, <3>1, PushIs
    <3>3. put(x.members, k, Meaning[v]) = Meant(u, n, Meaning)
      <4>1. Meant(u, (n - 1) + 1, Meaning)
              = put(Meant(u, n - 1, Meaning), u.members[(n - 1) + 1].key,
                    Meaning[u.members[(n - 1) + 1].value])
        BY <1>1, <2>1, MeantStep
      <4>2. QED BY <1>1, <1>3, <4>1
    <3>4. [x EXCEPT !.members = put(@, k, Meaning[v])] = y
      BY <1>3, <3>3
    <3> HIDE DEF x, y, k, n, u
    <3>5. QED BY <1>3, <1>6, <2>1, <3>2, <3>4 DEF Took
  <2>2. CASE u.kind = "array"
    <3>1. c.keys = b.keys
      BY <2>2 DEF Waits
    <3>2. Append(x.members, Member(None, Meaning[v])) = Meant(u, n, Meaning)
      <4>1. Meant(u, (n - 1) + 1, Meaning)
              = Append(Meant(u, n - 1, Meaning), Member(None, Meaning[u.members[(n - 1) + 1].value]))
        BY <1>1, <2>2, MeantStep
      <4>2. QED BY <1>1, <1>3, <4>1
    <3>3. [x EXCEPT !.members = Append(@, Member(None, Meaning[v]))] = y
      BY <1>3, <3>2
    <3> HIDE DEF x, y, k, n, u
    <3>4. QED BY <1>3, <1>6, <2>2, <3>1, <3>3 DEF Took
  <2>3. QED BY <2>1, <2>2, KindsDiffer
<1> DEFINE d == Conf(<<y>> \o b.stack, b.keys, Meaning[v])
<1>9. d.stack = <<y>> \o b.stack /\ d.keys = b.keys /\ d.value = Meaning[v]
  BY DEF Conf
<1>10. Sane(d) /\ Holds(d, f, b)
  <2> HIDE DEF d
  <2>1. d = Conf(d.stack, d.keys, d.value)
    BY <1>9 DEF d
  <2>2. Holds(d, f, b)
    BY <1>1, <1>9 DEF Holds
  <2> HIDE DEF y
  <2>3. QED BY <1>4, <1>7, <1>9, <2>1, <2>2 DEF Sane
<1>11. QED BY <1>8, <1>10

LEMMA Taken ==
    ASSUME NEW w \in Seq(Frames(Documents)), NEW cs, Chain(w, cs),
           NEW c, Sane(c), NEW v \in Documents, Around(w, cs, 1, c, v)
    PROVE  Sane(Took(c, Meaning[v])) /\ Filled(w, cs, Took(c, Meaning[v]))
<1>1. CASE w = << >>
  <2>1. c.stack = << >> /\ c.keys = << >> /\ v = written
    BY <1>1 DEF Around
  <2>2. Took(c, Meaning[v]) = Conf(<< >>, << >>, Meaning[written])
    BY <2>1 DEF Took
  <2> DEFINE d == Conf(<< >>, << >>, Meaning[written])
  <2>3. d = Conf(d.stack, d.keys, d.value) /\ d.stack = << >> /\ d.keys = << >> /\ d.value = Meaning[written]
    BY DEF Conf
  <2> HIDE DEF d
  <2>4. Sane(d) /\ Filled(w, cs, d)
    BY <1>1, <2>3 DEF Sane, Filled
  <2>5. QED BY <2>2, <2>4 DEF d
<1>2. CASE w # << >>
  <2>1. 1 \in 1..Len(w) /\ ~(1 > Len(w))
    BY <1>2
  <2>2. w[1].value \in Documents /\ w[1].value.kind \in Containers
    BY <2>1, FrameIs
  <2>3. Sane(cs[1]) /\ Waits(c, w[1], cs[1]) /\ v = w[1].value.members[w[1].at].value
    BY <2>1 DEF Chain, Around
  <2>4. QED BY <1>2, <2>2, <2>3, TakenInto DEF Filled
<1>3. QED BY <1>1, <1>2

-----------------------------------------------------------------------------
(* The writer, with what its text builds.                                  *)

\* What was written so far builds what the walk is at.
Matches(c, cs) ==
    /\ Builds(buffer_, Bottom, c) /\ Sane(c) /\ Chain(walk, cs)
    /\ pc = "value" => Around(walk, cs, 1, c, todo)
    /\ pc = "members" => walk # << >> /\ Holds(c, walk[1], cs[1])
    /\ pc = "after" => Filled(walk, cs, c)

WriterBuilds ==
    /\ written \in Documents
    /\ pc = "value" => todo \in Documents
    /\ walk \in Seq(Frames(Documents))
    /\ Writing => \E c, cs : Matches(c, cs)

\* A container begins inside the others.
LEMMA ChainPush ==
    ASSUME NEW w \in Seq(Frames(Documents)), NEW cs, Chain(w, cs),
           NEW c, Sane(c), NEW f \in Frames(Documents), Around(w, cs, 1, c, f.value)
    PROVE  \E ds : ds[1] = c /\ Chain(<<f>> \o w, ds)
<1> DEFINE n == Len(w)
           u == <<f>> \o w
           ds == [i \in 1..n + 1 |-> IF i = 1 THEN c ELSE cs[i - 1]]
<1>1. n \in Nat /\ Len(u) = n + 1 /\ u[1] = f /\ \A i \in 2..(n + 1) : u[i] = w[i - 1]
  BY PushIs
<1>2. ds[1] = c /\ \A i \in 2..(n + 1) : ds[i] = cs[i - 1]
  BY <1>1
<1> HIDE DEF ds, u, n
<1>3. ASSUME NEW i \in 1..n + 1, NEW d, NEW v, Around(w, cs, i, d, v)
      PROVE  Around(u, ds, i + 1, d, v)
  <2>1. CASE i > n
    BY <1>1, <1>3, <2>1 DEF Around, n
  <2>2. CASE ~(i > n)
    <3>1. i + 1 \in 2..(n + 1) /\ (i + 1) - 1 = i /\ ~(i + 1 > Len(u))
      BY <1>1, <2>2
    <3>2. u[i + 1] = w[i] /\ ds[i + 1] = cs[i]
      BY <1>1, <1>2, <3>1
    <3>3. QED BY <1>3, <2>2, <3>1, <3>2 DEF Around, n
  <2>3. QED BY <2>1, <2>2
<1>4. ASSUME NEW i \in 1..Len(u) PROVE Sane(ds[i]) /\ Around(u, ds, i + 1, ds[i], u[i].value)
  <2>1. CASE i = 1
    <3>1. 1 \in 1..n + 1
      BY <1>1
    <3>2. QED BY <1>1, <1>2, <1>3, <2>1, <3>1
  <2>2. CASE i # 1
    <3>1. i \in 2..(n + 1) /\ i \in 1..n + 1 /\ i - 1 \in 1..Len(w) /\ (i - 1) + 1 = i
      BY <1>1, <2>2 DEF n
    <3>2. Sane(cs[i - 1]) /\ Around(w, cs, (i - 1) + 1, cs[i - 1], w[i - 1].value)
      BY <3>1 DEF Chain
    <3>3. QED BY <1>1, <1>2, <1>3, <3>1, <3>2
  <2>3. QED BY <2>1, <2>2
<1>5. Chain(u, ds)
  BY <1>4 DEF Chain
<1>6. QED BY <1>2, <1>5 DEF u

\* And ends.
LEMMA ChainPop ==
    ASSUME NEW w \in Seq(Frames(Documents)), w # << >>, NEW cs, Chain(w, cs)
    PROVE  \E ds : /\ Chain(Tail(w), ds)
                   /\ \A c : c.stack = cs[1].stack /\ c.keys = cs[1].keys
                                => Around(Tail(w), ds, 1, c, w[1].value)
<1> DEFINE u == Tail(w)
           n == Len(u)
           ds == [i \in 1..n |-> cs[i + 1]]
<1>1. /\ n \in Nat /\ Len(w) = n + 1 /\ u \in Seq(Frames(Documents))
      /\ \A i \in 1..n : u[i] = w[i + 1]
  OBVIOUS
<1>2. \A i \in 1..n : ds[i] = cs[i + 1]
  OBVIOUS
<1> HIDE DEF ds, u, n
<1>3. ASSUME NEW i \in 1..n + 1, NEW d, NEW v, Around(w, cs, i + 1, d, v)
      PROVE  Around(u, ds, i, d, v)
  <2>1. CASE i > n
    <3>1. i + 1 > Len(w)
      BY <1>1, <2>1
    <3>2. QED BY <1>3, <2>1, <3>1 DEF Around, n
  <2>2. CASE ~(i > n)
    <3>1. i \in 1..n /\ ~(i + 1 > Len(w))
      BY <1>1, <2>2
    <3>2. QED BY <1>1, <1>2, <1>3, <2>2, <3>1 DEF Around, n
  <2>3. QED BY <2>1, <2>2
<1>4. ASSUME NEW i \in 1..n PROVE Sane(ds[i]) /\ Around(u, ds, i + 1, ds[i], u[i].value)
  <2>1. i + 1 \in 1..Len(w) /\ i + 1 \in 1..n + 1
    BY <1>1
  <2>2. Sane(cs[i + 1]) /\ Around(w, cs, (i + 1) + 1, cs[i + 1], w[i + 1].value)
    BY <2>1 DEF Chain
  <2>3. QED BY <1>1, <1>2, <1>3, <2>1, <2>2
<1>5. Chain(u, ds)
  BY <1>4 DEF Chain, n
<1>6. ASSUME NEW c, c.stack = cs[1].stack, c.keys = cs[1].keys PROVE Around(u, ds, 1, c, w[1].value)
  <2>1. 1 \in 1..Len(w) /\ 1 \in 1..n + 1
    BY <1>1
  <2>2. Around(w, cs, 1 + 1, cs[1], w[1].value)
    BY <2>1 DEF Chain
  <2>3. Around(w, cs, 1 + 1, c, w[1].value)
    BY <1>6, <2>2 DEF Around, Waits
  <2>4. QED BY <1>3, <2>1, <2>3
<1>7. QED BY <1>5, <1>6 DEF u

\* The frame of the innermost container goes on.
LEMMA ChainAdvance ==
    ASSUME NEW w \in Seq(Frames(Documents)), w # << >>, NEW cs, Chain(w, cs),
           NEW u, u = <<[Head(w) EXCEPT !.at = @ + 1]>> \o Tail(w)
    PROVE  /\ u \in Seq(Frames(Documents)) /\ u # << >> /\ Len(u) = Len(w) /\ Chain(u, cs)
           /\ u[1].value = w[1].value /\ u[1].at = w[1].at + 1
<1> DEFINE f == [Head(w) EXCEPT !.at = @ + 1]
           t == Tail(w)
<1>1. Head(w) = w[1] /\ w[1] \in Frames(Documents) /\ 1 \in 1..Len(w)
  OBVIOUS
<1>2. f \in Frames(Documents) /\ f.value = w[1].value /\ f.at = w[1].at + 1
  BY <1>1 DEF Frames
<1>3. t \in Seq(Frames(Documents)) /\ Len(w) = Len(t) + 1 /\ Len(t) \in Nat
      /\ \A i \in 1..Len(t) : t[i] = w[i + 1]
  OBVIOUS
<1> HIDE DEF f, t
<1>4. /\ u \in Seq(Frames(Documents)) /\ u # << >> /\ Len(u) = Len(w) /\ u[1] = f
      /\ \A i \in 2..Len(w) : u[i] = t[i - 1]
  BY <1>2, <1>3, PushIs DEF f, t
<1>5. \A i \in 2..Len(w) : u[i] = w[i]
  <2>1. TAKE i \in 2..Len(w)
  <2>2. i - 1 \in 1..Len(t) /\ (i - 1) + 1 = i
    BY <1>3
  <2>3. QED BY <1>3, <1>4, <2>2
<1>6. ASSUME NEW i \in 1..Len(u) PROVE Sane(cs[i]) /\ Around(u, cs, i + 1, cs[i], u[i].value)
  <2>1. Sane(cs[i]) /\ Around(w, cs, i + 1, cs[i], w[i].value)
    BY <1>4, <1>6 DEF Chain
  <2>2. u[i].value = w[i].value
    <3>1. i = 1 \/ i \in 2..Len(w)
      BY <1>3, <1>4
    <3>2. QED BY <1>2, <1>4, <1>5, <3>1
  <2>3. CASE i + 1 > Len(w)
    BY <1>4, <2>1, <2>2, <2>3 DEF Around
  <2>4. CASE ~(i + 1 > Len(w))
    <3>1. i + 1 \in 2..Len(w)
      BY <1>3, <1>4, <2>4
    <3>2. QED BY <1>4, <1>5, <2>1, <2>2, <2>4, <3>1 DEF Around
  <2>5. QED BY <2>3, <2>4
<1>7. Chain(u, cs)
  BY <1>6 DEF Chain
<1>8. QED BY <1>2, <1>4, <1>7

LEMMA WriteAtomBuilds == Inv /\ WriterBuilds /\ WriteAtom => WriterBuilds'
<1> SUFFICES ASSUME Inv, WriterBuilds, WriteAtom PROVE WriterBuilds'
  OBVIOUS
<1>1. pc = "value" /\ todo.kind = "atom" /\ UNCHANGED <<written, todo, walk>>
  BY DEF WriteAtom
<1>2. CASE pc' = "thrown"
  BY <1>1, <1>2 DEF WriterBuilds, Writing
<1>3. CASE /\ todo.atom \in Atoms /\ pc' = "after"
           /\ buffer_' = Append(next, Token("atom", todo.atom))
  <2> DEFINE tok == Token("atom", todo.atom)
  <2>1. PICK c, cs : Matches(c, cs)
    BY <1>1 DEF WriterBuilds, Writing
  <2>2. /\ Builds(buffer_, Bottom, c) /\ Sane(c) /\ Chain(walk, cs) /\ Around(walk, cs, 1, c, todo)
        /\ walk \in Seq(Frames(Documents)) /\ todo \in Documents
    BY <1>1, <2>1 DEF Matches, WriterBuilds
  <2>3. todo = Atom(todo.atom) /\ Meaning[todo] = todo
    BY <1>1, <2>2, DocumentIs, WholeMeaning DEF Containers
  <2> DEFINE d == Took(c, Meaning[todo])
  <2>4. Sane(d) /\ Filled(walk, cs, d)
    BY <2>2, Taken
  <2>5. tok \in Tokens /\ tok.t = "atom" /\ tok.v = todo.atom
    BY <1>3, TokensAre DEF Token
  <2>6. Turn(c, tok, d)
    BY <2>3, <2>5 DEF Turn
  <2>7. next \in Seq(Tokens) /\ Builds(next, Bottom, c)
    BY <2>2, BuildsNext DEF Inv
  <2> HIDE DEF d, tok
  <2>8. Builds(buffer_', Bottom, d)
    BY <1>3, <2>5, <2>6, <2>7, BuildsOn DEF tok
  <2>9. PICK e : e = d
    OBVIOUS
  <2>10. Matches(e, cs)'
    <3>1. Builds(buffer_, Bottom, e)'
      BY <2>8, <2>9 DEF Builds
    <3>2. Chain(walk, cs)'
      BY <1>1, <2>2 DEF Chain, Around
    <3>3. Sane(e) /\ Filled(walk, cs, e)
      BY <2>4, <2>9
    <3>4. Filled(walk, cs, e)'
      BY <1>1, <3>3 DEF Filled
    <3>5. QED BY <1>3, <3>1, <3>2, <3>3, <3>4 DEF Matches
  <2>11. QED BY <1>1, <1>3, <2>10 DEF WriterBuilds
<1>4. QED BY <1>2, <1>3 DEF WriteAtom

LEMMA WriteBeginBuilds == Inv /\ WriterBuilds /\ WriteBegin => WriterBuilds'
<1> SUFFICES ASSUME Inv, WriterBuilds, WriteBegin PROVE WriterBuilds'
  OBVIOUS
<1> DEFINE tok == Token(Begin[todo.kind], None)
           f == [value |-> todo, at |-> 0]
<1>1. /\ pc = "value" /\ pc' = "members" /\ todo.kind \in Containers
      /\ buffer_' = Append(next, tok) /\ walk' = <<f>> \o walk
      /\ UNCHANGED <<written, todo>>
  BY DEF WriteBegin
<1>2. PICK c, cs : Matches(c, cs)
  BY <1>1 DEF WriterBuilds, Writing
<1>3. /\ Builds(buffer_, Bottom, c) /\ Sane(c) /\ Chain(walk, cs) /\ Around(walk, cs, 1, c, todo)
      /\ walk \in Seq(Frames(Documents)) /\ todo \in Documents
  BY <1>1, <1>2 DEF Matches, WriterBuilds
<1> DEFINE x == Container(todo.kind, << >>)
           d == Conf(<<x>> \o c.stack, c.keys, c.value)
<1>4. tok \in Tokens /\ tok.t = Begin[todo.kind]
  BY <1>1, TokensAre, PunctuationIs
<1>5. Turn(c, tok, d)
  BY <1>1, <1>4 DEF Turn
<1>6. next \in Seq(Tokens) /\ Builds(next, Bottom, c)
  BY <1>3, BuildsNext DEF Inv
<1>7. x = Container(todo.kind, Meant(todo, 0, Meaning)) /\ x \in Stages
  BY <1>3, NothingMeant, StageIs
<1>8. f \in Frames(Documents) /\ f.value = todo /\ f.at = 0
  BY <1>1, <1>3 DEF Frames
<1>9. d.stack = <<x>> \o c.stack /\ d.keys = c.keys /\ d.value = c.value
  BY DEF Conf
<1>10. d = Conf(d.stack, d.keys, d.value)
  BY <1>9
<1> HIDE DEF d, tok, f, x
<1>11. Builds(buffer_', Bottom, d)
  BY <1>1, <1>4, <1>5, <1>6, BuildsOn
<1>12. Sane(d)
  BY <1>3, <1>7, <1>9, <1>10, PushIs DEF Sane
<1>13. PICK ds : ds[1] = c /\ Chain(walk', ds)
  BY <1>1, <1>3, <1>8, ChainPush
<1>14. walk' \in Seq(Frames(Documents)) /\ walk' # << >> /\ walk'[1] = f
  BY <1>1, <1>3, <1>8, PushIs
<1>15. Holds(d, f, c)
  <2>1. 0 \in 0..Len(todo.members)
    BY <1>3, DocumentIs
  <2>2. QED BY <1>7, <1>8, <1>9, <2>1 DEF Holds
<1>16. PICK e : e = d
  OBVIOUS
<1>17. Matches(e, ds)'
  <2>1. Builds(buffer_, Bottom, e)'
    BY <1>11, <1>16 DEF Builds
  <2>2. Chain(walk, ds)'
    BY <1>1, <1>13 DEF Chain, Around
  <2>3. walk' # << >> /\ Holds(e, walk'[1], ds[1]) /\ Sane(e)
    BY <1>12, <1>13, <1>14, <1>15, <1>16
  <2>4. QED BY <1>1, <2>1, <2>2, <2>3 DEF Matches
<1>18. QED BY <1>1, <1>14, <1>17 DEF WriterBuilds

\* The walk goes on to the next member.
LEMMA AdvanceBuilds ==
    ASSUME WriterBuilds, NEW kind, Advance(kind), NEW c, NEW cs, Matches(c, cs)
    PROVE  /\ walk \in Seq(Frames(Documents)) /\ walk # << >>
           /\ walk[1].value \in Documents /\ walk[1].value.kind = kind
           /\ walk[1].at \in 0..(Len(walk[1].value.members) - 1)
           /\ Holds(c, walk[1], cs[1]) /\ Sane(c) /\ Sane(cs[1]) /\ Builds(buffer_, Bottom, c)
           /\ walk' \in Seq(Frames(Documents)) /\ Chain(walk', cs)
           /\ walk' # << >> /\ walk'[1].value = walk[1].value /\ walk'[1].at = walk[1].at + 1
           /\ todo' = walk[1].value.members[walk[1].at + 1].value /\ todo' \in Documents
           /\ pc = "members" /\ pc' = "value" /\ Head(walk) = walk[1]
<1>1. /\ pc = "members" /\ pc' = "value"
      /\ Head(walk).value.kind = kind /\ Head(walk).at < Len(Head(walk).value.members)
      /\ todo' = Head(walk).value.members[Head(walk).at + 1].value
      /\ walk' = <<[Head(walk) EXCEPT !.at = @ + 1]>> \o Tail(walk)
  BY DEF Advance
<1>2. /\ walk \in Seq(Frames(Documents)) /\ walk # << >>
      /\ Holds(c, walk[1], cs[1]) /\ Sane(c) /\ Chain(walk, cs) /\ Builds(buffer_, Bottom, c)
  BY <1>1 DEF Matches, WriterBuilds
<1>3. Head(walk) = walk[1] /\ 1 \in 1..Len(walk)
  BY <1>2
<1>4. walk[1].value \in Documents /\ walk[1].at \in Nat
  BY <1>2, <1>3, FrameIs
<1>5. walk[1].at \in 0..(Len(walk[1].value.members) - 1)
      /\ walk[1].at + 1 \in 1..Len(walk[1].value.members)
  BY <1>1, <1>3, <1>4, DocumentIs
<1>6. todo' \in Documents
  BY <1>1, <1>3, <1>4, <1>5, DocumentIs
<1>7. /\ walk' \in Seq(Frames(Documents)) /\ Chain(walk', cs)
      /\ walk' # << >> /\ walk'[1].value = walk[1].value /\ walk'[1].at = walk[1].at + 1
  BY <1>1, <1>2, ChainAdvance
<1>8. Sane(cs[1])
  BY <1>2, <1>3 DEF Chain
<1>9. QED BY <1>1, <1>2, <1>3, <1>4, <1>5, <1>6, <1>7, <1>8

LEMMA NextItemBuilds == Inv /\ WriterBuilds /\ NextItem => WriterBuilds'
<1> SUFFICES ASSUME Inv, WriterBuilds, NextItem PROVE WriterBuilds'
  OBVIOUS
<1>1. Advance("array") /\ pc = "members" /\ UNCHANGED <<written, buffer_>>
  BY DEF NextItem, Advance
<1>2. PICK c, cs : Matches(c, cs)
  BY <1>1 DEF WriterBuilds, Writing
<1> DEFINE f == walk[1]
           g == walk'[1]
<1>3. /\ f.value.kind = "array" /\ f.at \in 0..(Len(f.value.members) - 1) /\ f.value \in Documents
      /\ Holds(c, f, cs[1]) /\ Sane(c) /\ Builds(buffer_, Bottom, c)
      /\ walk' \in Seq(Frames(Documents)) /\ Chain(walk', cs)
      /\ walk' # << >> /\ g.value = f.value /\ g.at = f.at + 1
      /\ todo' = f.value.members[f.at + 1].value /\ todo' \in Documents /\ pc' = "value"
  BY <1>1, <1>2, AdvanceBuilds
<1> HIDE DEF f, g
<1>4. f.at + 1 \in 1..Len(f.value.members) /\ (f.at + 1) - 1 = f.at
  BY <1>3, DocumentIs
<1>5. Waits(c, g, cs[1]) /\ todo' = g.value.members[g.at].value
  BY <1>3, <1>4 DEF Holds, Waits
<1>6. Around(walk', cs, 1, c, todo')
  <2>1. ~(1 > Len(walk'))
    BY <1>3
  <2>2. QED BY <1>5, <2>1 DEF Around, g
<1>7. Matches(c, cs)'
  BY <1>1, <1>3, <1>6 DEF Matches, Builds, Chain, Around
<1>8. QED BY <1>1, <1>3, <1>7 DEF WriterBuilds

LEMMA KeyBuilds == Inv /\ WriterBuilds /\ Key => WriterBuilds'
<1> SUFFICES ASSUME Inv, WriterBuilds, Key PROVE WriterBuilds'
  OBVIOUS
<1>1. Advance("object") /\ pc = "members" /\ UNCHANGED written
  BY DEF Key, Advance
<1>2. PICK c, cs : Matches(c, cs)
  BY <1>1 DEF WriterBuilds, Writing
<1> DEFINE f == walk[1]
           g == walk'[1]
<1>3. /\ f.value.kind = "object" /\ f.at \in 0..(Len(f.value.members) - 1) /\ f.value \in Documents
      /\ Holds(c, f, cs[1]) /\ Sane(c) /\ Builds(buffer_, Bottom, c)
      /\ walk' \in Seq(Frames(Documents)) /\ Chain(walk', cs)
      /\ walk' # << >> /\ g.value = f.value /\ g.at = f.at + 1
      /\ todo' = f.value.members[f.at + 1].value /\ todo' \in Documents /\ pc' = "value"
      /\ Head(walk) = f
  BY <1>1, <1>2, AdvanceBuilds
<1>4. PICK k \in Keys : /\ k = f.value.members[f.at + 1].key
                        /\ buffer_' = next \o <<Token("key", k), Token(":", None)>>
  BY <1>3 DEF Key
<1> HIDE DEF f, g
<1>5. /\ Token("key", k) \in Tokens /\ Token("key", k).t = "key" /\ Token("key", k).v = k
      /\ Token(":", None) \in Tokens /\ Token(":", None).t = ":"
  BY TokensAre, PunctuationIs DEF Token
<1>6. next \in Seq(Tokens) /\ Builds(next, Bottom, c)
  BY <1>3, BuildsNext DEF Inv
<1> DEFINE named == Append(next, Token("key", k))
           d == Conf(c.stack, <<k>> \o c.keys, c.value)
<1>7. Builds(named, Bottom, d) /\ named \in Seq(Tokens)
  <2>1. Turn(c, Token("key", k), d)
    BY <1>5 DEF Turn
  <2> HIDE DEF d
  <2>2. QED BY <1>5, <1>6, <2>1, BuildsOn, AppendProperties
<1>8. buffer_' = Append(named, Token(":", None))
  <2> DEFINE x == Token("key", k)
             y == Token(":", None)
  <2>1. x \in Tokens /\ y \in Tokens
    BY <1>5
  <2> HIDE DEF x, y
  <2>2. next \o <<x, y>> = Append(Append(next, x), y)
    BY <1>6, <2>1, SMT
  <2>3. QED BY <1>4, <2>2 DEF x, y
<1> HIDE DEF named
<1>9. Builds(buffer_', Bottom, d)
  <2>1. Turn(d, Token(":", None), d)
    BY <1>5 DEF Turn
  <2> HIDE DEF d
  <2>2. QED BY <1>5, <1>7, <1>8, <2>1, BuildsOn
<1>10. d.stack = c.stack /\ d.keys = <<k>> \o c.keys /\ d = Conf(d.stack, d.keys, d.value)
  BY DEF Conf
<1> HIDE DEF d
<1>11. Sane(d)
  <2>1. c.stack \in Seq(Stages) /\ c.keys \in Seq(Keys)
    BY <1>3 DEF Sane
  <2>2. <<k>> \o c.keys \in Seq(Keys)
    BY <2>1, PushIs
  <2>3. QED BY <1>10, <2>1, <2>2 DEF Sane
<1>12. f.at + 1 \in 1..Len(f.value.members) /\ (f.at + 1) - 1 = f.at
  BY <1>3, DocumentIs
<1>13. Waits(d, g, cs[1]) /\ todo' = g.value.members[g.at].value
  BY <1>3, <1>4, <1>10, <1>12 DEF Holds, Waits
<1>14. Around(walk', cs, 1, d, todo')
  <2>1. ~(1 > Len(walk'))
    BY <1>3
  <2>2. QED BY <1>13, <2>1 DEF Around, g
<1>15. Matches(d, cs)'
  BY <1>1, <1>3, <1>9, <1>11, <1>14 DEF Matches, Builds, Chain, Around
<1>16. QED BY <1>1, <1>3, <1>15 DEF WriterBuilds

LEMMA ElementBuilds == Inv /\ WriterBuilds /\ Element => WriterBuilds'
<1> SUFFICES ASSUME Inv, WriterBuilds, Element PROVE WriterBuilds'
  OBVIOUS
<1>1. /\ pc = "after" /\ walk # << >> /\ pc' = "members"
      /\ UNCHANGED <<written, todo, walk, buffer_>>
  BY DEF Element
<1>2. PICK c, cs : Matches(c, cs)
  BY <1>1 DEF WriterBuilds, Writing
<1>3. Matches(c, cs)'
  BY <1>1, <1>2 DEF Matches, Builds, Chain, Around, Filled
<1>4. QED BY <1>1, <1>3 DEF WriterBuilds

LEMMA WriteEndBuilds == Inv /\ WriterBuilds /\ WriteEnd => WriterBuilds'
<1> SUFFICES ASSUME Inv, WriterBuilds, WriteEnd PROVE WriterBuilds'
  OBVIOUS
<1>1. /\ pc = "members" /\ pc' = "after"
      /\ Head(walk).at = Len(Head(walk).value.members)
      /\ buffer_' = Append(buffer_, Token(End[Head(walk).value.kind], None))
      /\ walk' = Tail(walk) /\ UNCHANGED <<written, todo>>
  BY DEF WriteEnd
<1>2. PICK c, cs : Matches(c, cs)
  BY <1>1 DEF WriterBuilds, Writing
<1>3. /\ walk \in Seq(Frames(Documents)) /\ walk # << >>
      /\ Holds(c, walk[1], cs[1]) /\ Sane(c) /\ Chain(walk, cs) /\ Builds(buffer_, Bottom, c)
  BY <1>1, <1>2 DEF Matches, WriterBuilds
<1>4. Head(walk) = walk[1] /\ 1 \in 1..Len(walk)
  BY <1>3
<1> DEFINE v == walk[1].value
           b == cs[1]
           tok == Token(End[v.kind], None)
           x == Meaning[v]
           e == Conf(b.stack, b.keys, c.value)
           d == Took(e, x)
<1>5. v \in Documents /\ v.kind \in Containers
  BY <1>3, <1>4, FrameIs
<1>6. Sane(b)
  BY <1>3, <1>4 DEF Chain
<1>7. c.stack = <<x>> \o b.stack /\ c.keys = b.keys /\ x \in Stages
  <2>1. x = Container(v.kind, Meant(v, Len(v.members), Meaning)) /\ Len(v.members) \in Nat
    BY <1>5, WholeMeaning, DocumentIs
  <2>2. QED BY <1>1, <1>3, <1>4, <1>5, <2>1, StageIs DEF Holds
<1>8. Head(c.stack) = x /\ Tail(c.stack) = b.stack
  <2> HIDE DEF x, b
  <2>1. QED BY <1>6, <1>7, PushIs DEF Sane
<1>9. tok \in Tokens /\ tok.t \in {"]", "}"}
  <2>1. tok \in Tokens /\ tok.t = End[v.kind]
    BY <1>5, TokensAre, PunctuationIs
  <2>2. QED BY <1>5, <2>1, KindsDiffer
<1>10. Turn(c, tok, d)
  BY <1>7, <1>8, <1>9 DEF Turn
<1>11. e.stack = b.stack /\ e.keys = b.keys /\ e = Conf(e.stack, e.keys, e.value)
  BY DEF Conf
<1>12. buffer_ \in Seq(Tokens) /\ buffer_' = Append(buffer_, tok)
  BY <1>1, <1>4 DEF Inv, BufferOK
<1> HIDE DEF v, b, tok, x, e, d
<1>13. Builds(buffer_', Bottom, d)
  BY <1>3, <1>9, <1>10, <1>12, BuildsOn
<1>14. Sane(e)
  BY <1>6, <1>11 DEF Sane
<1>15. PICK ds : Chain(Tail(walk), ds) /\ Around(Tail(walk), ds, 1, e, v)
  BY <1>3, <1>11, ChainPop DEF v, b
<1>16. Tail(walk) \in Seq(Frames(Documents))
  BY <1>3
<1>17. Sane(d) /\ Filled(Tail(walk), ds, d)
  BY <1>5, <1>14, <1>15, <1>16, Taken DEF d, x
<1>18. PICK r : r = d
  OBVIOUS
<1>19. Matches(r, ds)'
  <2>1. Builds(buffer_, Bottom, r)'
    BY <1>13, <1>18 DEF Builds
  <2>2. Chain(walk, ds)'
    BY <1>1, <1>15 DEF Chain, Around
  <2>3. Sane(r) /\ Filled(walk', ds, r)
    BY <1>1, <1>17, <1>18
  <2>4. Filled(walk, ds, r)'
    BY <1>1, <2>3 DEF Filled
  <2>5. QED BY <1>1, <2>1, <2>2, <2>3, <2>4 DEF Matches
<1>20. QED BY <1>1, <1>16, <1>19 DEF WriterBuilds

-----------------------------------------------------------------------------
(* The reader, with what the rest of the text builds.                      *)

\* What has been built, with the last value in its container.
Settled ==
    LET c == Conf(stack_, keys_, value)
    IN  IF expect = "after" THEN Took(c, value) ELSE c

ReaderBuilds ==
    pc = "read" /\ ~cut =>
        \E d : Builds(text, Settled, d) /\ d.value = Meaning[written]

MeaningInv == ReadInv /\ WriterBuilds /\ ReaderBuilds /\ ParsesToItsMeaning

\* TurnByKind, one kind each, for a c that is given.
LEMMA TurnAtom ==
    ASSUME NEW s, NEW k, NEW v, NEW tok, NEW e, Turn(Conf(s, k, v), tok, e),
           tok.t = "atom"
    PROVE  e = Took(Conf(s, k, v), Atom(tok.v))
<1> DEFINE c == Conf(s, k, v)
<1>1. c.stack = s /\ c.keys = k /\ c.value = v
  BY DEF Conf
<1> HIDE DEF c
<1>2. Turn(c, tok, e)
  BY DEF c
<1>3. e = Took(c, Atom(tok.v))
  BY <1>2, TurnByKind
<1>4. QED BY <1>1, <1>3 DEF c

LEMMA TurnBegin ==
    ASSUME NEW s, NEW k, NEW v, NEW tok, NEW e, Turn(Conf(s, k, v), tok, e), NEW kind \in Containers,
           tok.t = Begin[kind]
    PROVE  e = Conf(<<Container(kind, << >>)>> \o s, k, v)
<1> DEFINE c == Conf(s, k, v)
<1>1. c.stack = s /\ c.keys = k /\ c.value = v
  BY DEF Conf
<1> HIDE DEF c
<1>2. Turn(c, tok, e)
  BY DEF c
<1>3. e = Conf(<<Container(kind, << >>)>> \o c.stack, c.keys, c.value)
  <2>1. PICK y \in Containers :
           tok.t = Begin[y] /\ e = Conf(<<Container(y, << >>)>> \o c.stack, c.keys, c.value)
    BY <1>2, KindsDiffer DEF Turn
  <2>2. y = kind
    BY <2>1, KindsDiffer
  <2>3. QED BY <2>1, <2>2
<1>4. QED BY <1>1, <1>3 DEF c

LEMMA TurnKey ==
    ASSUME NEW s, NEW k, NEW v, NEW tok, NEW e, Turn(Conf(s, k, v), tok, e),
           tok.t = "key"
    PROVE  e = Conf(s, <<tok.v>> \o k, v)
<1> DEFINE c == Conf(s, k, v)
<1>1. c.stack = s /\ c.keys = k /\ c.value = v
  BY DEF Conf
<1> HIDE DEF c
<1>2. Turn(c, tok, e)
  BY DEF c
<1>3. e = Conf(c.stack, <<tok.v>> \o c.keys, c.value)
  BY <1>2, TurnByKind
<1>4. QED BY <1>1, <1>3 DEF c

LEMMA TurnSeparator ==
    ASSUME NEW s, NEW k, NEW v, NEW tok, NEW e, Turn(Conf(s, k, v), tok, e),
           tok.t \in {",", ":"}
    PROVE  e = Conf(s, k, v)
<1> DEFINE c == Conf(s, k, v)
<1>1. c.stack = s /\ c.keys = k /\ c.value = v
  BY DEF Conf
<1> HIDE DEF c
<1>2. Turn(c, tok, e)
  BY DEF c
<1>3. e = c
  BY <1>2, TurnByKind
<1>4. QED BY <1>1, <1>3 DEF c

LEMMA TurnEnd ==
    ASSUME NEW s, NEW k, NEW v, NEW tok, NEW e, Turn(Conf(s, k, v), tok, e),
           tok.t \in {"]", "}"}
    PROVE  e = Took(Conf(Tail(s), k, v), Head(s))
<1> DEFINE c == Conf(s, k, v)
<1>1. c.stack = s /\ c.keys = k /\ c.value = v
  BY DEF Conf
<1> HIDE DEF c
<1>2. Turn(c, tok, e)
  BY DEF c
<1>3. e = Took(Conf(Tail(c.stack), c.keys, c.value), Head(c.stack))
  BY <1>2, TurnByKind
<1>4. QED BY <1>1, <1>3 DEF c

\* Took looks at the containers and names of c only.
LEMMA TookSame ==
    ASSUME NEW s, NEW k, NEW a, NEW b, NEW v
    PROVE  Took(Conf(s, k, a), v) = Took(Conf(s, k, b), v)
<1>1. /\ Conf(s, k, a).stack = s /\ Conf(s, k, b).stack = s
      /\ Conf(s, k, a).keys = k /\ Conf(s, k, b).keys = k
  BY DEF Conf
<1>2. QED BY <1>1 DEF Took

\* A token that is read.
LEMMA TokenBuilds ==
    ASSUME ReadInv, ReaderBuilds, ~cut, NEW T, Sees(T)
    PROVE  /\ \E d, e : /\ Turn(Conf(stack_, keys_, value), Head(text), e) /\ Builds(Tail(text), e, d)
                        /\ d.value = Meaning[written]
           /\ Head(text).t \in T /\ expect # "after" /\ pc = "read"
<1>1. /\ pc = "read" /\ text # << >> /\ text \in Seq(Tokens)
      /\ Head(text).t \in T /\ expect # "after"
  BY SeenIsAccepted DEF ReadInv, ReaderOK
<1>2. PICK d : Builds(text, Settled, d) /\ d.value = Meaning[written]
  BY <1>1 DEF ReaderBuilds
<1>3. \E e : Turn(Settled, Head(text), e) /\ Builds(Tail(text), e, d)
  BY <1>1, <1>2, BuildsOff
<1>4. Settled = Conf(stack_, keys_, value)
  BY <1>1 DEF Settled
<1>5. QED BY <1>1, <1>2, <1>3, <1>4

LEMMA ReadAtomBuilds == ReadInv /\ ReaderBuilds /\ ReadAtom => ReaderBuilds'
<1> SUFFICES ASSUME ReadInv, ReaderBuilds, ReadAtom, ~cut PROVE ReaderBuilds'
  <2>1. ReadAtom => cut' = cut
    BY DEF ReadAtom
  <2>2. QED BY <2>1 DEF ReaderBuilds
<1>1. /\ Sees({"atom"}) /\ value' = Atom(Head(text).v) /\ text' = Tail(text) /\ expect' = "after"
      /\ UNCHANGED <<written, cut, stack_, keys_>>
  BY DEF ReadAtom, writer_vars
<1>2. PICK d, e : /\ Turn(Conf(stack_, keys_, value), Head(text), e) /\ Builds(Tail(text), e, d)
                  /\ d.value = Meaning[written]
  BY <1>1, TokenBuilds
<1>3. Head(text).t = "atom" /\ expect # "after"
  BY <1>1, TokenBuilds
<1>4. e = Took(Conf(stack_, keys_, value), Atom(Head(text).v))
  <2>1. Turn(Conf(stack_, keys_, value), Head(text), e)
    BY <1>2
  <2>2. QED BY <1>3, <2>1, TurnAtom
<1>5. Settled' = Took(Conf(stack_, keys_, value'), value')
  BY <1>1 DEF Settled
<1>6. Settled' = e
  BY <1>1, <1>4, <1>5, TookSame
<1>7. QED BY <1>1, <1>2, <1>6 DEF ReaderBuilds, Builds

LEMMA ReadBeginBuilds == ReadInv /\ ReaderBuilds /\ ReadBegin => ReaderBuilds'
<1> SUFFICES ASSUME ReadInv, ReaderBuilds, ReadBegin, ~cut PROVE ReaderBuilds'
  <2>1. ReadBegin => cut' = cut
    BY DEF ReadBegin
  <2>2. QED BY <2>1 DEF ReaderBuilds
<1>1. PICK kind \in Containers :
         Sees({Begin[kind]}) /\ stack_' = <<Container(kind, << >>)>> \o stack_
  BY DEF ReadBegin
<1>2. text' = Tail(text) /\ expect' = "first" /\ UNCHANGED <<written, cut, keys_, value>>
  BY DEF ReadBegin, writer_vars
<1>3. PICK d, e : /\ Turn(Conf(stack_, keys_, value), Head(text), e) /\ Builds(Tail(text), e, d)
                  /\ d.value = Meaning[written]
  BY <1>1, TokenBuilds
<1>4. Head(text).t = Begin[kind] /\ expect # "after"
  BY <1>1, TokenBuilds
<1>5. e = Conf(<<Container(kind, << >>)>> \o stack_, keys_, value)
  <2>1. Turn(Conf(stack_, keys_, value), Head(text), e)
    BY <1>3
  <2>2. QED BY <1>4, <2>1, TurnBegin
<1>6. Settled' = Conf(stack_', keys_', value')
  BY <1>2 DEF Settled
<1>7. Settled' = e
  BY <1>1, <1>2, <1>5, <1>6
<1>8. QED BY <1>2, <1>3, <1>7 DEF ReaderBuilds, Builds

LEMMA ReadKeyBuilds == ReadInv /\ ReaderBuilds /\ ReadKey => ReaderBuilds'
<1> SUFFICES ASSUME ReadInv, ReaderBuilds, ReadKey, ~cut PROVE ReaderBuilds'
  <2>1. ReadKey => cut' = cut
    BY DEF ReadKey
  <2>2. QED BY <2>1 DEF ReaderBuilds
<1>1. /\ Sees({"key"}) /\ keys_' = <<Head(text).v>> \o keys_ /\ text' = Tail(text)
      /\ expect' = "colon" /\ UNCHANGED <<written, cut, stack_, value>>
  BY DEF ReadKey, writer_vars
<1>2. PICK d, e : /\ Turn(Conf(stack_, keys_, value), Head(text), e) /\ Builds(Tail(text), e, d)
                  /\ d.value = Meaning[written]
  BY <1>1, TokenBuilds
<1>3. Head(text).t = "key" /\ expect # "after"
  BY <1>1, TokenBuilds
<1>4. e = Conf(stack_, <<Head(text).v>> \o keys_, value)
  <2>1. Turn(Conf(stack_, keys_, value), Head(text), e)
    BY <1>2
  <2>2. QED BY <1>3, <2>1, TurnKey
<1>5. Settled' = Conf(stack_', keys_', value')
  BY <1>1 DEF Settled
<1>6. Settled' = e
  BY <1>1, <1>4, <1>5
<1>7. QED BY <1>1, <1>2, <1>6 DEF ReaderBuilds, Builds

LEMMA ReadSeparatorBuilds == ReadInv /\ ReaderBuilds /\ ReadSeparator => ReaderBuilds'
<1> SUFFICES ASSUME ReadInv, ReaderBuilds, ReadSeparator, ~cut PROVE ReaderBuilds'
  <2>1. ReadSeparator => cut' = cut
    BY DEF ReadSeparator
  <2>2. QED BY <2>1 DEF ReaderBuilds
<1>1. /\ Sees({",", ":"}) /\ text' = Tail(text) /\ expect' # "after"
      /\ UNCHANGED <<written, cut, stack_, keys_, value>>
  BY DEF ReadSeparator, writer_vars
<1>2. PICK d, e : /\ Turn(Conf(stack_, keys_, value), Head(text), e) /\ Builds(Tail(text), e, d)
                  /\ d.value = Meaning[written]
  BY <1>1, TokenBuilds
<1>3. Head(text).t \in {",", ":"} /\ expect # "after"
  BY <1>1, TokenBuilds
<1>4. e = Conf(stack_, keys_, value)
  <2>1. Turn(Conf(stack_, keys_, value), Head(text), e)
    BY <1>2
  <2>2. QED BY <1>3, <2>1, TurnSeparator
<1>5. Settled' = Conf(stack_', keys_', value')
  BY <1>1 DEF Settled
<1>6. Settled' = e
  BY <1>1, <1>4, <1>5
<1>7. QED BY <1>1, <1>2, <1>6 DEF ReaderBuilds, Builds

\* This is what Took already has done.
LEMMA ReadMemberBuilds == ReadInv /\ ReaderBuilds /\ ReadMember => ReaderBuilds'
<1> SUFFICES ASSUME ReadInv, ReaderBuilds, ReadMember, ~cut PROVE ReaderBuilds'
  <2>1. ReadMember => cut' = cut
    BY DEF ReadMember
  <2>2. QED BY <2>1 DEF ReaderBuilds
<1> DEFINE c == Conf(stack_, keys_, value)
<1>1. /\ pc = "read" /\ expect = "after" /\ expect' = "more"
      /\ UNCHANGED <<written, text, cut, value>>
  BY DEF ReadMember, writer_vars
<1>2. c.stack = stack_ /\ c.keys = keys_
  BY DEF Conf
<1>3. Settled = Took(c, value) /\ Settled' = Conf(stack_', keys_', value)
  BY <1>1 DEF Settled
<1> HIDE DEF c
<1>4. CASE /\ Inside("object") /\ keys_' = Tail(keys_)
           /\ stack_' = <<[Head(stack_) EXCEPT !.members = put(@, Head(keys_), value)]>>
                        \o Tail(stack_)
  <2>1. Took(c, value) = Conf(stack_', keys_', value)
    BY <1>2, <1>4 DEF Took, Inside
  <2>2. QED BY <1>1, <1>3, <2>1 DEF ReaderBuilds, Builds
<1>5. CASE /\ Inside("array") /\ keys_' = keys_
           /\ stack_' = <<[Head(stack_) EXCEPT !.members = Append(@, Member(None, value))]>>
                        \o Tail(stack_)
  <2>1. Took(c, value) = Conf(stack_', keys_', value)
    BY <1>2, <1>5 DEF Took, Inside
  <2>2. QED BY <1>1, <1>3, <2>1 DEF ReaderBuilds, Builds
<1>6. QED BY <1>4, <1>5 DEF ReadMember

LEMMA ReadEndBuilds == ReadInv /\ ReaderBuilds /\ ReadEnd => ReaderBuilds'
<1> SUFFICES ASSUME ReadInv, ReaderBuilds, ReadEnd, ~cut PROVE ReaderBuilds'
  <2>1. ReadEnd => cut' = cut
    BY DEF ReadEnd
  <2>2. QED BY <2>1 DEF ReaderBuilds
<1>1. /\ Sees({"]", "}"}) /\ value' = Head(stack_) /\ stack_' = Tail(stack_) /\ text' = Tail(text)
      /\ expect' = "after" /\ UNCHANGED <<written, cut, keys_>>
  BY DEF ReadEnd, writer_vars
<1>2. PICK d, e : /\ Turn(Conf(stack_, keys_, value), Head(text), e) /\ Builds(Tail(text), e, d)
                  /\ d.value = Meaning[written]
  BY <1>1, TokenBuilds
<1>3. Head(text).t \in {"]", "}"} /\ expect # "after"
  BY <1>1, TokenBuilds
<1>4. e = Took(Conf(Tail(stack_), keys_, value), Head(stack_))
  <2>1. Turn(Conf(stack_, keys_, value), Head(text), e)
    BY <1>2
  <2>2. QED BY <1>3, <2>1, TurnEnd
<1>5. Settled' = Took(Conf(stack_', keys_', value'), value')
  BY <1>1 DEF Settled
<1>6. Settled' = e
  <2>1. e = Took(Conf(stack_', keys_', value), value')
    BY <1>1, <1>4
  <2>2. QED BY <1>5, <2>1, TookSame
<1>7. QED BY <1>1, <1>2, <1>6 DEF ReaderBuilds, Builds

\* The text is what was written, and nothing has been built.
LEMMA DeliverBuilds == WriterBuilds /\ Deliver => (WriterBuilds /\ ReaderBuilds)'
<1> SUFFICES ASSUME WriterBuilds, Deliver PROVE (WriterBuilds /\ ReaderBuilds)'
  OBVIOUS
<1>1. /\ pc = "after" /\ walk = << >> /\ pc' = "read" /\ UNCHANGED <<written, todo, walk>>
      /\ expect' = "value" /\ stack_' = << >> /\ keys_' = << >> /\ value' = Atom(None)
      /\ cut' \/ text' = buffer_
  BY DEF Deliver
<1>2. WriterBuilds'
  BY <1>1 DEF WriterBuilds, Writing
<1>3. PICK c, cs : Matches(c, cs)
  BY <1>1 DEF WriterBuilds, Writing
<1>4. Builds(buffer_, Bottom, c) /\ c.value = Meaning[written]
  BY <1>1, <1>3 DEF Matches, Filled
<1>5. Settled' = Bottom
  BY <1>1 DEF Settled, Bottom
<1>6. ReaderBuilds'
  BY <1>1, <1>4, <1>5 DEF ReaderBuilds, Builds
<1>7. QED BY <1>2, <1>6

\* What was built when nothing is left is the meaning of what was written.
LEMMA FinishBuilds ==
    ASSUME ReadInv, ReaderBuilds, FinishParse, PcOK', pc' = "parsed"
    PROVE  ~cut /\ value = Meaning[written]
<1>1. /\ pc = "read" /\ expect = "after" /\ stack_ = << >> /\ text = << >> /\ cut' = cut
  BY DEF FinishParse, reader_vars
<1>2. ~cut
  BY <1>1 DEF PcOK
<1>3. PICK d : Builds(<< >>, Settled, d) /\ d.value = Meaning[written]
  BY <1>1, <1>2 DEF ReaderBuilds
<1>4. d = Settled
  BY <1>3, BuildsNothing
<1>5. Settled.value = value
  <2>1. Conf(<< >>, keys_, value).stack = << >>
    BY DEF Conf
  <2>2. Settled = Conf(<< >>, Conf(<< >>, keys_, value).keys, value)
    BY <1>1, <2>1 DEF Settled, Took
  <2>3. QED BY <2>2 DEF Conf
<1>6. QED BY <1>2, <1>3, <1>4, <1>5

\* Where a value begins with nothing around it.
LEMMA BeginBuilds ==
    ASSUME NEW cs
    PROVE  Builds(<< >>, Bottom, Bottom) /\ Sane(Bottom) /\ Chain(<< >>, cs)
           /\ Around(<< >>, cs, 1, Bottom, written)
<1>1. Bottom.stack = << >> /\ Bottom.keys = << >> /\ Bottom = Conf(Bottom.stack, Bottom.keys, Bottom.value)
  BY DEF Bottom, Conf
<1>2. Len(<< >>) = 0 /\ 1 > 0 /\ 1..0 = {}
  OBVIOUS
<1>3. QED BY <1>1, <1>2, BuildsNothing DEF Sane, Chain, Around

\* What was read may be written next.
LEMMA GenerateBuilds == MeaningInv /\ Generate => WriterBuilds'
<1> SUFFICES ASSUME MeaningInv, Generate PROVE WriterBuilds'
  OBVIOUS
<1>1. /\ pc = "parsed" /\ written' = value /\ todo' = value /\ pc' = "value"
      /\ UNCHANGED <<walk, buffer_>>
  BY DEF Generate
<1>2. value \in Documents
  BY <1>1, WholeMeaning DEF MeaningInv, ParsesToItsMeaning, WriterBuilds
<1>3. walk = << >> /\ buffer_ = << >>
  BY <1>1 DEF MeaningInv, ReadInv, Inv, FlagOK, Fresh, Grammatical
<1>4. << >> \in Seq(Frames(Documents))
  OBVIOUS
<1>5. Matches(Bottom, << >>)'
  <2>1. Builds(<< >>, Bottom, Bottom) /\ Sane(Bottom)
    BY BeginBuilds
  <2>2. Bottom.stack = << >> /\ Bottom.keys = << >>
    BY DEF Bottom, Conf
  <2>3. Len(<< >>) = 0 /\ 1 > 0 /\ 1..0 = {}
    OBVIOUS
  <2>4. Around(walk, << >>, 1, Bottom, todo)' /\ Chain(walk, << >>)'
    BY <1>1, <1>3, <2>2, <2>3 DEF Around, Chain
  <2>5. Builds(buffer_, Bottom, Bottom)'
    BY <1>1, <1>3, <2>1 DEF Builds
  <2>6. QED BY <1>1, <2>1, <2>4, <2>5 DEF Matches
<1>6. QED BY <1>1, <1>2, <1>3, <1>4, <1>5 DEF WriterBuilds

LEMMA StepKeepsMeaning == MeaningInv /\ [Next]_vars => MeaningInv'
<1> SUFFICES ASSUME MeaningInv, [Next]_vars PROVE MeaningInv'
  OBVIOUS
<1>1. ReadInv' /\ PcOK'
  BY StepKeepsReadInv DEF MeaningInv, ReadInv
<1>2. Inv /\ ReadInv /\ WriterBuilds /\ ReaderBuilds /\ ParsesToItsMeaning
  BY DEF MeaningInv, ReadInv
<1>3. CASE WriteAtom \/ WriteBegin \/ NextItem \/ Key \/ Element \/ WriteEnd
  <2>1. WriterBuilds'
    BY <1>2, <1>3, WriteAtomBuilds, WriteBeginBuilds, NextItemBuilds, KeyBuilds, ElementBuilds,
       WriteEndBuilds
  <2>2. pc' \in {"value", "members", "after", "thrown"}
    BY <1>3 DEF WriteAtom, WriteBegin, NextItem, Key, Advance, Element, WriteEnd
  <2>3. QED BY <1>1, <2>1, <2>2 DEF MeaningInv, ReaderBuilds, ParsesToItsMeaning
<1>4. CASE Deliver
  <2>1. pc' = "read"
    BY <1>4 DEF Deliver
  <2>2. QED BY <1>1, <1>2, <1>4, <2>1, DeliverBuilds DEF MeaningInv, ParsesToItsMeaning
<1>5. CASE Read
  <2>1. pc = "read" /\ pc' \in {"read", "parsed", "thrown"} /\ UNCHANGED writer_vars
    BY <1>5 DEF Read, ReadAtom, ReadBegin, ReadKey, ReadSeparator, ReadMember, ReadEnd,
                FinishParse, Refuse, Sees
  <2>2. WriterBuilds'
    BY <1>2, <2>1 DEF WriterBuilds, Writing, writer_vars
  <2>3. CASE ReadAtom \/ ReadBegin \/ ReadKey \/ ReadSeparator \/ ReadMember \/ ReadEnd
    <3>1. ReaderBuilds'
      BY <1>2, <2>3, ReadAtomBuilds, ReadBeginBuilds, ReadKeyBuilds, ReadSeparatorBuilds,
         ReadMemberBuilds, ReadEndBuilds
    <3>2. pc' = "read"
      BY <2>3 DEF ReadAtom, ReadBegin, ReadKey, ReadSeparator, ReadMember, ReadEnd, Sees
    <3>3. QED BY <1>1, <2>2, <3>1, <3>2 DEF MeaningInv, ParsesToItsMeaning
  <2>4. CASE FinishParse \/ Refuse
    <3>1. pc' # "read" /\ UNCHANGED <<cut, value, written>> /\ (pc' = "parsed" => FinishParse)
      BY <2>4 DEF FinishParse, Refuse, reader_vars, writer_vars
    <3>2. ParsesToItsMeaning'
      BY <1>1, <1>2, <3>1, FinishBuilds DEF ParsesToItsMeaning
    <3>3. QED BY <1>1, <2>2, <3>1, <3>2 DEF MeaningInv, ReaderBuilds
  <2>5. QED BY <1>5, <2>3, <2>4 DEF Read
<1>6. CASE Generate
  <2>1. pc' = "value"
    BY <1>6 DEF Generate
  <2>2. QED BY <1>1, <1>6, <2>1, GenerateBuilds DEF MeaningInv, ReaderBuilds, ParsesToItsMeaning
<1>7. CASE UNCHANGED vars
  <2>1. UNCHANGED <<pc, written, todo, walk, buffer_, text, cut, expect, stack_, keys_, value>>
    BY <1>7 DEF vars, writer_vars, reader_vars
  <2>2. WriterBuilds'
    <3>1. ASSUME Writing PROVE \E c, cs : Matches(c, cs)'
      <4>1. PICK c, cs : Matches(c, cs)
        BY <1>2, <3>1 DEF WriterBuilds
      <4>2. Matches(c, cs)'
        BY <2>1, <4>1 DEF Matches, Builds, Chain, Around, Filled
      <4>3. QED BY <4>2
    <3>2. QED BY <1>2, <2>1, <3>1 DEF WriterBuilds, Writing
  <2>3. Settled' = Settled
    BY <2>1 DEF Settled
  <2>4. ReaderBuilds' /\ ParsesToItsMeaning'
    BY <1>2, <2>1, <2>3 DEF ReaderBuilds, Builds, ParsesToItsMeaning
  <2>5. QED BY <1>1, <2>2, <2>4 DEF MeaningInv
<1>8. QED BY <1>3, <1>4, <1>5, <1>6, <1>7 DEF Next, Write

LEMMA InitMeaning == Init => MeaningInv
<1> SUFFICES ASSUME Init PROVE MeaningInv
  OBVIOUS
<1>1. /\ pc = "value" /\ written \in Documents /\ todo = written
      /\ walk = << >> /\ buffer_ = << >>
  BY DEF Init
<1>2. Matches(Bottom, << >>)
  BY <1>1, BeginBuilds DEF Matches
<1>3. << >> \in Seq(Frames(Documents))
  OBVIOUS
<1>4. WriterBuilds
  BY <1>1, <1>2, <1>3 DEF WriterBuilds
<1>5. ReaderBuilds /\ ParsesToItsMeaning
  BY <1>1 DEF ReaderBuilds, ParsesToItsMeaning
<1>6. QED BY <1>4, <1>5, InitReadInv DEF MeaningInv

\* For every value, however deep and wide: parse_binary gives for the text that
\* generate_binary writes of it the value itself, its members in the order of
\* their names, and of equally named ones the last; and so again when what was
\* read is written.  It accepts no text that was cut.
THEOREM AlwaysParsesToItsMeaning == Spec => []ParsesToItsMeaning
<1>1. MeaningInv => ParsesToItsMeaning
  BY DEF MeaningInv
<1>2. QED BY <1>1, InitMeaning, StepKeepsMeaning, PTL DEF Spec
=============================================================================
