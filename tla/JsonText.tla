------------------------------ MODULE JsonText ------------------------------
(***************************************************************************)
(* The text of a JSON value (src/utils/json.cxx): generate_binary sends    *)
(* the events of a value to to_byte_vector, which keeps track of the       *)
(* separators with one flag, whatever the nesting; parse_binary has the    *)
(* parser of taoJSON send the events of a text to last_key_wins, which     *)
(* builds the value.                                                       *)
(*                                                                         *)
(* Here a value is written, its text delivered, perhaps cut short, and     *)
(* read, and what was read is written again.  One action is one event.     *)
(* The first value may spell a member twice, as other writers do; what the *)
(* library writes itself is always something it has read.                  *)
(*                                                                         *)
(* A text is a sequence of tokens: strings, numbers and literals are       *)
(* atoms, and the characters of a string are JsonString's matter.  The     *)
(* walk over a value and the grammar of the parser are taoJSON's.          *)
(***************************************************************************)
EXTENDS Integers, Sequences, FiniteSets

CONSTANTS
    Documents,      \* the values, with all that are in them
    Depth(_),       \* how deep a value is
    Atoms,          \* null, booleans, numbers, strings
    Unwritable,     \* binary data and numbers that are not finite
    Keys,           \* member names, numbered in the order of std::map
    None            \* no atom, no name

Containers == {"array", "object"}

\* A value: an array or object has its members in order, and those of an array
\* have no names.
Atom(a) == [kind |-> "atom", atom |-> a, members |-> << >>]
Container(kind, members) == [kind |-> kind, atom |-> None, members |-> members]
Member(k, v) == [key |-> k, value |-> v]

ASSUME JsonTextAssumption ==
    /\ Keys \subseteq Nat
    /\ None \notin Atoms \cup Unwritable \cup Keys
    /\ Atoms \cap Unwritable = {}

\* A value is an atom, or a container with values in it, to a finite depth.
NamesIn == [atom |-> {}, array |-> {None}, object |-> Keys]
MembersOf(v) == {v.members[i] : i \in DOMAIN v.members}
ASSUME DocumentsAssumption ==
    /\ \A v \in Documents :
         /\ v.kind = "atom" => v.atom \in Atoms \cup Unwritable /\ v = Atom(v.atom)
         /\ v.kind # "atom" => v.kind \in Containers /\ v = Container(v.kind, v.members)
         /\ v.members \in Seq(MembersOf(v))
         /\ Depth(v) \in Nat
         /\ \A m \in MembersOf(v) :
              /\ m = Member(m.key, m.value) /\ m.key \in NamesIn[v.kind]
              /\ Depth(m.value) < Depth(v)
    /\ UNION {{m.value : m \in MembersOf(v)} : v \in Documents} \subseteq Documents

\* The members in a set, in the order of their names.
InOrder(S) ==
    CHOOSE m \in [1..Cardinality(S) -> S] :
        /\ S = {m[i] : i \in DOMAIN m}
        /\ \A i, j \in DOMAIN m : i < j => m[i].key < m[j].key

Token(t, v) == [t |-> t, v |-> v]
Punctuation == {"[", "]", "{", "}", ",", ":"}
Tokens ==
    [t: {"atom"}, v: Atoms] \cup [t: {"key"}, v: Keys] \cup [t: Punctuation, v: {None}]

Begin == [array |-> "[", object |-> "{"]
End == [array |-> "]", object |-> "}"]

VARIABLES
    pc,         \* "value", "members", "after": writing; "read"; "parsed"; "thrown"
    written,    \* the value that is written
    todo,       \* the value or part of it whose events come next
    walk,       \* the containers around it, innermost first: from_value's stack
    buffer_,    \* to_byte_vector::buffer_
    first_,     \* to_byte_vector::first_
    text,       \* what is left to read
    cut,        \* the text was cut short
    expect,     \* what the grammar has next
    stack_,     \* last_key_wins: the containers that are being built
    keys_,      \* the names of the members that are being read
    value       \* the last value that was completed

writer_vars == <<written, todo, walk, buffer_, first_>>
reader_vars == <<text, cut, expect, stack_, keys_, value>>
vars == <<pc, writer_vars, reader_vars>>

Init ==
    /\ pc = "value"
    /\ written \in Documents
    /\ todo = written
    /\ walk = << >> /\ buffer_ = << >> /\ first_ = TRUE
    /\ text = << >> /\ cut = FALSE
    /\ expect = "value" /\ stack_ = << >> /\ keys_ = << >>
    /\ value = written

-----------------------------------------------------------------------------
(* to_byte_vector, and the walk of from_value over the value.              *)

\* next: the comma before anything but the first of its container.
next == IF first_ THEN buffer_ ELSE Append(buffer_, Token(",", None))

\* Mutant: numbers are not checked to be finite.
WriteAtomUnchecked ==
    /\ pc = "value" /\ todo.kind = "atom"
    /\ pc' = "after" /\ buffer_' = Append(next, Token("atom", todo.atom))
    /\ UNCHANGED <<written, todo, walk, first_, reader_vars>>

\* null, boolean, number, string; binary and number may throw, and the buffer
\* is gone with the call.
WriteAtom ==
    /\ pc = "value" /\ todo.kind = "atom"
    /\ \/ /\ todo.atom \in Unwritable
          /\ pc' = "thrown" /\ buffer_' = << >>
       \/ /\ todo.atom \in Atoms
          /\ pc' = "after" /\ buffer_' = Append(next, Token("atom", todo.atom))
    /\ UNCHANGED <<written, todo, walk, first_, reader_vars>>

\* begin_array, begin_object
WriteBegin ==
    /\ pc = "value" /\ todo.kind \in Containers
    /\ buffer_' = Append(next, Token(Begin[todo.kind], None))
    /\ first_' = TRUE
    /\ walk' = <<[value |-> todo, at |-> 0]>> \o walk
    /\ pc' = "members"
    /\ UNCHANGED <<written, todo, reader_vars>>

\* The walk takes the next member of the innermost container.
Advance(container) ==
    /\ pc = "members"
    /\ Head(walk).value.kind = container
    /\ Head(walk).at < Len(Head(walk).value.members)
    /\ todo' = Head(walk).value.members[Head(walk).at + 1].value
    /\ walk' = <<[Head(walk) EXCEPT !.at = @ + 1]>> \o Tail(walk)
    /\ pc' = "value"

NextItem == Advance("array") /\ UNCHANGED <<written, buffer_, first_, reader_vars>>

\* Mutant: the flag is not set, so that a comma may precede the value.
KeyKeepsFirst ==
    /\ Advance("object")
    /\ \E k \in Keys :
         /\ k = Head(walk).value.members[Head(walk).at + 1].key
         /\ buffer_' = next \o <<Token("key", k), Token(":", None)>>
    /\ UNCHANGED <<written, first_, reader_vars>>

\* key
Key ==
    /\ Advance("object")
    /\ \E k \in Keys :
         /\ k = Head(walk).value.members[Head(walk).at + 1].key
         /\ buffer_' = next \o <<Token("key", k), Token(":", None)>>
    /\ first_' = TRUE
    /\ UNCHANGED <<written, reader_vars>>

\* element, member: the next one of the container is not the first.
Element ==
    /\ pc = "after" /\ walk # << >>
    /\ first_' = FALSE
    /\ pc' = "members"
    /\ UNCHANGED <<written, todo, walk, buffer_, reader_vars>>

\* Mutant: the separator is left to the next one of the container, also when
\* there is none.
WriteEndComma ==
    /\ pc = "members"
    /\ Head(walk).at = Len(Head(walk).value.members)
    /\ buffer_' = Append(next, Token(End[Head(walk).value.kind], None))
    /\ walk' = Tail(walk)
    /\ pc' = "after"
    /\ UNCHANGED <<written, todo, first_, reader_vars>>

\* end_array, end_object: the flag is left to element and member.
WriteEnd ==
    /\ pc = "members"
    /\ Head(walk).at = Len(Head(walk).value.members)
    /\ buffer_' = Append(buffer_, Token(End[Head(walk).value.kind], None))
    /\ walk' = Tail(walk)
    /\ pc' = "after"
    /\ UNCHANGED <<written, todo, first_, reader_vars>>

\* generate_binary returns, and parse_binary is given the text or less of it.
Deliver ==
    /\ pc = "after" /\ walk = << >>
    /\ \/ cut' = FALSE /\ text' = buffer_
       \/ cut' = TRUE /\ \E n \in 0..(Len(buffer_) - 1) : text' = SubSeq(buffer_, 1, n)
    /\ pc' = "read"
    /\ buffer_' = << >> /\ first_' = TRUE
    /\ expect' = "value" /\ stack_' = << >> /\ keys_' = << >> /\ value' = Atom(None)
    /\ UNCHANGED <<written, todo, walk>>

-----------------------------------------------------------------------------
(* last_key_wins, and the grammar of taoJSON's parser.                     *)

BeginsValue == {"atom", "[", "{"}
Inside(kind) == stack_ # << >> /\ Head(stack_).kind = kind

\* The kinds of token that may come next.
Acceptable ==
    {t \in {"atom", "key"} \cup Punctuation :
       \/ t \in BeginsValue /\ (expect = "value" \/ (expect = "first" /\ Inside("array")))
       \/ t = "key" /\ (expect = "key" \/ (expect = "first" /\ Inside("object")))
       \/ t = ":" /\ expect = "colon"
       \/ t = "," /\ expect = "more"
       \/ expect \in {"first", "more"} /\ t = End[Head(stack_).kind]}

\* The text goes on with an acceptable token, of a kind in T.
Sees(T) == pc = "read" /\ text # << >> /\ Head(text).t \in T \cap Acceptable

ReadAtom ==
    /\ Sees({"atom"})
    /\ value' = Atom(Head(text).v)
    /\ text' = Tail(text)
    /\ expect' = "after"
    /\ UNCHANGED <<pc, writer_vars, cut, stack_, keys_>>

\* begin_array, begin_object
ReadBegin ==
    /\ \E kind \in Containers :
         /\ Sees({Begin[kind]})
         /\ stack_' = <<Container(kind, << >>)>> \o stack_
    /\ text' = Tail(text)
    /\ expect' = "first"
    /\ UNCHANGED <<pc, writer_vars, cut, keys_, value>>

\* key
ReadKey ==
    /\ Sees({"key"})
    /\ keys_' = <<Head(text).v>> \o keys_
    /\ text' = Tail(text)
    /\ expect' = "colon"
    /\ UNCHANGED <<pc, writer_vars, cut, stack_, value>>

\* A separator, which is no event.
ReadSeparator ==
    /\ Sees({",", ":"})
    /\ text' = Tail(text)
    /\ expect' = IF Head(text).t = "," /\ Inside("object") THEN "key" ELSE "value"
    /\ UNCHANGED <<pc, writer_vars, cut, stack_, keys_, value>>

\* Mutant: taoJSON's own consumer emplaces, so that the first member wins.
put_new(members, k, v) ==
    LET named == {i \in DOMAIN members : members[i].key = k}
    IN  IF named # {} THEN members
        ELSE InOrder({members[i] : i \in DOMAIN members} \cup {Member(k, v)})

\* prepare_object()[k] = v, in a std::map.
put(members, k, v) ==
    LET others == {i \in DOMAIN members : members[i].key # k}
    IN  InOrder({members[i] : i \in others} \cup {Member(k, v)})

\* last_key_wins::member, and element of its base.
ReadMember ==
    /\ pc = "read" /\ expect = "after"
    /\ \/ /\ Inside("object")
          /\ stack_' = <<[Head(stack_) EXCEPT !.members = put(@, Head(keys_), value)]>>
                       \o Tail(stack_)
          /\ keys_' = Tail(keys_)
       \/ /\ Inside("array")
          /\ stack_' = <<[Head(stack_) EXCEPT !.members = Append(@, Member(None, value))]>>
                       \o Tail(stack_)
          /\ UNCHANGED keys_
    /\ expect' = "more"
    /\ UNCHANGED <<pc, writer_vars, text, cut, value>>

\* end_array, end_object
ReadEnd ==
    /\ Sees({"]", "}"})
    /\ value' = Head(stack_)
    /\ stack_' = Tail(stack_)
    /\ text' = Tail(text)
    /\ expect' = "after"
    /\ UNCHANGED <<pc, writer_vars, cut, keys_>>

\* The value is complete: there must be no more text.
FinishParse ==
    /\ pc = "read" /\ expect = "after" /\ stack_ = << >>
    /\ pc' = IF text = << >> THEN "parsed" ELSE "thrown"
    /\ UNCHANGED <<writer_vars, reader_vars>>

\* The next token is not acceptable, or there is none.
Refuse ==
    /\ pc = "read" /\ expect # "after"
    /\ text # << >> => Head(text).t \notin Acceptable
    /\ pc' = "thrown"
    /\ UNCHANGED <<writer_vars, reader_vars>>

-----------------------------------------------------------------------------
\* What was read is written again.
Generate ==
    /\ pc = "parsed"
    /\ written' = value /\ todo' = value
    /\ pc' = "value"
    /\ UNCHANGED <<walk, buffer_, first_, reader_vars>>

Write == WriteAtom \/ WriteBegin \/ NextItem \/ Key \/ Element \/ WriteEnd \/ Deliver

Read ==
    \/ ReadAtom \/ ReadBegin \/ ReadKey \/ ReadSeparator \/ ReadMember \/ ReadEnd
    \/ FinishParse \/ Refuse

Next == Write \/ Read \/ Generate

Spec == Init /\ [][Next]_vars

-----------------------------------------------------------------------------
(* Properties.                                                             *)

\* What may come after a token, whatever the containers around it.
Follower(t) ==
    CASE t = "[" -> BeginsValue \cup {"]"}
      [] t = "{" -> {"key", "}"}
      [] t = "," -> BeginsValue \cup {"key"}
      [] t = "key" -> {":"}
      [] t = ":" -> BeginsValue
      [] OTHER -> {",", "]", "}"}

\* No comma and no colon of to_byte_vector is missing, doubled or out of place,
\* at any point of the writing: one flag does for all levels of nesting.
SeparatorsInPlace ==
    \A i \in 1..(Len(buffer_) - 1) : buffer_[i + 1].t \in Follower(buffer_[i].t)

\* Writing throws only at something unwritable, which the walk has come to, and
\* reading only for a text that was cut: no value, however it is nested, makes
\* the writer produce a text the parser refuses.
ThrowsOnlyForCause == pc = "thrown" => cut \/ todo.atom \in Unwritable

\* What a value means: of the members with one name the last one counts, and
\* they are in the order of their names.
Meaning[v \in Documents] ==
    LET m == v.members
        read == [i \in DOMAIN m |-> Member(m[i].key, Meaning[m[i].value])]
        last == {i \in DOMAIN m : \A j \in DOMAIN m : j > i => m[j].key # m[i].key}
    IN  [v EXCEPT !.members = IF v.kind = "object" THEN InOrder({read[i] : i \in last}) ELSE read]

\* What was read is to be written, and read, again.
ASSUME MeaningAssumption == {Meaning[v] : v \in Documents} \subseteq Documents

\* Reading the text of a value gives the value, with the last of equally named
\* members: in particular, reading what was written after reading gives the
\* same again.  The names and values of nested containers do not get mixed up,
\* although keys_ and value are shared by all of them.  A text that was cut is
\* never taken for a whole one.
ParsesToItsMeaning == pc = "parsed" => ~cut /\ value = Meaning[written]

TypeOK ==
    /\ pc \in {"value", "members", "after", "read", "parsed", "thrown"}
    /\ buffer_ \in Seq(Tokens)
    /\ first_ \in BOOLEAN
    /\ text \in Seq(Tokens)
    /\ cut \in BOOLEAN
    /\ expect \in {"value", "first", "key", "colon", "after", "more"}
    /\ keys_ \in Seq(Keys)
=============================================================================
