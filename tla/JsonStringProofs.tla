-------------------------- MODULE JsonStringProofs --------------------------
(***************************************************************************)
(* For all strings of bytes: nothing bare is written, and what is written  *)
(* is read as the string.  The run between the two pointers never holds a  *)
(* special character, so that a special one only gets into the text        *)
(* through its escape; and what has been written is read, whatever follows *)
(* it, as the part of the string that lies before the run.                 *)
(***************************************************************************)
EXTENDS JsonString, SequenceTheorems, WellFoundedInduction, TLAPS

\* A piece of text that can stand anywhere within the quotes.
Clean(t) ==
    \A i \in DOMAIN t :
        /\ ~is_control(t[i])
        /\ t[i] = Quote => i > 1 /\ t[i - 1] = Backslash

\* The text as far as it has been written.
Guarded(b) ==
    \A i \in DOMAIN b :
        /\ ~is_control(b[i])
        /\ b[i] = Quote => i = 1 \/ b[i - 1] = Backslash

RunPlain == \A i \in l..(p - 1) : ~is_special(s[i])

Inv ==
    /\ TypeOK
    /\ RunPlain
    /\ pc # "done" => Guarded(buffer_)
    /\ NothingBare

-----------------------------------------------------------------------------
(* What escapes are made of.                                               *)

LEMMA CodesAre ==
    /\ Quote \in Byte /\ Backslash \in Byte /\ Quote # Backslash
    /\ ~is_control(Quote) /\ ~is_control(Backslash)
    /\ \A c \in {Letter_u, Digit_0} : c \in Byte /\ ~is_control(c) /\ c # Quote
BY SMT DEF Quote, Backslash, Letter_u, Digit_0, Delete, Byte, is_control

LEMMA DigitsAre ==
    ASSUME NEW d \in 0..15
    PROVE  h(d) \in Byte /\ ~is_control(h(d)) /\ h(d) # Quote
BY SMT DEF h, Byte, is_control, Quote, Delete

LEMMA HalvesAre ==
    ASSUME NEW c \in Byte
    PROVE  c \div 16 \in 0..15 /\ c % 16 \in 0..15
BY SMT DEF Byte

LEMMA ShortAre ==
    ASSUME NEW c \in DOMAIN Short
    PROVE  Short[c] \in Byte /\ ~is_control(Short[c]) /\ Short[c] # Quote
<1>1. c \in {8, 9, 10, 12, 13}
  BY DEF Short
<1>2. Short[c] = (CASE c = 8 -> 98 [] c = 9 -> 116 [] c = 10 -> 110 [] c = 12 -> 102 [] c = 13 -> 114)
  BY <1>1, Zenon DEF Short
<1>3. Short[c] \in {98, 116, 110, 102, 114}
  BY <1>1, <1>2, Zenon
<1> HIDE DEF Short
<1> QED BY <1>3, SMT DEF Byte, is_control, Quote, Delete

\* Two characters, of which the first is a backslash.
LEMMA PairIsClean ==
    ASSUME NEW c \in Byte, ~is_control(c)
    PROVE  <<Backslash, c>> \in Seq(Byte) /\ Clean(<<Backslash, c>>)
BY CodesAre, SMT DEF Clean

\* Every escape is clean.
LEMMA EscapedIsClean ==
    ASSUME NEW c \in Byte, is_special(c)
    PROVE  escaped(c) \in Seq(Byte) /\ Clean(escaped(c))
<1>1. CASE ~is_control(c)
  BY <1>1, PairIsClean DEF escaped
<1>2. CASE is_control(c) /\ c \in DOMAIN Short
  <2>1. Short[c] \in Byte /\ ~is_control(Short[c])
    BY <1>2, ShortAre
  <2> QED BY <1>2, <2>1, PairIsClean DEF escaped
<1>3. CASE is_control(c) /\ c \notin DOMAIN Short
  <2> DEFINE x == h(c \div 16)
             y == h(c % 16)
  <2>1. escaped(c) = <<Backslash, Letter_u, Digit_0, Digit_0, x, y>>
    BY <1>3 DEF escaped
  <2>2. /\ x \in Byte /\ ~is_control(x) /\ x # Quote
        /\ y \in Byte /\ ~is_control(y) /\ y # Quote
    BY HalvesAre, DigitsAre
  <2> HIDE DEF x, y
  <2> QED BY <2>1, <2>2, CodesAre, SMT DEF Clean
<1> QED BY <1>1, <1>2, <1>3

-----------------------------------------------------------------------------
(* Texts put together.                                                     *)

LEMMA CleanThenClean ==
    ASSUME NEW t \in Seq(Byte), NEW u \in Seq(Byte), Clean(t), Clean(u)
    PROVE  t \o u \in Seq(Byte) /\ Clean(t \o u)
<1> DEFINE c == t \o u
<1>1. /\ c \in Seq(Byte) /\ Len(c) = Len(t) + Len(u) /\ DOMAIN c = 1..Len(c)
      /\ DOMAIN t = 1..Len(t) /\ DOMAIN u = 1..Len(u)
      /\ Len(t) \in Nat /\ Len(u) \in Nat
      /\ \A i \in 1..Len(t) : c[i] = t[i]
      /\ \A i \in 1..Len(u) : c[Len(t) + i] = u[i]
  BY SMT
<1>2. ASSUME NEW i \in DOMAIN c
      PROVE  ~is_control(c[i]) /\ (c[i] = Quote => i > 1 /\ c[i - 1] = Backslash)
  <2>1. CASE i \in 1..Len(t)
    <3>1. i > 1 => i - 1 \in 1..Len(t)
      BY <1>1, <2>1, SMT
    <3> HIDE DEF c
    <3> QED BY <1>1, <2>1, <3>1 DEF Clean
  <2>2. CASE i \notin 1..Len(t)
    <3> DEFINE j == i - Len(t)
    <3>1. j \in 1..Len(u) /\ i = Len(t) + j /\ i \in Nat
      BY <1>1, <1>2, <2>2, SMT
    <3>2. c[i] = u[j]
      BY <1>1, <3>1
    <3>3. j > 1 => i > 1 /\ j - 1 \in 1..Len(u) /\ i - 1 = Len(t) + (j - 1)
      BY <1>1, <3>1, SMT
    <3>4. j > 1 => i > 1 /\ c[i - 1] = u[j - 1]
      BY <1>1, <3>3
    <3> HIDE DEF c, j
    <3> QED BY <1>1, <3>1, <3>2, <3>4 DEF Clean
  <2> QED BY <2>1, <2>2
<1>3. Clean(c)
  BY <1>2 DEF Clean
<1> QED BY <1>1, <1>3

LEMMA GuardedThenClean ==
    ASSUME NEW b \in Seq(Byte), NEW u \in Seq(Byte), Guarded(b), Clean(u)
    PROVE  b \o u \in Seq(Byte) /\ Guarded(b \o u)
<1> DEFINE c == b \o u
<1>1. /\ c \in Seq(Byte) /\ Len(c) = Len(b) + Len(u) /\ DOMAIN c = 1..Len(c)
      /\ DOMAIN b = 1..Len(b) /\ DOMAIN u = 1..Len(u)
      /\ Len(b) \in Nat /\ Len(u) \in Nat
      /\ \A i \in 1..Len(b) : c[i] = b[i]
      /\ \A i \in 1..Len(u) : c[Len(b) + i] = u[i]
  BY SMT
<1>2. ASSUME NEW i \in DOMAIN c
      PROVE  ~is_control(c[i]) /\ (c[i] = Quote => i = 1 \/ c[i - 1] = Backslash)
  <2>1. CASE i \in 1..Len(b)
    <3>1. i # 1 => i - 1 \in 1..Len(b)
      BY <1>1, <2>1, SMT
    <3> HIDE DEF c
    <3> QED BY <1>1, <2>1, <3>1 DEF Guarded
  <2>2. CASE i \notin 1..Len(b)
    <3> DEFINE j == i - Len(b)
    <3>1. j \in 1..Len(u) /\ i = Len(b) + j /\ i \in Nat
      BY <1>1, <1>2, <2>2, SMT
    <3>2. c[i] = u[j]
      BY <1>1, <3>1
    <3>3. j > 1 => j - 1 \in 1..Len(u) /\ i - 1 = Len(b) + (j - 1)
      BY <1>1, <3>1, SMT
    <3>4. j > 1 => c[i - 1] = u[j - 1]
      BY <1>1, <3>3
    <3> HIDE DEF c, j
    <3> QED BY <1>1, <3>1, <3>2, <3>4 DEF Clean
  <2> QED BY <2>1, <2>2
<1>3. Guarded(c)
  BY <1>2 DEF Guarded
<1> QED BY <1>1, <1>3

\* The run, which has no special character, is clean.
LEMMA RunIsClean ==
    ASSUME TypeOK, RunPlain
    PROVE  run \in Seq(Byte) /\ Clean(run)
<1>1. /\ s \in Seq(Byte) /\ p \in 1..(Len(s) + 1) /\ l \in 1..p /\ Len(s) \in Nat
  BY SMT DEF TypeOK
<1>2. /\ run \in Seq(Byte)
      /\ DOMAIN run = 1..(p - l)
      /\ \A i \in 1..(p - l) : run[i] = s[l + i - 1]
  BY <1>1, SMT DEF run
<1>3. ASSUME NEW i \in DOMAIN run PROVE ~is_special(run[i])
  <2>1. l + i - 1 \in l..(p - 1) /\ run[i] = s[l + i - 1]
    BY <1>1, <1>2, <1>3, SMT
  <2> QED BY <2>1 DEF RunPlain
<1> QED BY <1>2, <1>3 DEF Clean, is_special

-----------------------------------------------------------------------------
(* The steps.                                                              *)

LEMMA GuardedIsNotBare == Guarded(buffer_) => NothingBare
BY DEF Guarded, NothingBare

LEMMA InitInv == Init => Inv
<1> SUFFICES ASSUME Init PROVE Inv
  OBVIOUS
<1>1. pc = "begin" /\ s \in Seq(Byte) /\ p = 1 /\ l = 1 /\ buffer_ = << >>
  BY JsonStringAssumption DEF Init
<1>2. TypeOK
  BY <1>1, SMT DEF TypeOK
<1>3. RunPlain
  BY <1>1, SMT DEF RunPlain
<1>4. Guarded(buffer_)
  BY <1>1, SMT DEF Guarded
<1> QED BY <1>2, <1>3, <1>4, GuardedIsNotBare DEF Inv

LEMMA BeginKeepsInv == Inv /\ Begin => Inv'
<1> SUFFICES ASSUME Inv, Begin PROVE Inv'
  OBVIOUS
<1>1. buffer_' = <<Quote>> /\ pc' = "escape" /\ UNCHANGED <<s, p, l>>
  BY DEF Begin
<1>2. TypeOK'
  BY <1>1, CodesAre, SMT DEF Inv, TypeOK
<1>3. RunPlain'
  BY <1>1 DEF Inv, RunPlain
<1>4. Guarded(buffer_')
  BY <1>1, CodesAre, SMT DEF Guarded
<1> QED BY <1>2, <1>3, <1>4 DEF Inv, Guarded, NothingBare

LEMMA KeepKeepsInv == Inv /\ Keep => Inv'
<1> SUFFICES ASSUME Inv, Keep PROVE Inv'
  OBVIOUS
<1>1. /\ pc = "escape" /\ p <= Len(s) /\ ~is_special(s[p])
      /\ p' = p + 1 /\ UNCHANGED <<pc, s, l, buffer_>>
  BY DEF Keep
<1>2. s \in Seq(Byte) /\ p \in 1..(Len(s) + 1) /\ l \in 1..p /\ Len(s) \in Nat
  BY SMT DEF Inv, TypeOK
<1>3. TypeOK'
  BY <1>1, <1>2, SMT DEF Inv, TypeOK
<1>4. RunPlain'
  <2>1. ASSUME NEW i \in l..p PROVE ~is_special(s[i])
    <3>1. i = p \/ i \in l..(p - 1)
      BY <1>2, <2>1, SMT
    <3> QED BY <1>1, <3>1 DEF Inv, RunPlain
  <2>2. p' - 1 = p
    BY <1>1, <1>2, SMT
  <2> QED BY <1>1, <2>1, <2>2 DEF RunPlain
<1> QED BY <1>1, <1>3, <1>4 DEF Inv, Guarded, NothingBare

LEMMA EscapeKeepsInv == Inv /\ Escape => Inv'
<1> SUFFICES ASSUME Inv, Escape PROVE Inv'
  OBVIOUS
<1>1. /\ pc = "escape" /\ p <= Len(s) /\ is_special(s[p])
      /\ buffer_' = buffer_ \o run \o escaped(s[p])
      /\ p' = p + 1 /\ l' = p + 1 /\ UNCHANGED <<pc, s>>
  BY DEF Escape
<1>2. /\ s \in Seq(Byte) /\ p \in 1..(Len(s) + 1) /\ Len(s) \in Nat
      /\ buffer_ \in Seq(Byte) /\ Guarded(buffer_)
  BY <1>1, SMT DEF Inv, TypeOK
<1>3. s[p] \in Byte
  BY <1>1, <1>2, SMT
<1>4. escaped(s[p]) \in Seq(Byte) /\ Clean(escaped(s[p]))
  BY <1>1, <1>3, EscapedIsClean
<1>5. run \in Seq(Byte) /\ Clean(run)
  BY RunIsClean DEF Inv
<1>6. buffer_ \o run \in Seq(Byte) /\ Guarded(buffer_ \o run)
  BY <1>2, <1>5, GuardedThenClean
<1>7. buffer_' \in Seq(Byte) /\ Guarded(buffer_')
  BY <1>1, <1>4, <1>6, GuardedThenClean
<1>8. TypeOK'
  BY <1>1, <1>2, <1>7, SMT DEF TypeOK
<1>9. RunPlain'
  BY <1>1, <1>2, SMT DEF RunPlain
<1> QED BY <1>7, <1>8, <1>9 DEF Inv, Guarded, NothingBare

LEMMA FinishKeepsInv == Inv /\ Finish => Inv'
<1> SUFFICES ASSUME Inv, Finish PROVE Inv'
  OBVIOUS
<1>1. /\ pc = "escape" /\ buffer_' = buffer_ \o run \o <<Quote>>
      /\ pc' = "done" /\ UNCHANGED <<s, p, l>>
  BY DEF Finish
<1>2. buffer_ \in Seq(Byte) /\ Guarded(buffer_)
  BY <1>1 DEF Inv, TypeOK
<1>3. run \in Seq(Byte) /\ Clean(run)
  BY RunIsClean DEF Inv
<1> DEFINE b == buffer_ \o run
<1>4. b \in Seq(Byte) /\ Guarded(b)
  BY <1>2, <1>3, GuardedThenClean
<1> HIDE DEF b
<1>5. /\ buffer_' \in Seq(Byte) /\ Len(buffer_') = Len(b) + 1
      /\ buffer_'[Len(b) + 1] = Quote
      /\ DOMAIN buffer_' = 1..(Len(b) + 1) /\ DOMAIN b = 1..Len(b) /\ Len(b) \in Nat
      /\ \A i \in 1..Len(b) : buffer_'[i] = b[i]
  BY <1>1, <1>4, CodesAre, SMT DEF b
<1>6. ASSUME NEW i \in DOMAIN buffer_'
      PROVE  /\ ~is_control(buffer_'[i])
             /\ buffer_'[i] = Quote =>
                   i = 1 \/ i = Len(buffer_') \/ buffer_'[i - 1] = Backslash
  <2>1. CASE i = Len(b) + 1
    BY <1>5, <2>1, CodesAre
  <2>2. CASE i # Len(b) + 1
    <3>1. i \in 1..Len(b) /\ (i # 1 => i - 1 \in 1..Len(b))
      BY <1>5, <1>6, <2>2, SMT
    <3> QED BY <1>4, <1>5, <3>1 DEF Guarded
  <2> QED BY <2>1, <2>2
<1>7. NothingBare'
  BY <1>1, <1>6 DEF NothingBare
<1>8. TypeOK'
  BY <1>1, <1>5 DEF Inv, TypeOK
<1>9. RunPlain'
  BY <1>1 DEF Inv, RunPlain
<1> QED BY <1>1, <1>7, <1>8, <1>9 DEF Inv

LEMMA InvAlways == Spec => []Inv
<1>1. Inv /\ UNCHANGED vars => Inv'
  BY DEF Inv, vars, TypeOK, RunPlain, Guarded, NothingBare, run
<1>2. Inv /\ [Next]_vars => Inv'
  BY <1>1, BeginKeepsInv, KeepKeepsInv, EscapeKeepsInv, FinishKeepsInv DEF Next
<1> QED BY <1>2, InitInv, PTL DEF Spec

\* For every string of bytes the pointers of escape stay within it, one behind
\* the other, and what is written are bytes.
THEOREM TypeCorrect == Spec => []TypeOK
<1>1. Inv => TypeOK
  BY DEF Inv
<1> QED BY <1>1, InvAlways, PTL

\* For every string of bytes, however its special characters lie: escape
\* (src/utils/json.cxx) writes no control character, and no quote that would
\* end the string early.
THEOREM NothingIsEverBare == Spec => []NothingBare
<1>1. Inv => NothingBare
  BY DEF Inv
<1> QED BY <1>1, InvAlways, PTL

-----------------------------------------------------------------------------
(* Unescaped is a recursive function, and what it computes is proved of a  *)
(* function that satisfies its equation.                                   *)

\* What a reader makes of t from i on, if f is what it makes of it further on.
Turn(t, f, i) ==
    IF i = Len(t) THEN IF t[i] = Quote THEN << >> ELSE <<-1>>
    ELSE IF t[i] = Quote \/ i + width(t, i) > Len(t) THEN <<-1>>
    ELSE meant(t, i) \o f[i + width(t, i)]

\* f is what it makes of t from each place on, the first of which is lo.
Reading(t, lo, f) == f = [i \in lo..Len(t) |-> Turn(t, f, i)]

At(t) == CHOOSE f : Reading(t, 2, f)

\* Every set of numbers that is not empty has a least one.
LEMMA LeastNat ==
    ASSUME NEW S \in SUBSET Nat, S # {}
    PROVE  \E i \in S : \A j \in S : i <= j
<1>1. PICK i \in S : \A j \in S : <<j, i>> \notin OpToRel(<, Nat)
  BY NatLessThanWellFounded, WFMin
<1>2. ASSUME NEW j \in S
      PROVE  i <= j
  <2>1. <<j, i>> \in Nat \X Nat
    OBVIOUS
  <2>2. QED BY <1>1, <2>1 DEF OpToRel
<1>3. QED BY <1>2

\* And below a bound a greatest one.
LEMMA GreatestBelow ==
    ASSUME NEW n \in Nat, NEW S, S \subseteq 0..n, S # {}
    PROVE  \E i \in S : \A j \in S : j <= i
<1> DEFINE T == {k \in 0..n : n - k \in S}
<1>1. T \in SUBSET Nat
  OBVIOUS
<1>2. T # {}
  <2>1. PICK i \in S : TRUE
    OBVIOUS
  <2>2. i \in 0..n /\ n - i \in 0..n /\ n - (n - i) = i
    OBVIOUS
  <2>3. n - i \in T
    BY <2>2
  <2>4. QED BY <2>3
<1>3. \A j \in S : n - j \in T
  <2>1. TAKE j \in S
  <2>2. j \in 0..n /\ n - j \in 0..n /\ n - (n - j) = j
    OBVIOUS
  <2>3. QED BY <2>2
<1>4. \A k \in T : k \in 0..n /\ n - k \in S
  OBVIOUS
<1> HIDE DEF T
<1>5. PICK k \in T : \A j \in T : k <= j
  BY <1>1, <1>2, LeastNat
<1>6. \A j \in S : j <= n - k
  <2>1. TAKE j \in S
  <2>2. k <= n - j /\ k \in 0..n /\ j \in 0..n
    BY <1>3, <1>4, <1>5
  <2>3. QED BY <2>2
<1>7. QED BY <1>4, <1>5, <1>6

\* A turn goes on further on.
LEMMA TurnSame ==
    ASSUME NEW t \in Seq(Byte), NEW i \in Nat, i <= Len(t), NEW f, NEW g,
           \A j \in (i + 1)..Len(t) : f[j] = g[j]
    PROVE  Turn(t, f, i) = Turn(t, g, i)
<1>1. width(t, i) \in {1, 2, 6} /\ Len(t) \in Nat
  BY DEF width
<1>2. CASE i # Len(t) /\ t[i] # Quote /\ ~(i + width(t, i) > Len(t))
  <2>1. i + width(t, i) \in (i + 1)..Len(t)
    BY <1>1, <1>2
  <2>2. f[i + width(t, i)] = g[i + width(t, i)]
    BY <2>1
  <2>3. QED BY <1>2, <2>2 DEF Turn
<1>3. CASE ~(i # Len(t) /\ t[i] # Quote /\ ~(i + width(t, i) > Len(t)))
  BY <1>3 DEF Turn
<1>4. QED BY <1>2, <1>3

\* No two functions are what a reader makes of t.
LEMMA ReadingUnique ==
    ASSUME NEW t \in Seq(Byte), NEW f, NEW g, Reading(t, 2, f), Reading(t, 2, g)
    PROVE  f = g
<1> DEFINE S == {i \in 2..Len(t) : f[i] # g[i]}
<1>1. /\ f = [i \in 2..Len(t) |-> Turn(t, f, i)]
      /\ g = [i \in 2..Len(t) |-> Turn(t, g, i)]
      /\ Len(t) \in Nat
  BY DEF Reading
<1>2. \A i \in 2..Len(t) : f[i] = Turn(t, f, i) /\ g[i] = Turn(t, g, i)
  BY <1>1
<1>3. S = {}
  <2> SUFFICES ASSUME S # {} PROVE FALSE
    OBVIOUS
  <2>1. S \subseteq 0..Len(t)
    BY <1>1
  <2>2. PICK i \in S : \A j \in S : j <= i
    <3> HIDE DEF S
    <3>1. QED BY <1>1, <2>1, GreatestBelow
  <2>3. i \in 2..Len(t) /\ f[i] # g[i]
    OBVIOUS
  <2>4. \A j \in (i + 1)..Len(t) : f[j] = g[j]
    <3>1. TAKE j \in (i + 1)..Len(t)
    <3>2. j \in 2..Len(t) /\ ~(j <= i)
      BY <1>1, <2>3
    <3>3. QED BY <2>2, <3>2
  <2>5. Turn(t, f, i) = Turn(t, g, i)
    <3>1. i \in Nat /\ i <= Len(t)
      BY <2>3
    <3> HIDE DEF S
    <3>2. QED BY <2>4, <3>1, TurnSame
  <2>6. QED BY <1>2, <2>3, <2>5
<1>4. f = [i \in 2..Len(t) |-> f[i]] /\ g = [i \in 2..Len(t) |-> g[i]]
  BY <1>1
<1>5. QED BY <1>3, <1>4

\* One is.
LEMMA ReadingExists ==
    ASSUME NEW t \in Seq(Byte), NEW n \in Nat
    PROVE  n <= Len(t) => \E f : Reading(t, Len(t) + 1 - n, f)
<1> DEFINE lo(m) == Len(t) + 1 - m
           S == {m \in Nat : m <= Len(t) /\ ~\E f : Reading(t, lo(m), f)}
<1>0. S = {} => (n <= Len(t) => \E f : Reading(t, lo(n), f))
  <2> SUFFICES ASSUME S = {}, n <= Len(t), ~\E f : Reading(t, lo(n), f) PROVE FALSE
    <3> HIDE DEF lo
    <3>1. QED OBVIOUS
  <2>1. n \in S
    <3> HIDE DEF lo
    <3>1. QED OBVIOUS
  <2> HIDE DEF S
  <2>2. QED BY <2>1
<1>1. SUFFICES ASSUME S # {} PROVE FALSE
  <2> HIDE DEF S
  <2>1. QED BY <1>0
<1>2. S \in SUBSET Nat
  OBVIOUS
<1>3. PICK m \in S : \A j \in S : m <= j
  <2> HIDE DEF S
  <2>1. QED BY <1>1, <1>2, LeastNat
<1>4. m \in Nat /\ m <= Len(t) /\ Len(t) \in Nat /\ ~\E f : Reading(t, lo(m), f)
  OBVIOUS
<1>5. CASE m = 0
  <2> DEFINE f == [i \in lo(m)..Len(t) |-> << >>]
  <2>1. lo(m)..Len(t) = {}
    BY <1>4, <1>5
  <2>2. f = [i \in lo(m)..Len(t) |-> Turn(t, f, i)]
    BY <2>1
  <2> HIDE DEF f
  <2>3. Reading(t, lo(m), f)
    BY <2>2 DEF Reading
  <2>4. QED BY <1>4, <2>3
<1>6. CASE m # 0
  <2>1. m - 1 \in Nat /\ m - 1 <= Len(t) /\ m - 1 \notin S /\ lo(m - 1) = lo(m) + 1
        /\ lo(m) \in Nat /\ lo(m) <= Len(t)
    BY <1>3, <1>4, <1>6
  <2>2. PICK f : Reading(t, lo(m - 1), f)
    BY <2>1
  <2> DEFINE k == lo(m)
             g == [i \in k..Len(t) |-> IF i = k THEN Turn(t, f, k) ELSE f[i]]
             g2 == [i \in k..Len(t) |-> Turn(t, g, i)]
  <2>3. \A i \in (k + 1)..Len(t) : f[i] = Turn(t, f, i)
    BY <2>1, <2>2 DEF Reading
  <2> HIDE DEF lo, S
  <2>4. k \in Nat /\ k <= Len(t)
    BY <2>1
  <2> HIDE DEF k
  <2>5. \A i \in (k + 1)..Len(t) : g[i] = f[i]
    BY <1>4, <2>4
  <2>6. g[k] = Turn(t, f, k)
    BY <1>4, <2>4
  <2>7. g = [i \in k..Len(t) |-> g[i]]
    OBVIOUS
  <2>8. \A i \in k..Len(t) : g2[i] = Turn(t, g, i)
    OBVIOUS
  <2> HIDE DEF g
  <2>9. \A i \in k..Len(t) : g[i] = g2[i]
    <3>1. TAKE i \in k..Len(t)
    <3>2. i \in Nat /\ i <= Len(t)
      BY <1>4, <2>4
    <3>3. \A j \in (i + 1)..Len(t) : f[j] = g[j]
      <4>1. \A j \in (i + 1)..Len(t) : j \in (k + 1)..Len(t)
        BY <1>4, <2>4
      <4>2. QED BY <2>5, <4>1
    <3>4. Turn(t, f, i) = Turn(t, g, i)
      BY <3>2, <3>3, TurnSame
    <3>5. g[i] = Turn(t, f, i)
      <4>1. i = k \/ i \in (k + 1)..Len(t)
        BY <1>4, <2>4
      <4>2. QED BY <2>3, <2>5, <2>6, <4>1
    <3>6. QED BY <2>8, <3>4, <3>5
  <2>10. g = g2
    BY <2>7, <2>9
  <2>11. Reading(t, k, g)
    BY <2>10 DEF Reading
  <2>12. QED BY <1>4, <2>11 DEF k
<1>7. QED BY <1>5, <1>6

\* Unescaped is what it gives from the second character on.
LEMMA AtParts ==
    ASSUME NEW t \in Seq(Byte), Len(t) >= 2
    PROVE  /\ Unescaped(t) = At(t)[2]
           /\ \A i \in 2..Len(t) : At(t)[i] = Turn(t, At(t), i)
<1> DEFINE f == At(t)
<1>1. Reading(t, 2, f)
  <2> DEFINE n == Len(t) - 1
  <2>1. n \in Nat /\ Len(t) + 1 - n = 2 /\ n <= Len(t)
    OBVIOUS
  <2>2. \E g : Reading(t, Len(t) + 1 - n, g)
    <3> HIDE DEF n
    <3>1. QED BY <2>1, ReadingExists
  <2>3. QED BY <2>1, <2>2 DEF At
<1>2. \A g : Reading(t, 2, g) <=> g = f
  BY <1>1, ReadingUnique
<1>3. \A i \in 2..Len(t) : f[i] = Turn(t, f, i)
  BY <1>1 DEF Reading
<1>4. Unescaped(t) = f[2]
  <2> HIDE DEF f
  <2>1. \A g : g = f <=> g = [i \in 2..Len(t) |-> Turn(t, g, i)]
    BY <1>2 DEF Reading
  <2>2. QED BY <2>1 DEF Unescaped, Turn
<1>5. QED BY <1>3, <1>4

-----------------------------------------------------------------------------
(* What a reader makes of the pieces that escape writes.                   *)

\* Bytes are numbers.
LEMMA BytesAreNumbers ==
    ASSUME NEW t \in Seq(Byte)
    PROVE  t \in Seq(Int) /\ Len(t) \in Nat /\ \A i \in 1..Len(t) : t[i] \in Byte /\ t[i] \in Int
<1>1. Len(t) \in Nat /\ t \in [1..Len(t) -> Byte]
  OBVIOUS
<1>2. Byte \subseteq Int
  BY DEF Byte
<1>3. \A i \in 1..Len(t) : t[i] \in Byte
  BY <1>1
<1>4. t \in Seq(Int)
  BY <1>2, SeqMonotonic
<1>5. QED BY <1>1, <1>2, <1>3, <1>4

\* Texts are put together from the left or from the right.
LEMMA Together ==
    ASSUME NEW a \in Seq(Int), NEW b \in Seq(Int), NEW c \in Seq(Int)
    PROVE  a \o (b \o c) = (a \o b) \o c
<1>1. (a \o b) \o c = a \o (b \o c)
  BY ConcatAssociative
<1>2. QED BY <1>1

\* What stands for a character is read as bytes.
LEMMA MeantIsText ==
    ASSUME NEW t \in Seq(Byte), NEW i \in 1..Len(t), i + width(t, i) <= Len(t)
    PROVE  meant(t, i) \in Seq(Int) /\ width(t, i) \in {1, 2, 6}
<1>1. width(t, i) \in {1, 2, 6} /\ Len(t) \in Nat /\ t[i] \in Int
  BY BytesAreNumbers DEF width
<1>2. CASE t[i] # Backslash
  BY <1>1, <1>2 DEF meant
<1>3. CASE t[i] = Backslash /\ t[i + 1] = Letter_u
  <2>1. width(t, i) = 6
    BY <1>3 DEF width
  <2>2. i + 4 \in 1..Len(t) /\ i + 5 \in 1..Len(t)
    BY <1>1, <2>1
  <2>3. t[i + 4] \in Int /\ t[i + 5] \in Int
    BY <2>2, BytesAreNumbers
  <2>4. digit(t[i + 4]) \in Int /\ digit(t[i + 5]) \in Int
    BY <2>3 DEF digit
  <2> DEFINE v == digit(t[i + 4]) * 16 + digit(t[i + 5])
  <2>5. v \in Int
    BY <2>4
  <2> HIDE DEF v
  <2>6. Utf8(v) \in Seq(Int)
    BY <2>5 DEF Utf8
  <2>7. QED BY <1>1, <1>3, <2>6 DEF meant, v
<1>4. CASE t[i] = Backslash /\ t[i + 1] # Letter_u
  <2>1. width(t, i) = 2
    BY <1>4 DEF width
  <2>2. t[i + 1] \in Int
    <3>1. i + 1 \in 1..Len(t)
      BY <1>1, <2>1
    <3>2. QED BY <3>1, BytesAreNumbers
  <2> DEFINE c == CHOOSE d \in DOMAIN Short : Short[d] = t[i + 1]
  <2>3. (\E d \in DOMAIN Short : Short[d] = t[i + 1]) => c \in Int
    <3>1. DOMAIN Short \subseteq Int
      BY DEF Short
    <3> HIDE DEF Short
    <3>2. QED BY <3>1
  <2> HIDE DEF c
  <2>4. meant(t, i) = IF \E d \in DOMAIN Short : Short[d] = t[i + 1] THEN <<c>> ELSE <<t[i + 1]>>
    <3> HIDE DEF Short
    <3>1. QED BY <1>4 DEF meant, c
  <2> HIDE DEF Short
  <2>5. QED BY <1>1, <2>2, <2>3, <2>4
<1>5. QED BY <1>2, <1>3, <1>4

\* What is read from any place on are bytes, or the number that marks a fault.
LEMMA AtIsText ==
    ASSUME NEW t \in Seq(Byte), Len(t) >= 2, NEW k \in 2..Len(t)
    PROVE  At(t)[k] \in Seq(Int)
<1> DEFINE f == At(t)
           S == {i \in 2..Len(t) : f[i] \notin Seq(Int)}
<1> HIDE DEF f
<1>1. \A i \in 2..Len(t) : f[i] = Turn(t, f, i)
  BY AtParts DEF f
<1>2. S = {}
  <2> SUFFICES ASSUME S # {} PROVE FALSE
    OBVIOUS
  <2>1. S \subseteq 0..Len(t) /\ Len(t) \in Nat
    OBVIOUS
  <2>2. PICK i \in S : \A j \in S : j <= i
    <3> HIDE DEF S
    <3>1. QED BY <2>1, GreatestBelow
  <2>3. i \in 2..Len(t) /\ f[i] \notin Seq(Int) /\ i \in 1..Len(t)
    OBVIOUS
  <2>4. ASSUME i + width(t, i) <= Len(t)
        PROVE  f[i + width(t, i)] \in Seq(Int)
    <3>1. width(t, i) \in {1, 2, 6}
      BY <2>3, <2>4, MeantIsText
    <3>2. i + width(t, i) \in 2..Len(t) /\ ~(i + width(t, i) <= i)
      BY <2>3, <2>4, <3>1
    <3>3. i + width(t, i) \notin S
      BY <2>2, <3>2
    <3>4. QED BY <3>2, <3>3
  <2> HIDE DEF S
  <2>5. i + width(t, i) <= Len(t) => meant(t, i) \o f[i + width(t, i)] \in Seq(Int)
    BY <2>3, <2>4, MeantIsText
  <2>6. width(t, i) \in Int
    BY DEF width
  <2>7. Turn(t, f, i) \in Seq(Int)
    BY <2>3, <2>5, <2>6 DEF Turn
  <2>8. QED BY <1>1, <2>3, <2>7
<1>3. QED BY <1>2 DEF f

\* A character that stands for itself is read as itself.
LEMMA PlainRead ==
    ASSUME NEW t \in Seq(Byte), NEW k \in 2..Len(t), k < Len(t),
           t[k] # Quote, t[k] # Backslash
    PROVE  At(t)[k] = <<t[k]>> \o At(t)[k + 1]
<1>1. Len(t) >= 2 /\ width(t, k) = 1 /\ meant(t, k) = <<t[k]>>
  BY DEF width, meant
<1>2. At(t)[k] = Turn(t, At(t), k)
  BY <1>1, AtParts
<1>3. QED BY <1>1, <1>2 DEF Turn

\* So is a run of them.
LEMMA RunRead ==
    ASSUME NEW t \in Seq(Byte), NEW k \in 2..Len(t), NEW m \in Nat, k + m <= Len(t),
           \A i \in k..(k + m - 1) : t[i] # Quote /\ t[i] # Backslash
    PROVE  At(t)[k] = SubSeq(t, k, k + m - 1) \o At(t)[k + m]
<1> DEFINE S == {n \in Nat : n <= m /\ At(t)[k] # SubSeq(t, k, k + n - 1) \o At(t)[k + n]}
<1>1. S = {}
  <2> SUFFICES ASSUME S # {} PROVE FALSE
    <3> HIDE DEF S
    <3>1. QED OBVIOUS
  <2>1. PICK n \in S : \A j \in S : n <= j
    <3>1. S \in SUBSET Nat
      OBVIOUS
    <3> HIDE DEF S
    <3>2. QED BY <3>1, LeastNat
  <2>2. n \in Nat /\ n <= m /\ At(t)[k] # SubSeq(t, k, k + n - 1) \o At(t)[k + n]
    OBVIOUS
  <2>3. \A j \in Nat : j <= m /\ ~(n <= j) => At(t)[k] = SubSeq(t, k, k + j - 1) \o At(t)[k + j]
    BY <2>1
  <2> HIDE DEF S
  <2>4. \A i \in k..Len(t) : At(t)[i] \in Seq(Int)
    BY AtIsText
  <2>5. t \in Seq(Int) /\ Len(t) \in Nat
    BY BytesAreNumbers
  <2>6. CASE n = 0
    <3> DEFINE a == At(t)[k]
    <3>1. SubSeq(t, k, k + n - 1) = << >> /\ k + n = k
      BY <2>6
    <3>2. a \in Seq(Int)
      BY <2>4, <2>5
    <3> HIDE DEF a
    <3>3. << >> \o a = a
      BY <3>2, ConcatEmptySeq
    <3>4. QED BY <2>2, <3>1, <3>3 DEF a
  <2>7. CASE n # 0
    <3> DEFINE j == k + n - 1
               u == SubSeq(t, k, j - 1)
               r == At(t)[k + n]
    <3>1. n - 1 \in Nat /\ ~(n <= n - 1) /\ n - 1 <= m
      BY <2>2, <2>7
    <3>2. j \in k..(k + m - 1) /\ j \in 2..Len(t) /\ j < Len(t) /\ j + 1 = k + n
          /\ k + (n - 1) = j /\ k + n \in k..Len(t)
      BY <2>2, <2>5, <2>7
    <3>3. At(t)[k] = u \o At(t)[j]
      <4>1. At(t)[k] = SubSeq(t, k, k + (n - 1) - 1) \o At(t)[k + (n - 1)]
        BY <2>3, <3>1
      <4>2. k + (n - 1) = j /\ k + (n - 1) - 1 = j - 1
        BY <2>2
      <4> HIDE DEF j
      <4>3. QED BY <4>1, <4>2
    <3>4. At(t)[j] = <<t[j]>> \o r
      BY <3>2, PlainRead
    <3> HIDE DEF j
    <3>5. t[j] \in Int /\ r \in Seq(Int)
      BY <2>4, <3>2, BytesAreNumbers
    <3>6. u \in Seq(Int) /\ SubSeq(t, k, j) = u \o <<t[j]>>
      <4>1. k \in 1..Len(t) + 1 /\ j \in 1..Len(t) /\ k \in 1..j /\ k \in 1..(j - 1) + 1 /\ j - 1 \in (k - 1)..Len(t)
        BY <2>5, <3>2
      <4>2. u \in Seq(Int)
        BY <2>5, <4>1, SubSeqProperties
      <4>3. SubSeq(t, k, j) = u \o <<t[j]>>
        BY <2>5, <4>1, SubSeqRecursiveSecond
      <4>4. QED BY <4>2, <4>3
    <3> HIDE DEF u, r
    <3>7. u \o (<<t[j]>> \o r) = (u \o <<t[j]>>) \o r
      <4>1. <<t[j]>> \in Seq(Int) /\ u \in Seq(Int) /\ r \in Seq(Int)
        BY <3>5, <3>6
      <4>2. QED BY <4>1, Together
    <3>8. At(t)[k] = SubSeq(t, k, j) \o r
      BY <3>3, <3>4, <3>6, <3>7
    <3>9. k + n - 1 = j
      BY <2>2 DEF j
    <3>10. QED BY <2>2, <3>8, <3>9 DEF r
  <2>8. QED BY <2>6, <2>7
<1> DEFINE P(n) == At(t)[k] # SubSeq(t, k, k + n - 1) \o At(t)[k + n]
<1>2. \A n \in Nat : n <= m => ~P(n)
  BY <1>1
<1>3. m \in Nat /\ m <= m
  OBVIOUS
<1> HIDE DEF P
<1>4. ~P(m)
  BY <1>2, <1>3
<1>5. QED BY <1>4 DEF P

\* A digit is read as what it was written for.
LEMMA DigitsRead ==
    ASSUME NEW d \in 0..15
    PROVE  digit(h(d)) = d /\ h(d) \in Int
BY DEF digit, h

\* The table of escapes of one character has no value twice, and not the letter
\* with which the long ones begin.
LEMMA ShortRead ==
    ASSUME NEW c \in DOMAIN Short
    PROVE  /\ Short[c] # Letter_u
           /\ (CHOOSE d \in DOMAIN Short : Short[d] = Short[c]) = c
<1> DEFINE D == {8, 9, 10, 12, 13}
<1>1. DOMAIN Short = D
  BY DEF Short
<1>2. \A d \in D : Short[d] = (CASE d = 8 -> 98 [] d = 9 -> 116 [] d = 10 -> 110
                                 [] d = 12 -> 102 [] d = 13 -> 114)
  BY Zenon DEF Short
<1>3. /\ Short[8] = 98 /\ Short[9] = 116 /\ Short[10] = 110
      /\ Short[12] = 102 /\ Short[13] = 114
  <2>1. Short[8] = 98
    BY <1>2
  <2>2. Short[9] = 116
    BY <1>2
  <2>3. Short[10] = 110
    BY <1>2
  <2>4. Short[12] = 102
    BY <1>2
  <2>5. Short[13] = 114
    BY <1>2
  <2>6. QED BY <2>1, <2>2, <2>3, <2>4, <2>5
<1> HIDE DEF Short
<1>4. c \in D
  BY <1>1
<1>5. \A d \in D : Short[d] = Short[c] => d = c
  BY <1>3, <1>4
<1>6. Short[c] # Letter_u
  BY <1>3, <1>4 DEF Letter_u
<1> HIDE DEF D
<1>7. QED BY <1>1, <1>4, <1>5, <1>6

\* No escape of one character stands for itself with a quote or a backslash.
LEMMA ShortIsNot ==
    ASSUME NEW d \in DOMAIN Short
    PROVE  Short[d] # Quote /\ Short[d] # Backslash
<1>1. Short[d] \in {98, 116, 110, 102, 114}
  <2>1. d \in {8, 9, 10, 12, 13}
    BY DEF Short
  <2>2. Short[d] = (CASE d = 8 -> 98 [] d = 9 -> 116 [] d = 10 -> 110
                      [] d = 12 -> 102 [] d = 13 -> 114)
    BY <2>1, Zenon DEF Short
  <2>3. QED BY <2>1, <2>2, Zenon
<1> HIDE DEF Short
<1>2. QED BY <1>1 DEF Quote, Backslash

\* An escape is read as the character it was written for.
LEMMA EscapeRead ==
    ASSUME NEW t \in Seq(Byte), NEW c \in Byte, is_special(c),
           NEW k \in 2..Len(t), k + Len(escaped(c)) <= Len(t),
           \A i \in 1..Len(escaped(c)) : t[k + i - 1] = escaped(c)[i]
    PROVE  At(t)[k] = <<c>> \o At(t)[k + Len(escaped(c))]
<1> DEFINE e == escaped(c)
<1>0. Len(t) \in Nat /\ Len(t) >= 2 /\ c \in Int
  <2>1. Len(t) \in Nat
    BY BytesAreNumbers
  <2>2. c \in Int
    <3>1. Byte \subseteq Int
      BY DEF Byte
    <3>2. QED BY <3>1
  <2>3. QED BY <2>1, <2>2
<1>1. /\ e[1] = Backslash /\ Len(e) \in Nat /\ Len(e) >= 2
      /\ width(t, k) = Len(e) /\ meant(t, k) = <<c>>
  <2>1. CASE ~is_control(c)
    <3>1. e = <<Backslash, c>> /\ (c = Quote \/ c = Backslash)
      BY <2>1 DEF escaped, is_special
    <3> HIDE DEF e
    <3>2. Len(e) = 2 /\ e[1] = Backslash /\ e[2] = c
      BY <3>1
    <3>3. t[k] = Backslash /\ t[k + 1] = c
      <4>1. t[k + 1 - 1] = e[1] /\ t[k + 2 - 1] = e[2]
        BY <3>2 DEF e
      <4>2. QED BY <1>0, <3>2, <4>1
    <3>4. c # Letter_u
      BY <3>1, CodesAre DEF Letter_u, Quote, Backslash
    <3>5. ~\E d \in DOMAIN Short : Short[d] = c
      <4> HIDE DEF Short
      <4>1. QED BY <3>1, ShortIsNot
    <3>6. meant(t, k) = <<c>>
      <4> HIDE DEF Short
      <4>1. QED BY <3>3, <3>4, <3>5 DEF meant
    <3>7. width(t, k) = 2
      BY <3>3, <3>4 DEF width
    <3>8. QED BY <3>2, <3>6, <3>7
  <2>2. CASE is_control(c) /\ c \in DOMAIN Short
    <3> HIDE DEF Short
    <3>1. e = <<Backslash, Short[c]>>
      BY <2>2 DEF escaped
    <3> HIDE DEF e
    <3>2. Len(e) = 2 /\ e[1] = Backslash /\ e[2] = Short[c]
      BY <3>1
    <3>3. t[k] = Backslash /\ t[k + 1] = Short[c]
      <4>1. t[k + 1 - 1] = e[1] /\ t[k + 2 - 1] = e[2]
        BY <3>2 DEF e
      <4>2. QED BY <1>0, <3>2, <4>1
    <3>4. Short[c] # Letter_u /\ (CHOOSE d \in DOMAIN Short : Short[d] = Short[c]) = c
      BY <2>2, ShortRead
    <3>5. meant(t, k) = <<c>>
      <4>1. meant(t, k) = IF \E d \in DOMAIN Short : Short[d] = Short[c]
                          THEN <<CHOOSE d \in DOMAIN Short : Short[d] = Short[c]>>
                          ELSE <<Short[c]>>
        BY <3>3, <3>4 DEF meant
      <4>2. \E d \in DOMAIN Short : Short[d] = Short[c]
        BY <2>2
      <4>3. QED BY <3>4, <4>1, <4>2
    <3>6. width(t, k) = 2
      BY <3>3, <3>4 DEF width
    <3>7. QED BY <3>2, <3>5, <3>6
  <2>3. CASE is_control(c) /\ c \notin DOMAIN Short
    <3> HIDE DEF Short
    <3> DEFINE x == h(c \div 16)
               y == h(c % 16)
    <3>1. e = <<Backslash, Letter_u, Digit_0, Digit_0, x, y>>
      BY <2>3 DEF escaped
    <3>2. digit(x) = c \div 16 /\ digit(y) = c % 16
      BY HalvesAre, DigitsRead
    <3> HIDE DEF e, x, y
    <3>3. Len(e) = 6 /\ e[1] = Backslash /\ e[2] = Letter_u /\ e[5] = x /\ e[6] = y
      BY <3>1
    <3>4. t[k] = Backslash /\ t[k + 1] = Letter_u /\ t[k + 4] = x /\ t[k + 5] = y
      <4>1. t[k + 1 - 1] = e[1] /\ t[k + 2 - 1] = e[2] /\ t[k + 5 - 1] = e[5] /\ t[k + 6 - 1] = e[6]
        BY <3>3 DEF e
      <4>2. QED BY <1>0, <3>3, <4>1
    <3>5. digit(x) * 16 + digit(y) = c
      BY <3>2, <1>0
    <3>6. c < 128
      BY <1>0, <2>3 DEF is_control, Delete
    <3>7. meant(t, k) = <<c>>
      BY <3>4, <3>5, <3>6 DEF meant, Utf8
    <3>8. width(t, k) = 6
      BY <3>4 DEF width
    <3>9. QED BY <3>3, <3>7, <3>8
  <2>4. QED BY <2>1, <2>2, <2>3
<1>2. t[k] = Backslash
  <2>1. t[k + 1 - 1] = e[1]
    BY <1>1
  <2>2. QED BY <1>0, <1>1, <2>1
<1>3. At(t)[k] = Turn(t, At(t), k)
  BY <1>0, AtParts
<1>4. k # Len(t) /\ t[k] # Quote /\ ~(k + Len(e) > Len(t))
  BY <1>0, <1>1, <1>2, CodesAre
<1> HIDE DEF e
<1>5. Turn(t, At(t), k) = <<c>> \o At(t)[k + Len(e)]
  BY <1>1, <1>4 DEF Turn
<1>6. QED BY <1>3, <1>5 DEF e

-----------------------------------------------------------------------------
(* What has been written so far is read as the part of the string that has *)
(* been passed, whatever follows it.                                       *)

Reads(b, n) ==
    /\ b \in Seq(Byte) /\ Len(b) >= 1
    /\ \A u \in Seq(Byte) : u # << >> =>
          Unescaped(b \o u) = SubSeq(s, 1, n) \o At(b \o u)[Len(b) + 1]

ReadInv ==
    /\ Inv
    /\ pc = "begin" => l = 1
    /\ pc = "escape" => Reads(buffer_, l - 1)
    /\ ReadsAsWritten

\* The opening quote is passed over.
LEMMA QuoteReads ==
    Reads(<<Quote>>, 0)
<1>1. <<Quote>> \in Seq(Byte) /\ Len(<<Quote>>) = 1
  BY CodesAre
<1>2. ASSUME NEW u \in Seq(Byte), u # << >>
      PROVE  Unescaped(<<Quote>> \o u) = SubSeq(s, 1, 0) \o At(<<Quote>> \o u)[1 + 1]
  <2> DEFINE t == <<Quote>> \o u
             r == At(t)[2]
  <2>1. t \in Seq(Byte) /\ Len(t) = 1 + Len(u) /\ Len(u) \in Nat /\ Len(u) # 0
    BY <1>1, <1>2, ConcatProperties, EmptySeq
  <2> HIDE DEF t
  <2>2. Unescaped(t) = r /\ r \in Seq(Int)
    BY <2>1, AtParts, AtIsText
  <2>3. SubSeq(s, 1, 0) = << >>
    BY SubSeqEmpty
  <2> HIDE DEF r
  <2>4. << >> \o r = r
    BY <2>2, ConcatEmptySeq
  <2>5. QED BY <2>2, <2>3, <2>4 DEF r, t
<1>3. QED BY <1>1, <1>2 DEF Reads

\* A run adds itself.
LEMMA RunReads ==
    ASSUME TypeOK, RunPlain, NEW b, Reads(b, l - 1)
    PROVE  Reads(b \o run, p - 1)
<1>0. s \in Seq(Byte) /\ p \in 1..(Len(s) + 1) /\ l \in 1..p /\ Len(s) \in Nat
      /\ s \in Seq(Int)
  BY BytesAreNumbers DEF TypeOK
<1>1. /\ run \in Seq(Byte) /\ run \in Seq(Int) /\ Len(run) = p - l
      /\ \A i \in 1..Len(run) : run[i] = s[l + i - 1]
  <2>1. \A i \in l..(p - 1) : s[i] \in Byte
    <3>1. \A i \in l..(p - 1) : i \in 1..Len(s)
      BY <1>0
    <3>2. QED BY <1>0, <3>1, BytesAreNumbers
  <2>2. l \in Int /\ p - 1 \in Int /\ (p - 1) - l + 1 = p - l /\ (l <= p - 1 \/ p - l = 0)
    BY <1>0
  <2>3. /\ run \in Seq(Byte)
        /\ Len(run) = IF l <= p - 1 THEN (p - 1) - l + 1 ELSE 0
        /\ \A i \in 1..((p - 1) - l + 1) : run[i] = s[l + i - 1]
    BY <2>1, <2>2, SubSeqProperties DEF run
  <2>4. Len(run) = p - l
    BY <2>2, <2>3
  <2>5. QED BY <2>2, <2>3, <2>4, BytesAreNumbers
<1>2. \A i \in 1..Len(run) : run[i] # Quote /\ run[i] # Backslash
  <2>1. TAKE i \in 1..Len(run)
  <2>2. Len(run) = p - l /\ l \in Int /\ p \in Int
    BY <1>0, <1>1
  <2> HIDE DEF run
  <2>3. l + i - 1 \in l..(p - 1)
    BY <2>2
  <2>4. QED BY <1>1, <2>3 DEF RunPlain, is_special
<1>3. b \in Seq(Byte) /\ Len(b) \in Nat /\ Len(b) >= 1
  BY BytesAreNumbers DEF Reads
<1>4. b \o run \in Seq(Byte) /\ Len(b \o run) = Len(b) + Len(run) /\ Len(run) \in Nat
  BY <1>1, <1>3, ConcatProperties, BytesAreNumbers
<1>5. SubSeq(s, 1, p - 1) = SubSeq(s, 1, l - 1) \o run
      /\ SubSeq(s, 1, l - 1) \in Seq(Int)
  <2>1. 1 \in 1..(Len(s) + 1) /\ l - 1 \in 0..Len(s) /\ p - 1 \in (l - 1)..Len(s) /\ (l - 1) + 1 = l
    BY <1>0
  <2>2. SubSeq(s, 1, l - 1) \o SubSeq(s, l, p - 1) = SubSeq(s, 1, p - 1)
    BY <1>0, <2>1, SMT
  <2>3. \A i \in 1..(l - 1) : s[i] \in Int
    <3>1. \A i \in 1..(l - 1) : i \in 1..Len(s)
      BY <1>0
    <3>2. QED BY <1>0, <3>1, BytesAreNumbers
  <2>4. SubSeq(s, 1, l - 1) \in Seq(Int)
    BY <2>1, <2>3, SubSeqProperties
  <2>5. QED BY <2>2, <2>4 DEF run
<1> HIDE DEF run
<1>6. ASSUME NEW u \in Seq(Byte), u # << >>
      PROVE  Unescaped((b \o run) \o u) = SubSeq(s, 1, p - 1) \o At((b \o run) \o u)[Len(b \o run) + 1]
  <2> DEFINE t == (b \o run) \o u
             k == Len(b) + 1
             m == Len(run)
             r == At(t)[k + m]
             v == SubSeq(s, 1, l - 1)
  <2>1. /\ t \in Seq(Byte) /\ Len(t) = Len(b) + Len(run) + Len(u)
        /\ Len(u) \in Nat /\ Len(u) # 0 /\ Len(t) \in Nat
        /\ run \o u \in Seq(Byte) /\ Len(run \o u) = Len(run) + Len(u)
        /\ \A i \in 1..Len(run) : (b \o run)[Len(b) + i] = run[i]
        /\ \A i \in 1..Len(b \o run) : t[i] = (b \o run)[i]
    <3>1. Len(u) \in Nat /\ Len(u) # 0
      BY <1>6, BytesAreNumbers, EmptySeq
    <3>2. /\ t \in Seq(Byte) /\ Len(t) = Len(b \o run) + Len(u)
          /\ \A i \in 1..Len(b \o run) + Len(u) :
                t[i] = IF i <= Len(b \o run) THEN (b \o run)[i] ELSE u[i - Len(b \o run)]
      BY <1>4, ConcatProperties
    <3>3. run \o u \in Seq(Byte) /\ Len(run \o u) = Len(run) + Len(u)
      BY <1>1, ConcatProperties
    <3>4. \A i \in 1..Len(b) + Len(run) :
            (b \o run)[i] = IF i <= Len(b) THEN b[i] ELSE run[i - Len(b)]
      BY <1>1, <1>3, ConcatProperties
    <3>5. \A i \in 1..Len(run) : (b \o run)[Len(b) + i] = run[i]
      <4>1. \A i \in 1..Len(run) : /\ Len(b) + i \in 1..Len(b) + Len(run)
                                  /\ ~(Len(b) + i <= Len(b)) /\ (Len(b) + i) - Len(b) = i
        BY <1>3, <1>4
      <4>2. QED BY <3>4, <4>1
    <3> HIDE DEF t
    <3>6. \A i \in 1..Len(b \o run) : t[i] = (b \o run)[i]
      BY <1>3, <1>4, <3>1, <3>2
    <3>7. QED BY <1>3, <1>4, <3>1, <3>2, <3>3, <3>5, <3>6
  <2>2. t = b \o (run \o u)
    BY <1>1, <1>3, <1>6, Together, BytesAreNumbers
  <2>3. run \o u # << >>
    BY <1>4, <2>1, EmptySeq
  <2>4. Unescaped(t) = v \o At(t)[k]
    BY <2>1, <2>2, <2>3 DEF Reads
  <2>5. k \in 2..Len(t) /\ m \in Nat /\ k + m <= Len(t) /\ k + m \in 2..Len(t) /\ Len(t) >= 2
        /\ k + m - 1 = Len(b) + m
    BY <1>3, <1>4, <2>1
  <2>6. \A i \in 1..m : t[Len(b) + i] = run[i]
    <3>1. TAKE i \in 1..m
    <3>2. Len(b) + i \in 1..Len(b \o run)
      BY <1>3, <1>4
    <3>3. QED BY <2>1, <3>2
  <2>7. \A i \in k..(k + m - 1) : t[i] # Quote /\ t[i] # Backslash
    <3>1. TAKE i \in k..(k + m - 1)
    <3>2. i - Len(b) \in 1..m /\ Len(b) + (i - Len(b)) = i
      BY <1>3, <2>5
    <3>3. t[i] = run[i - Len(b)]
      BY <2>6, <3>2
    <3>4. QED BY <1>2, <3>2, <3>3
  <2> HIDE DEF t, k, m
  <2>8. At(t)[k] = SubSeq(t, k, k + m - 1) \o r
    BY <2>1, <2>5, <2>7, RunRead
  <2>9. r \in Seq(Int)
    BY <2>1, <2>5, AtIsText
  <2>10. SubSeq(t, k, k + m - 1) = run
    <3>1. \A i \in k..(k + m - 1) : t[i] \in Byte
      <4>1. \A i \in k..(k + m - 1) : i \in 1..Len(t)
        BY <2>1, <2>5
      <4>2. QED BY <2>1, <4>1, BytesAreNumbers
    <3>2. k \in Int /\ k + m - 1 \in Int /\ (k + m - 1) - k + 1 = m /\ (k <= k + m - 1 \/ m = 0)
      BY <2>5
    <3> DEFINE w == SubSeq(t, k, k + m - 1)
    <3>3. w \in Seq(Byte) /\ Len(w) = m /\ \A i \in 1..m : w[i] = t[k + i - 1]
      <4>1. w \in Seq(Byte) /\ Len(w) = (IF k <= k + m - 1 THEN (k + m - 1) - k + 1 ELSE 0)
            /\ \A i \in 1..((k + m - 1) - k + 1) : w[i] = t[k + i - 1]
        BY <3>1, <3>2, SubSeqProperties
      <4> HIDE DEF w
      <4>2. QED BY <3>2, <4>1
    <3> HIDE DEF w
    <3>4. \A i \in 1..m : w[i] = run[i]
      <4>1. \A i \in 1..m : k + i - 1 = Len(b) + i
        BY <1>3, <2>5 DEF k
      <4>2. QED BY <2>6, <3>3, <4>1
    <3>5. w = run
      BY <1>1, <3>3, <3>4, SeqEqual DEF m
    <3>6. QED BY <3>5 DEF w
  <2> HIDE DEF r, v
  <2>11. v \o (run \o r) = (v \o run) \o r
    BY <1>1, <1>5, <2>9, Together DEF v
  <2>12. Unescaped(t) = SubSeq(s, 1, p - 1) \o r
    BY <1>5, <2>4, <2>8, <2>10, <2>11 DEF v
  <2>13. k + m = Len(b \o run) + 1
    BY <1>3, <1>4 DEF k, m
  <2>14. QED BY <2>12, <2>13 DEF r, t
<1> DEFINE b2 == b \o run
<1>7. b2 \in Seq(Byte) /\ Len(b2) >= 1
  BY <1>3, <1>4
<1>8. \A u \in Seq(Byte) : u # << >> =>
         Unescaped(b2 \o u) = SubSeq(s, 1, p - 1) \o At(b2 \o u)[Len(b2) + 1]
  BY <1>6
<1> HIDE DEF b2
<1>9. Reads(b2, p - 1)
  BY <1>7, <1>8 DEF Reads
<1>10. QED BY <1>9 DEF b2

\* An escape adds the character it stands for.
LEMMA EscapeReads ==
    ASSUME s \in Seq(Byte), p \in 1..Len(s), is_special(s[p]),
           NEW b, Reads(b, p - 1)
    PROVE  Reads(b \o escaped(s[p]), p)
<1> DEFINE c == s[p]
           e == escaped(c)
           v == SubSeq(s, 1, p - 1)
<1>1. c \in Byte /\ c \in Int /\ s \in Seq(Int) /\ Len(s) \in Nat
  BY BytesAreNumbers
<1>2. e \in Seq(Byte)
  BY <1>1, EscapedIsClean
<1>3. b \in Seq(Byte) /\ Len(b) \in Nat /\ Len(b) >= 1
  BY BytesAreNumbers DEF Reads
<1>4. SubSeq(s, 1, p) = v \o <<c>> /\ v \in Seq(Int)
  <2>1. 1 \in 1..Len(s) /\ p \in 1..Len(s) /\ p - 1 \in Int
    BY <1>1
  <2>2. \A i \in 1..(p - 1) : s[i] \in Int
    <3>1. \A i \in 1..(p - 1) : i \in 1..Len(s)
      BY <1>1
    <3>2. QED BY <3>1, BytesAreNumbers
  <2>3. v \in Seq(Int)
    BY <2>1, <2>2, SubSeqProperties
  <2>4. SubSeq(s, 1, p) = v \o <<c>>
    BY <1>1, <2>1, SubSeqRecursiveSecond
  <2>5. QED BY <2>3, <2>4
<1> HIDE DEF e, c, v
<1>5. b \o e \in Seq(Byte) /\ Len(b \o e) = Len(b) + Len(e) /\ Len(e) \in Nat
  BY <1>2, <1>3, ConcatProperties, BytesAreNumbers
<1>6. ASSUME NEW u \in Seq(Byte), u # << >>
      PROVE  Unescaped((b \o e) \o u) = SubSeq(s, 1, p) \o At((b \o e) \o u)[Len(b \o e) + 1]
  <2> DEFINE t == (b \o e) \o u
             k == Len(b) + 1
             r == At(t)[k + Len(e)]
  <2>1. Len(u) \in Nat /\ Len(u) # 0
    BY <1>6, BytesAreNumbers, EmptySeq
  <2>2. t = b \o (e \o u)
    BY <1>2, <1>3, <1>6, Together, BytesAreNumbers
  <2>3. e \o u \in Seq(Byte) /\ Len(e \o u) = Len(e) + Len(u)
        /\ \A i \in 1..Len(e) + Len(u) : (e \o u)[i] = IF i <= Len(e) THEN e[i] ELSE u[i - Len(e)]
    BY <1>2, <1>6, ConcatProperties
  <2>4. e \o u # << >>
    BY <1>5, <2>1, <2>3, EmptySeq
  <2>5. /\ t \in Seq(Byte) /\ Len(t) = Len(b) + Len(e \o u)
        /\ \A i \in 1..Len(b) + Len(e \o u) :
              t[i] = IF i <= Len(b) THEN b[i] ELSE (e \o u)[i - Len(b)]
    BY <1>3, <2>2, <2>3, ConcatProperties
  <2>6. Unescaped(t) = v \o At(t)[k]
    BY <2>2, <2>3, <2>4 DEF Reads, v
  <2> HIDE DEF t, k
  <2>7. k \in 2..Len(t) /\ k + Len(e) <= Len(t) /\ k + Len(e) \in 2..Len(t) /\ Len(t) >= 2
    BY <1>3, <1>5, <2>1, <2>3, <2>5 DEF k
  <2>8. \A i \in 1..Len(e) : t[k + i - 1] = e[i]
    <3>1. TAKE i \in 1..Len(e)
    <3>2. k + i - 1 \in 1..Len(b) + Len(e \o u) /\ ~(k + i - 1 <= Len(b))
          /\ (k + i - 1) - Len(b) = i /\ i \in 1..Len(e) + Len(u) /\ i <= Len(e)
      BY <1>3, <1>5, <2>1, <2>3 DEF k
    <3>3. QED BY <2>3, <2>5, <3>2
  <2>9. At(t)[k] = <<c>> \o r
    BY <1>1, <2>5, <2>7, <2>8, EscapeRead DEF c, e
  <2>10. r \in Seq(Int)
    BY <2>5, <2>7, AtIsText
  <2>11. <<c>> \in Seq(Int)
    BY <1>1
  <2> HIDE DEF r
  <2>12. v \o (<<c>> \o r) = (v \o <<c>>) \o r
    BY <1>4, <2>10, <2>11, Together
  <2>13. Unescaped(t) = SubSeq(s, 1, p) \o r
    BY <1>4, <2>6, <2>9, <2>12
  <2>14. k + Len(e) = Len(b \o e) + 1
    BY <1>3, <1>5 DEF k
  <2>15. QED BY <2>13, <2>14 DEF r, t
<1> DEFINE b2 == b \o e
<1>7. b2 \in Seq(Byte) /\ Len(b2) >= 1
  BY <1>3, <1>5
<1>8. \A u \in Seq(Byte) : u # << >> =>
         Unescaped(b2 \o u) = SubSeq(s, 1, p) \o At(b2 \o u)[Len(b2) + 1]
  BY <1>6
<1> HIDE DEF b2
<1>9. Reads(b2, p)
  BY <1>7, <1>8 DEF Reads
<1>10. QED BY <1>9 DEF b2, e, c

\* The closing quote ends it.
LEMMA QuoteEnds ==
    ASSUME s \in Seq(Byte), NEW b, Reads(b, Len(s))
    PROVE  Unescaped(b \o <<Quote>>) = s
<1> DEFINE t == b \o <<Quote>>
<1>1. <<Quote>> \in Seq(Byte) /\ Len(<<Quote>>) = 1 /\ <<Quote>>[1] = Quote /\ <<Quote>> # << >>
  BY CodesAre
<1>2. b \in Seq(Byte) /\ Len(b) \in Nat /\ Len(b) >= 1 /\ s \in Seq(Int)
  BY BytesAreNumbers DEF Reads
<1>3. /\ t \in Seq(Byte) /\ Len(t) = Len(b) + 1
      /\ \A i \in 1..Len(b) + 1 : t[i] = IF i <= Len(b) THEN b[i] ELSE <<Quote>>[i - Len(b)]
  BY <1>1, <1>2, ConcatProperties
<1>4. Unescaped(t) = SubSeq(s, 1, Len(s)) \o At(t)[Len(b) + 1]
  BY <1>1 DEF Reads
<1> HIDE DEF t
<1>5. t[Len(t)] = Quote /\ Len(t) \in 2..Len(t) /\ Len(t) >= 2
  <2>1. Len(b) + 1 \in 1..Len(b) + 1 /\ ~(Len(b) + 1 <= Len(b)) /\ (Len(b) + 1) - Len(b) = 1
    BY <1>2
  <2>2. QED BY <1>1, <1>2, <1>3, <2>1
<1>6. At(t)[Len(t)] = Turn(t, At(t), Len(t))
  BY <1>3, <1>5, AtParts
<1>7. At(t)[Len(t)] = << >>
  BY <1>5, <1>6 DEF Turn
<1>8. SubSeq(s, 1, Len(s)) = s
  BY SubSeqFull
<1>9. s \o << >> = s
  BY <1>2, ConcatEmptySeq
<1>10. QED BY <1>3, <1>4, <1>7, <1>8, <1>9 DEF t

LEMMA BeginKeepsReadInv == ReadInv /\ Begin => ReadInv'
<1> SUFFICES ASSUME ReadInv, Begin PROVE ReadInv'
  OBVIOUS
<1>1. Inv'
  BY BeginKeepsInv DEF ReadInv
<1>2. pc' = "escape" /\ buffer_' = <<Quote>> /\ l' = 1 /\ s' = s
  BY DEF ReadInv, Begin
<1>3. Reads(<<Quote>>, l' - 1)
  BY <1>2, QuoteReads
<1>4. Reads(buffer_, l - 1)'
  BY <1>2, <1>3 DEF Reads
<1>5. QED BY <1>1, <1>2, <1>4 DEF ReadInv, ReadsAsWritten

LEMMA KeepKeepsReadInv == ReadInv /\ Keep => ReadInv'
<1> SUFFICES ASSUME ReadInv, Keep PROVE ReadInv'
  OBVIOUS
<1>1. Inv'
  BY KeepKeepsInv DEF ReadInv
<1>2. pc = "escape" /\ UNCHANGED <<pc, buffer_, l, s>>
  BY DEF Keep
<1>3. QED BY <1>1, <1>2 DEF ReadInv, ReadsAsWritten, Reads

LEMMA EscapeKeepsReadInv == ReadInv /\ Escape => ReadInv'
<1> SUFFICES ASSUME ReadInv, Escape PROVE ReadInv'
  OBVIOUS
<1>1. Inv'
  BY EscapeKeepsInv DEF ReadInv
<1>2. /\ pc = "escape" /\ pc' = "escape" /\ s' = s /\ is_special(s[p])
      /\ buffer_' = (buffer_ \o run) \o escaped(s[p]) /\ l' = p + 1 /\ p <= Len(s)
  BY DEF Escape
<1>3. Inv /\ Reads(buffer_, l - 1)
  BY <1>2 DEF ReadInv
<1>4. Reads(buffer_ \o run, p - 1)
  BY <1>3, RunReads DEF Inv
<1>5. s \in Seq(Byte) /\ Len(s) \in Nat /\ p \in 1..Len(s) /\ (p + 1) - 1 = p
  BY <1>2, <1>3, SMT DEF Inv, TypeOK
<1>6. Reads(buffer_', p)
  BY <1>2, <1>4, <1>5, EscapeReads
<1>7. Reads(buffer_, l - 1)'
  BY <1>2, <1>5, <1>6 DEF Reads
<1>8. QED BY <1>1, <1>2, <1>7 DEF ReadInv, ReadsAsWritten

LEMMA FinishKeepsReadInv == ReadInv /\ Finish => ReadInv'
<1> SUFFICES ASSUME ReadInv, Finish PROVE ReadInv'
  OBVIOUS
<1>1. Inv'
  BY FinishKeepsInv DEF ReadInv
<1>2. /\ pc = "escape" /\ pc' = "done" /\ s' = s /\ p > Len(s)
      /\ buffer_' = (buffer_ \o run) \o <<Quote>>
  BY DEF Finish
<1>3. Inv /\ Reads(buffer_, l - 1)
  BY <1>2 DEF ReadInv
<1>4. Reads(buffer_ \o run, p - 1)
  BY <1>3, RunReads DEF Inv
<1>5. s \in Seq(Byte) /\ p - 1 = Len(s)
  BY <1>2, <1>3, SMT DEF Inv, TypeOK
<1>6. Unescaped(buffer_') = s
  BY <1>2, <1>4, <1>5, QuoteEnds
<1>7. QED BY <1>1, <1>2, <1>6 DEF ReadInv, ReadsAsWritten

\* For every string of bytes: what to_byte_vector::string and escape write
\* (src/utils/json.cxx) is read as the string it was written from, wherever its
\* special characters lie and however many there are: nothing is lost or doubled
\* where a run ends, and no escape stands for another character.
THEOREM AlwaysReadsAsWritten == Spec => []ReadsAsWritten
<1>1. Init => ReadInv
  <2>1. Init => Inv
    BY InitInv
  <2>2. QED BY <2>1 DEF Init, ReadInv, ReadsAsWritten
<1>2. ReadInv /\ UNCHANGED vars => ReadInv'
  <2>1. Inv /\ UNCHANGED vars => Inv'
    BY DEF Inv, vars, TypeOK, RunPlain, Guarded, NothingBare, run
  <2>2. QED BY <2>1 DEF ReadInv, vars, Reads, ReadsAsWritten
<1>3. ReadInv /\ [Next]_vars => ReadInv'
  BY <1>2, BeginKeepsReadInv, KeepKeepsReadInv, EscapeKeepsReadInv, FinishKeepsReadInv DEF Next
<1>4. ReadInv => ReadsAsWritten
  BY DEF ReadInv
<1>5. QED BY <1>1, <1>3, <1>4, PTL DEF Spec
=============================================================================
