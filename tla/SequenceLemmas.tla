--------------------------- MODULE SequenceLemmas ---------------------------
(***************************************************************************)
(* What the proofs need to know of sequences: which elements they have,    *)
(* where, and whether they have them once.                                 *)
(***************************************************************************)
EXTENDS Selection, SequencesExt, FiniteSetTheorems, SequenceTheorems, WellFoundedInduction, TLAPS

-----------------------------------------------------------------------------
(* Sequences with one more, one less or another element.                   *)

\* What is appended to a sequence, whatever it holds.
LEMMA AppendedStay ==
  ASSUME NEW s, s \in Seq(ToSet(s)), NEW e
  PROVE  /\ Append(s, e) \in Seq(ToSet(Append(s, e))) /\ Len(s) \in Nat /\ DOMAIN s = 1..Len(s)
         /\ Len(Append(s, e)) = Len(s) + 1 /\ DOMAIN Append(s, e) = 1..(Len(s) + 1)
         /\ Append(s, e)[Len(s) + 1] = e /\ \A i \in 1..Len(s) : Append(s, e)[i] = s[i]
<1> DEFINE S == ToSet(s) \cup {e}
           t == Append(s, e)
<1>1. s \in Seq(S) /\ e \in S
  <2>1. Len(s) \in Nat /\ DOMAIN s = 1..Len(s) /\ s = [i \in 1..Len(s) |-> s[i]]
    OBVIOUS
  <2>2. \A i \in 1..Len(s) : s[i] \in S
    BY <2>1 DEF ToSet
  <2> QED BY <2>1, <2>2
<1> HIDE DEF S
<1>2. /\ t \in Seq(S) /\ Len(s) \in Nat /\ DOMAIN s = 1..Len(s) /\ Len(t) = Len(s) + 1
      /\ DOMAIN t = 1..(Len(s) + 1) /\ t[Len(s) + 1] = e /\ \A i \in 1..Len(s) : t[i] = s[i]
  BY <1>1
<1> HIDE DEF t
<1>3. t \in Seq(ToSet(t))
  <2>1. t = [i \in 1..Len(t) |-> t[i]] /\ Len(t) \in Nat
    BY <1>2
  <2>2. \A i \in 1..Len(t) : t[i] \in ToSet(t)
    BY <1>2 DEF ToSet
  <2> QED BY <2>1, <2>2
<1> QED BY <1>2, <1>3 DEF t

\* What is appended is the last element, and moves no other.
LEMMA AppendsOne ==
  ASSUME NEW S, NEW s \in Seq(S), NEW e \in S
  PROVE  /\ Append(s, e) \in Seq(S) /\ Len(s) \in Nat /\ DOMAIN s = 1..Len(s)
         /\ DOMAIN Append(s, e) = 1..(Len(s) + 1) /\ Len(s) + 1 \notin DOMAIN s
         /\ Append(s, e)[Len(s) + 1] = e
         /\ \A i \in DOMAIN s : i \in DOMAIN Append(s, e) /\ Append(s, e)[i] = s[i]
         /\ \A i \in DOMAIN Append(s, e) : i \in DOMAIN s \/ i = Len(s) + 1
OBVIOUS

\* What a sequence has when an element is appended to it.
LEMMA AppendAdds ==
  ASSUME NEW S, NEW s \in Seq(S), NEW e \in S
  PROVE  /\ Append(s, e) \in Seq(S) /\ ToSet(Append(s, e)) = ToSet(s) \cup {e}
         /\ IsInjective(s) /\ e \notin ToSet(s) => IsInjective(Append(s, e))
<1> DEFINE t == Append(s, e)
<1>1. /\ t \in Seq(S) /\ DOMAIN s = 1..Len(s) /\ Len(s) + 1 \in DOMAIN t /\ t[Len(s) + 1] = e
      /\ \A i \in DOMAIN s : i \in DOMAIN t /\ t[i] = s[i]
      /\ \A i \in DOMAIN t : i \in DOMAIN s \/ i = Len(s) + 1
  BY AppendsOne
<1> HIDE DEF t
<1>2. ToSet(t) = ToSet(s) \cup {e}
  BY <1>1 DEF ToSet
<1>3. IsInjective(s) /\ e \notin ToSet(s) => IsInjective(t)
  BY <1>1 DEF ToSet, IsInjective
<1> QED BY <1>1, <1>2, <1>3 DEF t

\* A sequence of one element, and another one.
LEMMA SecondIsAppended ==
  ASSUME NEW a, NEW b
  PROVE  Append(<<a>>, b) = <<a, b>>
<1> DEFINE S == {a, b}
           one == <<a>>
           two == <<a, b>>
<1>1. one \in Seq(S) /\ Len(one) = 1 /\ one[1] = a /\ two \in Seq(S) /\ Len(two) = 2 /\ two[1] = a /\ two[2] = b /\ b \in S
  OBVIOUS
<1> HIDE DEF S, one, two
<1>2. Append(one, b) \in Seq(S) /\ Len(Append(one, b)) = Len(one) + 1 /\ Append(one, b)[Len(one) + 1] = b
  BY <1>1, AppendProperties
<1>3. \A i \in 1..Len(one) : Append(one, b)[i] = one[i]
  BY <1>1, AppendProperties
<1>4. Len(Append(one, b)) = 2 /\ Append(one, b)[1] = a /\ Append(one, b)[2] = b
  BY <1>1, <1>2, <1>3
<1>5. \A i \in 1..Len(two) : Append(one, b)[i] = two[i]
  <2>1. \A i \in 1..2 : i = 1 \/ i = 2
    OBVIOUS
  <2> QED BY <2>1, <1>1, <1>4
<1>6. Append(one, b) = two
  BY <1>1, <1>2, <1>4, <1>5, SeqEqual
<1> QED BY <1>6 DEF one, two

\* What is left without the last element.
LEMMA DropsLast ==
  ASSUME NEW S, NEW s \in Seq(S), s # <<>>
  PROVE  /\ Front(s) \in Seq(S) /\ DOMAIN Front(s) = DOMAIN s \ {Len(s)}
         /\ Len(s) \in DOMAIN s /\ Last(s) = s[Len(s)] /\ s[Len(s)] \in S
         /\ \A i \in DOMAIN Front(s) : Front(s)[i] = s[i]
<1>1. Len(s) \in Nat \ {0} /\ DOMAIN s = 1..Len(s)
  OBVIOUS
<1>2. /\ Front(s) \in Seq(S) /\ Len(Front(s)) = Len(s) - 1
      /\ \A i \in 1..(Len(s) - 1) : Front(s)[i] = s[i]
  BY <1>1 DEF Front
<1>3. DOMAIN Front(s) = 1..(Len(s) - 1)
  BY <1>1, <1>2
<1>4. 1..(Len(s) - 1) = 1..Len(s) \ {Len(s)}
  BY <1>1
<1> QED BY <1>1, <1>2, <1>3, <1>4 DEF Last

\* The head of a queue and those behind it.
LEMMA HeadAndTail ==
  ASSUME NEW S, NEW s \in Seq(S), s # <<>>
  PROVE  /\ Head(s) \in S /\ Tail(s) \in Seq(S) /\ ToSet(s) = ToSet(Tail(s)) \cup {Head(s)}
         /\ IsInjective(s) => IsInjective(Tail(s)) /\ Head(s) \notin ToSet(Tail(s))
<1>1. /\ Len(s) \in Nat /\ DOMAIN s = 1..Len(s) /\ 1 \in DOMAIN s /\ Head(s) = s[1] /\ s[1] \in S
      /\ Tail(s) \in Seq(S) /\ DOMAIN Tail(s) = 1..(Len(s) - 1) /\ \A i \in 1..(Len(s) - 1) : Tail(s)[i] = s[i + 1]
  OBVIOUS
<1>2. ToSet(s) = ToSet(Tail(s)) \cup {Head(s)}
  <2>1. ASSUME NEW i \in DOMAIN s PROVE s[i] \in ToSet(Tail(s)) \cup {Head(s)}
    <3>1. CASE i = 1
      BY <1>1, <3>1
    <3>2. CASE i # 1
      <4>1. i - 1 \in DOMAIN Tail(s) /\ Tail(s)[i - 1] = s[i]
        BY <1>1, <3>2
      <4> QED BY <4>1 DEF ToSet
    <3> QED BY <3>1, <3>2
  <2>2. ASSUME NEW i \in DOMAIN Tail(s) PROVE Tail(s)[i] \in ToSet(s)
    <3>1. i + 1 \in DOMAIN s /\ Tail(s)[i] = s[i + 1]
      BY <1>1
    <3> QED BY <3>1 DEF ToSet
  <2>3. Head(s) \in ToSet(s)
    BY <1>1 DEF ToSet
  <2> QED BY <2>1, <2>2, <2>3 DEF ToSet
<1>3. ASSUME IsInjective(s) PROVE IsInjective(Tail(s)) /\ Head(s) \notin ToSet(Tail(s))
  <2>1. \A a, b \in DOMAIN s : s[a] = s[b] => a = b
    BY <1>3 DEF IsInjective
  <2>2. \A i \in DOMAIN Tail(s) : i \in Nat /\ i >= 1 /\ i + 1 \in DOMAIN s /\ Tail(s)[i] = s[i + 1] /\ i + 1 # 1
    BY <1>1
  <2>3. \A a, b \in DOMAIN Tail(s) : Tail(s)[a] = Tail(s)[b] => a + 1 = b + 1
    BY <2>1, <2>2
  <2>4. \A a, b \in DOMAIN Tail(s) : Tail(s)[a] = Tail(s)[b] => a = b
    BY <2>2, <2>3
  <2>5. \A a \in DOMAIN Tail(s) : Tail(s)[a] # Head(s)
    BY <1>1, <2>1, <2>2
  <2> QED BY <2>4, <2>5 DEF IsInjective, ToSet
<1> QED BY <1>1, <1>2, <1>3

\* What is replaced is where it was.
LEMMA ReplacesOne ==
  ASSUME NEW S, NEW s \in Seq(S), NEW n \in DOMAIN s, NEW e \in S
  PROVE  /\ [s EXCEPT ![n] = e] \in Seq(S) /\ DOMAIN [s EXCEPT ![n] = e] = DOMAIN s
         /\ [s EXCEPT ![n] = e][n] = e
         /\ \A i \in DOMAIN s : i # n => [s EXCEPT ![n] = e][i] = s[i]
<1>1. PICK k \in Nat : s \in [1..k -> S]
  OBVIOUS
<1>2. [s EXCEPT ![n] = e] \in [1..k -> S]
  BY <1>1
<1>3. [s EXCEPT ![n] = e] \in Seq(S)
  BY <1>2
<1> QED BY <1>1, <1>3

-----------------------------------------------------------------------------
(* Parts of sequences, and sequences after one another.                    *)

\* The beginning of a sequence.
LEMMA SubSeqBegins ==
  ASSUME NEW S, NEW s \in Seq(S), NEW n \in 0..Len(s)
  PROVE  /\ SubSeq(s, 1, n) \in Seq(S) /\ Len(SubSeq(s, 1, n)) = n
         /\ \A i \in 1..n : SubSeq(s, 1, n)[i] = s[i]
         /\ SubSeq(s, 1, Len(s)) = s /\ SubSeq(s, 1, 0) = <<>>
         /\ SubSeq(s, n + 1, Len(s)) \in Seq(S) /\ Len(SubSeq(s, n + 1, Len(s))) = Len(s) - n
         /\ SubSeq(s, 1, n) \o SubSeq(s, n + 1, Len(s)) = s
<1>1. /\ SubSeq(s, 1, n) \in Seq(S) /\ Len(SubSeq(s, 1, n)) = n
      /\ \A i \in 1..n : SubSeq(s, 1, n)[i] = s[i]
  BY SubSeqProperties
<1>2. SubSeq(s, 1, Len(s)) = s /\ SubSeq(s, 1, 0) = <<>>
  BY SubSeqFull, SubSeqEmpty
<1>3. SubSeq(s, n + 1, Len(s)) \in Seq(S) /\ Len(SubSeq(s, n + 1, Len(s))) = Len(s) - n
  BY SubSeqProperties
<1>4. SubSeq(s, 1, n) \o SubSeq(s, n + 1, Len(s)) = s
  <2>1. Len(s) \in Nat /\ 1 \in 1..(Len(s) + 1) /\ n \in (1 - 1)..Len(s) /\ Len(s) \in n..Len(s)
    OBVIOUS
  <2>2. SubSeq(s, 1, n) \o SubSeq(s, n + 1, Len(s)) = SubSeq(s, 1, Len(s))
    BY <2>1, ConcatAdjacentSubSeq
  <2> QED BY <1>2, <2>2
<1> QED BY <1>1, <1>2, <1>3, <1>4

\* The beginning of a sequence is there when the sequence is longer.
LEMMA SubSeqOfAppend ==
  ASSUME NEW S, NEW s \in Seq(S), NEW x \in S, NEW n \in 0..Len(s)
  PROVE  SubSeq(Append(s, x), 1, n) = SubSeq(s, 1, n)
<1>1. /\ Append(s, x) \in Seq(S) /\ Len(Append(s, x)) = Len(s) + 1 /\ Len(s) \in Nat
      /\ \A i \in 1..Len(s) : Append(s, x)[i] = s[i]
  OBVIOUS
<1>2. n \in 0..Len(Append(s, x))
  BY <1>1
<1>3. /\ SubSeq(Append(s, x), 1, n) \in Seq(S) /\ Len(SubSeq(Append(s, x), 1, n)) = n
      /\ \A i \in 1..n : SubSeq(Append(s, x), 1, n)[i] = Append(s, x)[i]
  BY <1>1, <1>2, SubSeqBegins
<1>4. /\ SubSeq(s, 1, n) \in Seq(S) /\ Len(SubSeq(s, 1, n)) = n
      /\ \A i \in 1..n : SubSeq(s, 1, n)[i] = s[i]
  BY SubSeqBegins
<1> QED BY <1>1, <1>3, <1>4, SeqEqual

Begins(s, t) == Len(s) <= Len(t) /\ \A i \in 1..Len(s) : s[i] = t[i]

\* A sequence that another one begins with, by its elements.
LEMMA BeginsIsPrefix ==
  ASSUME NEW S, NEW s \in Seq(S), NEW t \in Seq(S)
  PROVE  Begins(s, t) <=> IsPrefix(s, t)
<1>1. Len(s) \in Nat /\ Len(t) \in Nat
  OBVIOUS
<1> DEFINE a == SubSeq(s, 1, Len(s))
           b == SubSeq(t, 1, Len(s))
<1>2. a \in Seq(S) /\ Len(a) = Len(s) /\ \A i \in 1..Len(s) : a[i] = s[i]
  BY <1>1
<1>3. Len(s) <= Len(t) => b \in Seq(S) /\ Len(b) = Len(s) /\ \A i \in 1..Len(s) : b[i] = t[i]
  BY <1>1
<1>4. IsPrefix(s, t) <=> Len(s) <= Len(t) /\ a = b
  BY DEF IsPrefix
<1> HIDE DEF a, b
<1>5. ASSUME Begins(s, t) PROVE a = b
  <2>1. b \in Seq(S) /\ Len(b) = Len(a) /\ \A i \in 1..Len(a) : a[i] = b[i]
    BY <1>2, <1>3, <1>5 DEF Begins
  <2> QED BY <1>2, <2>1, SeqEqual
<1>6. ASSUME Len(s) <= Len(t), a = b PROVE Begins(s, t)
  BY <1>2, <1>3, <1>6 DEF Begins
<1> QED BY <1>4, <1>5, <1>6 DEF Begins

\* A sequence begins with a longer one if it goes on with the element that is appended.
LEMMA AppendIsPrefix ==
  ASSUME NEW S, NEW s \in Seq(S), NEW t \in Seq(S), NEW e \in S
  PROVE  IsPrefix(Append(s, e), t) <=> Len(s) < Len(t) /\ IsPrefix(s, t) /\ t[Len(s) + 1] = e
<1> DEFINE longer == Append(s, e)
<1>1. Len(s) \in Nat /\ Len(t) \in Nat
  OBVIOUS
<1>2. /\ longer \in Seq(S) /\ Len(longer) = Len(s) + 1 /\ longer[Len(s) + 1] = e
      /\ \A i \in 1..Len(s) : longer[i] = s[i]
  BY AppendProperties
<1> HIDE DEF longer
<1>3. ASSUME Begins(longer, t) PROVE Len(s) < Len(t) /\ Begins(s, t) /\ t[Len(s) + 1] = e
  <2>1. \A i \in 1..(Len(s) + 1) : longer[i] = t[i]
    BY <1>2, <1>3 DEF Begins
  <2>2. Len(s) + 1 <= Len(t)
    BY <1>2, <1>3 DEF Begins
  <2> QED BY <1>1, <1>2, <2>1, <2>2 DEF Begins
<1>4. ASSUME Len(s) < Len(t), Begins(s, t), t[Len(s) + 1] = e PROVE Begins(longer, t)
  <2>1. ASSUME NEW i \in 1..(Len(s) + 1) PROVE longer[i] = t[i]
    <3>1. i \in 1..Len(s) \/ i = Len(s) + 1
      BY <1>1
    <3> QED BY <1>2, <1>4, <3>1 DEF Begins
  <2> QED BY <1>1, <1>2, <1>4, <2>1 DEF Begins
<1>5. (IsPrefix(longer, t) <=> Begins(longer, t)) /\ (IsPrefix(s, t) <=> Begins(s, t))
  BY <1>2, BeginsIsPrefix
<1> QED BY <1>3, <1>4, <1>5 DEF longer

\* A sequence is what it begins with, and the rest.
LEMMA PrefixAndRest ==
  ASSUME NEW S, NEW s \in Seq(S), NEW t \in Seq(S), IsPrefix(s, t)
  PROVE  LET rest == SubSeq(t, Len(s) + 1, Len(t))
         IN  /\ rest \in Seq(S) /\ Len(rest) = Len(t) - Len(s) /\ s \o rest = t
             /\ \A i \in 1..Len(rest) : Len(s) + i \in 1..Len(t) /\ rest[i] = t[Len(s) + i]
<1>1. Len(s) \in Nat /\ Len(t) \in Nat /\ Len(s) <= Len(t) /\ \A i \in 1..Len(s) : s[i] = t[i]
  BY BeginsIsPrefix DEF Begins
<1> DEFINE rest == SubSeq(t, Len(s) + 1, Len(t))
<1>2. rest \in Seq(S) /\ Len(rest) = Len(t) - Len(s) /\ \A i \in 1..Len(rest) : rest[i] = t[Len(s) + i]
  BY <1>1
<1> HIDE DEF rest
<1>3. s \o rest \in Seq(S) /\ Len(s \o rest) = Len(t)
  BY <1>1, <1>2, ConcatProperties
<1>4. ASSUME NEW i \in 1..Len(t) PROVE (s \o rest)[i] = t[i]
  <2>1. (s \o rest)[i] = IF i <= Len(s) THEN s[i] ELSE rest[i - Len(s)]
    BY <1>1, <1>2, ConcatProperties
  <2>2. CASE i <= Len(s)
    BY <1>1, <2>1, <2>2
  <2>3. CASE i > Len(s)
    <3> DEFINE j == i - Len(s)
    <3>1. j \in 1..Len(rest) /\ Len(s) + j = i
      BY <1>1, <1>2, <2>3
    <3>2. ~(i <= Len(s))
      BY <1>1, <2>3
    <3>3. (s \o rest)[i] = rest[j]
      BY <2>1, <3>2
    <3> HIDE DEF j
    <3>4. rest[j] = t[i]
      BY <1>2, <3>1
    <3> QED BY <3>3, <3>4
  <2>4. i <= Len(s) \/ i > Len(s)
    BY <1>1
  <2> QED BY <2>2, <2>3, <2>4
<1>5. s \o rest = t
  BY <1>3, <1>4, SeqEqual
<1>6. \A i \in 1..Len(rest) : Len(s) + i \in 1..Len(t)
  BY <1>1, <1>2
<1> QED BY <1>2, <1>5, <1>6 DEF rest

\* A sequence begins with what it begins with, the rest up to an element, and that.
LEMMA PrefixUpTo ==
  ASSUME NEW S, NEW s \in Seq(S), NEW t \in Seq(S), IsPrefix(s, t),
         NEW u \in 1..(Len(t) - Len(s))
  PROVE  LET rest == SubSeq(t, Len(s) + 1, Len(t))
             there == s \o SubSeq(rest, 1, u - 1)
         IN  there \in Seq(S) /\ IsPrefix(Append(there, rest[u]), t)
<1> DEFINE rest == SubSeq(t, Len(s) + 1, Len(t))
           name == SubSeq(rest, 1, u - 1)
           there == s \o name
<1>1. /\ Len(s) \in Nat /\ Len(t) \in Nat /\ rest \in Seq(S) /\ Len(rest) = Len(t) - Len(s)
      /\ \A i \in 1..Len(rest) : Len(s) + i \in 1..Len(t) /\ rest[i] = t[Len(s) + i]
  BY PrefixAndRest
<1>2. Len(s) <= Len(t) /\ \A i \in 1..Len(s) : s[i] = t[i]
  BY BeginsIsPrefix DEF Begins
<1> HIDE DEF rest
<1>3. name \in Seq(S) /\ Len(name) = u - 1 /\ \A i \in 1..(u - 1) : name[i] = rest[i]
  BY <1>1
<1> HIDE DEF name
<1>4. there \in Seq(S) /\ Len(there) = Len(s) + (u - 1)
  <2>1. there \in Seq(S) /\ Len(there) = Len(s) + Len(name)
    BY <1>3, ConcatProperties
  <2> QED BY <1>3, <2>1
<1>5. ASSUME NEW i \in 1..Len(there) PROVE there[i] = t[i]
  <2>1. there[i] = IF i <= Len(s) THEN s[i] ELSE name[i - Len(s)]
    BY <1>1, <1>3, <1>4, ConcatProperties
  <2>2. CASE i <= Len(s)
    BY <1>1, <1>2, <2>1, <2>2
  <2>3. CASE i > Len(s)
    <3> DEFINE j == i - Len(s)
    <3>1. j \in 1..Len(rest) /\ j \in 1..(u - 1) /\ Len(s) + j = i
      BY <1>1, <1>4, <2>3
    <3>2. ~(i <= Len(s))
      BY <1>1, <2>3
    <3>3. there[i] = name[j]
      BY <2>1, <3>2
    <3> HIDE DEF j
    <3>4. name[j] = rest[j] /\ rest[j] = t[i]
      BY <1>1, <1>3, <3>1
    <3> QED BY <3>3, <3>4
  <2> QED BY <1>1, <2>2, <2>3
<1> HIDE DEF there
<1>6. Len(there) < Len(t) /\ Len(there) + 1 = Len(s) + u /\ u \in 1..Len(rest)
  BY <1>1, <1>4
<1>7. t[Len(there) + 1] = rest[u] /\ rest[u] \in S
  BY <1>1, <1>6
<1>8. IsPrefix(there, t)
  BY <1>4, <1>5, <1>6, BeginsIsPrefix DEF Begins
<1>9. IsPrefix(Append(there, rest[u]), t)
  BY <1>4, <1>6, <1>7, <1>8, AppendIsPrefix
<1> QED BY <1>4, <1>9 DEF there, name, rest

\* A sequence after another one.
LEMMA Follow ==
  ASSUME NEW S, NEW s \in Seq(S), NEW t \in Seq(S)
  PROVE  /\ s \o t \in Seq(S) /\ ToSet(s \o t) = ToSet(s) \cup ToSet(t)
         /\ IsInjective(s) /\ IsInjective(t) /\ ToSet(s) \cap ToSet(t) = {} => IsInjective(s \o t)
<1> DEFINE all == s \o t
<1>1. /\ all \in Seq(S) /\ Len(s) \in Nat /\ Len(t) \in Nat /\ DOMAIN s = 1..Len(s) /\ DOMAIN t = 1..Len(t)
      /\ DOMAIN all = 1..(Len(s) + Len(t))
      /\ \A i \in 1..(Len(s) + Len(t)) : all[i] = IF i <= Len(s) THEN s[i] ELSE t[i - Len(s)]
  OBVIOUS
<1> HIDE DEF all
<1>2. \A i \in DOMAIN all : \/ i \in DOMAIN s /\ all[i] = s[i]
                            \/ i > Len(s) /\ i - Len(s) \in DOMAIN t /\ all[i] = t[i - Len(s)]
  BY <1>1
<1>3. /\ \A i \in DOMAIN s : i \in DOMAIN all /\ all[i] = s[i]
      /\ \A i \in DOMAIN t : i + Len(s) \in DOMAIN all /\ all[i + Len(s)] = t[i]
  BY <1>1
<1>4. ToSet(all) = ToSet(s) \cup ToSet(t)
  BY <1>2, <1>3 DEF ToSet
<1>5. ASSUME IsInjective(s), IsInjective(t), ToSet(s) \cap ToSet(t) = {} PROVE IsInjective(all)
  <2> SUFFICES ASSUME NEW i \in DOMAIN all, NEW j \in DOMAIN all, all[i] = all[j], i < j PROVE FALSE
    BY <1>1 DEF IsInjective
  <2>1. \A k \in DOMAIN s, m \in DOMAIN t : s[k] # t[m]
    BY <1>5 DEF ToSet
  <2>2. i \in Nat /\ j \in Nat /\ Len(s) \in Nat
    BY <1>1
  <2>3. CASE i \in DOMAIN s /\ all[i] = s[i] /\ j \in DOMAIN s /\ all[j] = s[j]
    <3>1. i = j
      BY <2>3, <1>5 DEF IsInjective
    <3> QED BY <3>1, <2>2
  <2>4. CASE i - Len(s) \in DOMAIN t /\ all[i] = t[i - Len(s)] /\ j - Len(s) \in DOMAIN t /\ all[j] = t[j - Len(s)]
    <3>1. i - Len(s) = j - Len(s)
      BY <2>4, <1>5 DEF IsInjective
    <3> QED BY <3>1, <2>2
  <2> QED BY <1>1, <1>2, <2>1, <2>2, <2>3, <2>4
<1> QED BY <1>1, <1>4, <1>5 DEF all

\* A sequence without what is at one of its places.
LEMMA PlaceIsRemoved ==
  ASSUME NEW S, NEW s \in Seq(S), NEW k \in DOMAIN s
  PROVE  /\ RemoveAt(s, k) \in Seq(S) /\ ToSet(RemoveAt(s, k)) \subseteq ToSet(s)
         /\ IsInjective(s) => IsInjective(RemoveAt(s, k)) /\ ToSet(RemoveAt(s, k)) = ToSet(s) \ {s[k]}
<1> DEFINE one == SubSeq(s, 1, k - 1)
           two == SubSeq(s, k + 1, Len(s))
<1>1. Len(s) \in Nat /\ DOMAIN s = 1..Len(s) /\ k \in 1..Len(s) /\ k - 1 \in Nat /\ Len(s) - k \in Nat
  OBVIOUS
<1>2. /\ one \in Seq(S) /\ DOMAIN one = 1..(k - 1) /\ \A i \in 1..(k - 1) : one[i] = s[i]
      /\ two \in Seq(S) /\ DOMAIN two = 1..(Len(s) - k) /\ \A i \in 1..(Len(s) - k) : two[i] = s[i + k]
  <2>1. /\ one \in Seq(S) /\ Len(one) = k - 1 /\ \A i \in 1..(k - 1) : one[i] = s[i]
    BY <1>1
  <2>2. /\ two \in Seq(S) /\ Len(two) = Len(s) - k /\ \A i \in 1..(Len(s) - k) : two[i] = s[i + k]
    <3>1. k + 1 \in 1..(Len(s) + 1) /\ Len(s) \in k..Len(s)
      BY <1>1
    <3>2. two \in Seq(S) /\ Len(two) = Len(s) - k
      BY <1>1
    <3>3. \A i \in 1..(Len(s) - k) : two[i] = s[(k + 1) + i - 1] /\ (k + 1) + i - 1 = i + k
      BY <1>1, <3>2
    <3> QED BY <3>2, <3>3
  <2> HIDE DEF one, two
  <2> QED BY <2>1, <2>2
<1>3. RemoveAt(s, k) = one \o two
  BY DEF RemoveAt
<1> HIDE DEF one, two
<1>4. \A i \in 1..(k - 1) : i \in DOMAIN s /\ i # k /\ i < k
  BY <1>1
<1>5. \A i \in 1..(Len(s) - k) : i + k \in DOMAIN s /\ i + k # k /\ i + k > k
  BY <1>1
<1>6. \A i \in DOMAIN s : i # k => i \in DOMAIN one \/ (i - k \in DOMAIN two /\ (i - k) + k = i)
  BY <1>1, <1>2
<1>7. one \o two \in Seq(S) /\ ToSet(one \o two) = ToSet(one) \cup ToSet(two)
  BY <1>2, Follow
<1>8. ToSet(one) \subseteq ToSet(s) /\ ToSet(two) \subseteq ToSet(s)
  BY <1>2, <1>4, <1>5 DEF ToSet
<1>9. ASSUME IsInjective(s)
      PROVE  IsInjective(one \o two) /\ ToSet(one \o two) = ToSet(s) \ {s[k]}
  <2>1. IsInjective(one)
    BY <1>2, <1>4, <1>9 DEF IsInjective
  <2>2. IsInjective(two)
    <3> SUFFICES ASSUME NEW i \in DOMAIN two, NEW j \in DOMAIN two, two[i] = two[j] PROVE i = j
      BY DEF IsInjective
    <3>1. i + k = j + k
      BY <1>2, <1>5, <1>9 DEF IsInjective
    <3> QED BY <3>1, <1>1, <1>2
  <2>3. ToSet(one) \cap ToSet(two) = {}
    <3> SUFFICES ASSUME NEW i \in DOMAIN one, NEW j \in DOMAIN two, one[i] = two[j] PROVE FALSE
      BY DEF ToSet
    <3>1. i = j + k
      BY <1>2, <1>4, <1>5, <1>9 DEF IsInjective
    <3> QED BY <3>1, <1>1, <1>2, <1>4, <1>5
  <2>4. s[k] \notin ToSet(one) /\ s[k] \notin ToSet(two)
    BY <1>2, <1>4, <1>5, <1>9 DEF ToSet, IsInjective
  <2>5. \A i \in DOMAIN s : s[i] # s[k] => s[i] \in ToSet(one) \cup ToSet(two)
    <3> SUFFICES ASSUME NEW i \in DOMAIN s, s[i] # s[k] PROVE s[i] \in ToSet(one) \cup ToSet(two)
      OBVIOUS
    <3>1. CASE i \in DOMAIN one
      BY <3>1, <1>2 DEF ToSet
    <3>2. CASE i - k \in DOMAIN two /\ (i - k) + k = i
      <4>1. two[i - k] = s[i]
        BY <3>2, <1>2
      <4> QED BY <4>1, <3>2 DEF ToSet
    <3> QED BY <1>6, <3>1, <3>2
  <2>6. ToSet(one \o two) = ToSet(s) \ {s[k]}
    BY <1>7, <1>8, <2>4, <2>5 DEF ToSet
  <2> QED BY <1>2, <2>1, <2>2, <2>3, <2>6, Follow
<1> QED BY <1>3, <1>7, <1>8, <1>9

-----------------------------------------------------------------------------
(* The first that is so, and those that are so.                            *)

\* Of some numbers one is the least.
LEMMA LeastNatural ==
  ASSUME NEW S, S \subseteq Nat, S # {}
  PROVE  \E m \in S : \A k \in S : m <= k
<1> DEFINE R == OpToRel(<, Nat)
<1>1. IsWellFoundedOn(R, Nat)
  BY NatLessThanWellFounded
<1>2. \A m, k \in Nat : ~(<<k, m>> \in R) => m <= k
  BY DEF OpToRel
<1> HIDE DEF R
<1>3. \E m \in S : \A k \in S : ~(<<k, m>> \in R)
  BY <1>1, WFMin
<1> QED BY <1>2, <1>3

\* The first occurrence is one of the places.
LEMMA FirstIsRemoved ==
  ASSUME NEW S, NEW s \in Seq(S), NEW e \in ToSet(s)
  PROVE  \E k \in DOMAIN s : s[k] = e /\ RemoveFirst(s, e) = RemoveAt(s, k)
<1> DEFINE places == {i \in 1..Len(s) : s[i] = e}
<1>1. DOMAIN s = 1..Len(s)
  OBVIOUS
<1>2. places # {} /\ places \subseteq Nat
  BY <1>1 DEF ToSet
<1>3. \E m \in places : \A i \in places : m <= i
  <2> HIDE DEF places
  <2> QED BY <1>2, LeastNatural
<1>4. Min(places) \in places
  <2> HIDE DEF places
  <2> QED BY <1>3 DEF Min
<1>5. SelectInSeq(s, LAMBDA v : v = e) = Min(places)
  BY <1>2 DEF SelectInSeq
<1>6. RemoveFirst(s, e) = RemoveAt(s, Min(places))
  BY <1>2, <1>5 DEF RemoveFirst
<1> QED BY <1>1, <1>4, <1>6

\* Numbers counted from below: of n of them one is the k-th, for each k from 1 to n.
LEMMA RankCounts ==
  ASSUME NEW kept, NEW n \in Nat, kept \subseteq 1..n
  PROVE  LET Rank(i) == Cardinality({j \in kept : j <= i})
         IN  /\ Cardinality(kept) \in Nat
             /\ \A i \in kept : Rank(i) \in 1..Cardinality(kept)
             /\ \A i, j \in kept : Rank(i) = Rank(j) => i = j
             /\ \A k \in 1..Cardinality(kept) : \E i \in kept : Rank(i) = k
<1> DEFINE Below(i) == {j \in kept : j <= i}
           Rank(i) == Cardinality(Below(i))
           size == Cardinality(kept)
<1>1. IsFiniteSet(kept) /\ size \in Nat
  <2>1. IsFiniteSet(1..n)
    BY FS_Interval
  <2>2. IsFiniteSet(kept)
    BY <2>1, FS_Subset
  <2> QED BY <2>2, FS_CardinalityType
<1>2. ASSUME NEW i \in kept
      PROVE  IsFiniteSet(Below(i)) /\ Rank(i) \in 1..size
  <2>1. Below(i) \in SUBSET kept /\ i \in Below(i)
    OBVIOUS
  <2>2. IsFiniteSet(Below(i)) /\ Rank(i) <= size
    BY <1>1, <2>1, FS_Subset
  <2>3. Rank(i) \in Nat /\ Rank(i) # 0
    BY <2>1, <2>2, FS_CardinalityType, FS_EmptySet
  <2> QED BY <1>1, <2>2, <2>3
<1>3. ASSUME NEW i \in kept, NEW j \in kept, Rank(i) = Rank(j), i < j PROVE FALSE
  <2>0. i \in Int /\ j \in Int /\ i < j /\ kept \subseteq Int
    BY <1>3
  <2>1. Below(i) \in SUBSET Below(j) /\ j \in Below(j) /\ j \notin Below(i)
    <3>1. \A x \in kept : x <= i => x <= j
      BY <2>0
    <3>2. j <= j /\ ~(j <= i)
      BY <2>0
    <3> QED BY <3>1, <3>2
  <2>2. Below(i) = Below(j)
    BY <1>2, <1>3, <2>1, FS_Subset
  <2> QED BY <2>1, <2>2
<1>4. ASSUME NEW i \in kept, NEW j \in kept, Rank(i) = Rank(j) PROVE i = j
  <2>1. i \in Int /\ j \in Int
    OBVIOUS
  <2> QED BY <1>3, <1>4, <2>1
<1>5. ASSUME NEW k \in 1..size PROVE \E i \in kept : Rank(i) = k
  <2> DEFINE f == [i \in kept |-> Rank(i)]
  <2>1. f \in [kept -> 1..size]
    BY <1>2
  <2>2. f \in Injection(kept, 1..size)
    BY <1>4, <2>1 DEF Injection, IsInjective
  <2>3. IsFiniteSet(1..size) /\ Cardinality(1..size) = size
    BY <1>1, FS_Interval
  <2>4. f \in Surjection(kept, 1..size)
    BY <2>2, <2>3, FS_Injection
  <2>5. PICK i \in kept : f[i] = k
    BY <2>4 DEF Surjection
  <2> QED BY <2>5
<1> QED BY <1>1, <1>2, <1>4, <1>5

\* The filter keeps what is in the set, and doubles nothing.
LEMMA SelectedAre ==
  ASSUME NEW S, NEW list \in Seq(S), NEW T
  PROVE  /\ Selected(list, T) \in Seq(S)
         /\ ToSet(Selected(list, T)) = ToSet(list) \cap T
         /\ IsInjective(list) => IsInjective(Selected(list, T))
<1> DEFINE kept == {i \in DOMAIN list : list[i] \in T}
           Rank(i) == Cardinality({j \in kept : j <= i})
           Nth(k) == CHOOSE i \in kept : Rank(i) = k
           size == Cardinality(kept)
           left == [k \in 1..size |-> list[Nth(k)]]
<1>1. DOMAIN list = 1..Len(list) /\ Len(list) \in Nat /\ \A i \in DOMAIN list : list[i] \in S
  OBVIOUS
<1>2. /\ size \in Nat /\ \A i \in kept : Rank(i) \in 1..size
      /\ \A i, j \in kept : Rank(i) = Rank(j) => i = j
      /\ \A k \in 1..size : \E i \in kept : Rank(i) = k
  <2>1. kept \subseteq 1..Len(list)
    BY <1>1
  <2> HIDE DEF kept
  <2> QED BY <1>1, <2>1, RankCounts
<1>3. Selected(list, T) = left
  BY DEF Selected
<1>4. \A k \in 1..size : Nth(k) \in kept /\ Rank(Nth(k)) = k
  <2> HIDE DEF kept, Rank
  <2> QED BY <1>2
<1>5. \A i \in kept : Nth(Rank(i)) = i
  <2> HIDE DEF kept, Rank, Nth
  <2> QED BY <1>2, <1>4
<1> HIDE DEF Rank, Nth, size
<1>6. left \in Seq(S) /\ DOMAIN left = 1..size
  BY <1>1, <1>2, <1>4
<1>7. ToSet(left) = ToSet(list) \cap T
  <2>1. ASSUME NEW k \in 1..size PROVE left[k] \in ToSet(list) /\ left[k] \in T
    BY <1>4 DEF ToSet
  <2>2. ASSUME NEW i \in DOMAIN list, list[i] \in T PROVE \E k \in 1..size : left[k] = list[i]
    <3>1. i \in kept
      BY <2>2
    <3>2. Rank(i) \in 1..size /\ left[Rank(i)] = list[i]
      BY <1>2, <1>5, <3>1
    <3> QED BY <3>2
  <2>3. DOMAIN left = 1..size
    OBVIOUS
  <2> HIDE DEF left, kept, size
  <2>4. ToSet(left) \subseteq ToSet(list) \cap T
    BY <2>1, <2>3 DEF ToSet
  <2>5. ToSet(list) \cap T \subseteq ToSet(left)
    BY <2>2, <2>3 DEF ToSet
  <2> QED BY <2>4, <2>5
<1>8. ASSUME IsInjective(list) PROVE IsInjective(left)
  <2> SUFFICES ASSUME NEW k \in 1..size, NEW m \in 1..size, left[k] = left[m] PROVE k = m
    BY <1>6 DEF IsInjective
  <2>1. Nth(k) \in kept /\ Nth(m) \in kept /\ list[Nth(k)] = list[Nth(m)]
    BY <1>4
  <2>2. Nth(k) = Nth(m)
    BY <1>8, <2>1 DEF IsInjective
  <2> QED BY <1>4, <2>2
<1> HIDE DEF left
<1> QED BY <1>3, <1>6, <1>7, <1>8

\* What the filter keeps is in the order of the list.
LEMMA SelectedInOrder ==
  ASSUME NEW S, NEW list \in Seq(S), NEW T, NEW k \in DOMAIN Selected(list, T), NEW m \in DOMAIN Selected(list, T), k < m
  PROVE  \E i, j \in DOMAIN list : i < j /\ list[i] = Selected(list, T)[k] /\ list[j] = Selected(list, T)[m]
<1> DEFINE kept == {i \in DOMAIN list : list[i] \in T}
           Below(i) == {j \in kept : j <= i}
           Rank(i) == Cardinality(Below(i))
           Nth(n) == CHOOSE i \in kept : Rank(i) = n
           size == Cardinality(kept)
<1>1. DOMAIN list = 1..Len(list) /\ Len(list) \in Nat /\ kept \subseteq DOMAIN list
  OBVIOUS
<1>2. size \in Nat /\ \A n \in 1..size : \E i \in kept : Rank(i) = n
  <2> HIDE DEF kept
  <2> QED BY <1>1, RankCounts
<1>3. Selected(list, T) = [n \in 1..size |-> list[Nth(n)]]
  BY DEF Selected
<1>4. k \in 1..size /\ m \in 1..size /\ k < m
  BY <1>3
<1>5. \A n \in 1..size : Nth(n) \in kept /\ Rank(Nth(n)) = n
  <2> HIDE DEF kept, Rank
  <2> QED BY <1>2
<1>6. PICK i, j : i = Nth(k) /\ j = Nth(m) /\ i \in kept /\ j \in kept /\ Rank(i) = k /\ Rank(j) = m
  <2> HIDE DEF kept, Rank, Nth
  <2> QED BY <1>4, <1>5
<1> HIDE DEF kept, Nth, size
<1>7. i \in 1..Len(list) /\ j \in 1..Len(list) /\ kept \subseteq 1..Len(list) /\ IsFiniteSet(1..Len(list))
  BY <1>1, <1>6, FS_Interval
<1>8. ASSUME j <= i PROVE FALSE
  <2>1. Below(j) \subseteq Below(i)
    <3>1. \A x \in kept : x <= j => x <= i
      BY <1>7, <1>8
    <3> QED BY <3>1
  <2>2. IsFiniteSet(Below(i))
    <3>1. Below(i) \subseteq 1..Len(list)
      BY <1>7
    <3> QED BY <1>7, <3>1, FS_Subset
  <2>3. Rank(j) <= Rank(i)
    <3> HIDE DEF Below
    <3> QED BY <2>1, <2>2, FS_Subset
  <2> QED BY <1>2, <1>4, <1>6, <2>3
<1>9. i < j
  BY <1>7, <1>8
<1> QED BY <1>1, <1>3, <1>4, <1>6, <1>9

\* SetToSeq lists the elements of a finite set, each once.
LEMMA ListOfSet ==
  ASSUME NEW S, IsFiniteSet(S)
  PROVE  SetToSeq(S) \in Seq(S) /\ ToSet(SetToSeq(S)) = S /\ IsInjective(SetToSeq(S))
<1> DEFINE n == Cardinality(S)
           list == SetToSeq(S)
<1>1. n \in Nat /\ ExistsBijection(1..n, S)
  BY FS_CardinalityType
<1> HIDE DEF n
<1>2. \E f \in [1..n -> S] : IsInjective(f)
  BY <1>1 DEF ExistsBijection, Bijection, Injection
<1>3. list = CHOOSE f \in [1..n -> S] : IsInjective(f)
  BY DEF SetToSeq, n
<1>4. list \in [1..n -> S] /\ IsInjective(list)
  BY <1>2, <1>3
<1> HIDE DEF list
<1>5. list \in Injection(1..n, S)
  BY <1>4 DEF Injection
<1>6. Cardinality(1..n) = n /\ IsFiniteSet(1..n)
  BY <1>1, FS_Interval
<1>7. list \in Surjection(1..n, S)
  BY <1>5, <1>6, FS_Injection DEF n
<1>8. ToSet(list) = S
  BY <1>4, <1>7 DEF ToSet, Surjection
<1>9. list \in Seq(S)
  BY <1>1, <1>4
<1> QED BY <1>4, <1>8, <1>9 DEF list

\* Lists one after another are a list of what they list.
LEMMA FlatSequence ==
  ASSUME NEW S, NEW lists \in Seq(Seq(S))
  PROVE  FlattenSeq(lists) \in Seq(S) /\ \A i \in DOMAIN lists : ToSet(lists[i]) \subseteq ToSet(FlattenSeq(lists))
<1> DEFINE N == Len(lists)
           IsFlat(f, n) == f = [i \in 1..n |-> IF i = 1 THEN lists[i] ELSE f[i - 1] \o lists[i]]
           Without == {n \in 1..N : ~\E f : IsFlat(f, n)}
           flat == CHOOSE f : IsFlat(f, N)
           IsWhole(n) == flat[n] \in Seq(S) /\ \A i \in 1..n : ToSet(lists[i]) \subseteq ToSet(flat[n])
           Wrong == {n \in 1..N : ~IsWhole(n)}
<1>1. N \in Nat /\ DOMAIN lists = 1..N /\ \A i \in 1..N : lists[i] \in Seq(S)
  OBVIOUS
<1>2. CASE N = 0
  <2>1. lists = <<>>
    BY <1>2
  <2>2. FlattenSeq(lists) = lists
    BY <1>2 DEF FlattenSeq
  <2>3. DOMAIN lists = {}
    BY <1>1, <1>2
  <2> QED BY <2>1, <2>2, <2>3, EmptySeq
<1>3. CASE N # 0
  <2>1. \E f : IsFlat(f, N)
    <3>0. N \in 1..N
      BY <1>1, <1>3
    <3> HIDE DEF IsFlat, N
    <3> SUFFICES ASSUME Without # {} PROVE FALSE
      BY <3>0
    <3>1. PICK m \in Without : \A k \in Without : m <= k
      <4>1. Without \subseteq Nat
        BY <1>1
      <4> HIDE DEF Without
      <4> QED BY <4>1, LeastNatural
    <3>2. m \in 1..N /\ ~\E f : IsFlat(f, m)
      OBVIOUS
    <3>3. CASE m = 1
      <4>1. IsFlat([i \in 1..1 |-> lists[1]], 1)
        BY DEF IsFlat
      <4> QED BY <3>2, <3>3, <4>1
    <3>4. CASE m # 1
      <4>1. m - 1 \in 1..N /\ m - 1 \notin Without
        <5>1. m \in Nat /\ m - 1 \in 1..N /\ ~(m <= m - 1)
          BY <1>1, <3>2, <3>4
        <5> HIDE DEF Without
        <5> QED BY <3>1, <5>1
      <4>2. PICK f : IsFlat(f, m - 1)
        BY <4>1
      <4> DEFINE g == [i \in 1..m |-> IF i = m THEN f[m - 1] \o lists[m] ELSE f[i]]
      <4>3. IsFlat(g, m)
        <5>1. \A i \in 1..(m - 1) : f[i] = IF i = 1 THEN lists[i] ELSE f[i - 1] \o lists[i]
          BY <4>2 DEF IsFlat
        <5>2. ASSUME NEW i \in 1..m PROVE g[i] = IF i = 1 THEN lists[i] ELSE g[i - 1] \o lists[i]
          BY <1>1, <3>2, <3>4, <5>1
        <5> QED BY <5>2 DEF IsFlat
      <4> HIDE DEF g
      <4> QED BY <3>2, <4>3
    <3> QED BY <3>3, <3>4
  <2>2. IsFlat(flat, N)
    BY <2>1
  <2>3. FlattenSeq(lists) = flat[N]
    BY <1>3 DEF FlattenSeq
  <2>4. \A i \in 1..N : flat[i] = IF i = 1 THEN lists[i] ELSE flat[i - 1] \o lists[i]
    BY <2>2
  <2> HIDE DEF flat
  <2>5. IsWhole(N)
    <3>0. N \in 1..N
      BY <1>1, <1>3
    <3> HIDE DEF IsWhole
    <3> SUFFICES ASSUME Wrong # {} PROVE FALSE
      BY <3>0
    <3>1. PICK m \in Wrong : \A k \in Wrong : m <= k
      <4>1. Wrong \subseteq Nat
        BY <1>1
      <4> HIDE DEF Wrong
      <4> QED BY <4>1, LeastNatural
    <3>2. m \in 1..N /\ ~IsWhole(m)
      OBVIOUS
    <3>3. m # 1
      <4> SUFFICES ASSUME m = 1 PROVE IsWhole(1)
        BY <3>2
      <4>1. flat[1] = lists[1] /\ lists[1] \in Seq(S)
        BY <1>1, <2>4, <3>2
      <4> QED BY <4>1 DEF IsWhole
    <3>4. m - 1 \in 1..N /\ IsWhole(m - 1)
      BY <1>1, <3>1, <3>2, <3>3
    <3>5. flat[m - 1] \in Seq(S) /\ lists[m] \in Seq(S) /\ flat[m] = flat[m - 1] \o lists[m]
      BY <1>1, <2>4, <3>2, <3>3, <3>4 DEF IsWhole
    <3>6. flat[m] \in Seq(S) /\ ToSet(flat[m]) = ToSet(flat[m - 1]) \cup ToSet(lists[m])
      BY <3>5, Follow
    <3>7. \A i \in 1..m : i = m \/ i \in 1..(m - 1)
      BY <1>1, <3>2
    <3> QED BY <3>2, <3>4, <3>6, <3>7 DEF IsWhole
  <2> QED BY <1>1, <2>3, <2>5
<1> QED BY <1>2, <1>3

-----------------------------------------------------------------------------
(* Induction and recursion up to a number, over sets and functions.        *)

\* What holds of 0, and of each number after one of which it holds.
LEMMA InductionUpTo ==
  ASSUME NEW N \in Nat, NEW S, 0 \in S, \A n \in 1..N : n - 1 \in S => n \in S
  PROVE  \A n \in 0..N : n \in S
<1> DEFINE Wrong == {n \in 0..N : n \notin S}
<1> SUFFICES ASSUME Wrong # {} PROVE FALSE
  OBVIOUS
<1>1. PICK m \in Wrong : \A k \in Wrong : m <= k
  <2>1. Wrong \subseteq Nat
    OBVIOUS
  <2> HIDE DEF Wrong
  <2> QED BY <2>1, LeastNatural
<1>2. m \in 1..N /\ m - 1 \in 0..N /\ ~(m <= m - 1)
  BY <1>1
<1>3. m - 1 \in S
  BY <1>1, <1>2
<1> QED BY <1>1, <1>2, <1>3

StepsWithin(Step, N, S) == \A n \in 1..N : \A x \in S : Step[n][x] \in S
Iterates(f, N, S, base, Step) == f \in [0..N -> S] /\ f[0] = base /\ \A n \in 1..N : f[n] = Step[n][f[n - 1]]

\* A function is defined by its value at 0, and at each number by its value at the one before.
LEMMA RecursionUpTo ==
  ASSUME NEW N \in Nat, NEW S, NEW base \in S, NEW Step, StepsWithin(Step, N, S)
  PROVE  \E f : Iterates(f, N, S, base, Step)
<1> DEFINE IsDefined(f, n) == f \in [0..n -> S] /\ f[0] = base /\ \A k \in 1..n : f[k] = Step[k][f[k - 1]]
           Defined == {n \in Nat : \E f : IsDefined(f, n)}
<1>1. 0 \in Defined
  <2>1. IsDefined([k \in 0..0 |-> base], 0)
    OBVIOUS
  <2> QED BY <2>1
<1>2. ASSUME NEW n \in 1..N, n - 1 \in Defined PROVE n \in Defined
  <2>1. PICK f : IsDefined(f, n - 1)
    BY <1>2
  <2> DEFINE g == [k \in 0..n |-> IF k = n THEN Step[n][f[n - 1]] ELSE f[k]]
  <2>2. g \in [0..n -> S]
    <3>1. n - 1 \in 0..(n - 1) /\ f[n - 1] \in S
      BY <2>1
    <3>2. Step[n][f[n - 1]] \in S
      BY <3>1 DEF StepsWithin
    <3> QED BY <2>1, <3>2
  <2>3. g[0] = base
    BY <2>1
  <2>4. ASSUME NEW k \in 1..n PROVE g[k] = Step[k][g[k - 1]]
    BY <2>1
  <2>5. IsDefined(g, n)
    BY <2>2, <2>3, <2>4
  <2> HIDE DEF IsDefined
  <2> QED BY <2>5
<1> HIDE DEF Defined
<1>3. N \in Defined
  <2>1. \A n \in 0..N : n \in Defined
    BY <1>1, <1>2, InductionUpTo
  <2> QED BY <2>1
<1> QED BY <1>3 DEF Defined, Iterates
=============================================================================
