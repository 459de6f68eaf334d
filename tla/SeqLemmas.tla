----------------------------- MODULE SeqLemmas -----------------------------
(***************************************************************************)
(* Facts about sequences as lists of pages: which elements they hold and   *)
(* whether one repeats.                                                    *)
(***************************************************************************)
EXTENDS Integers, Sequences, Functions, TLAPS

\* What is left of a list when its head is taken.
LEMMA TailFacts ==
  ASSUME NEW S, NEW s \in Seq(S), s # <<>>
  PROVE  /\ Tail(s) \in Seq(S) /\ Head(s) \in S
         /\ Range(s) = {Head(s)} \cup Range(Tail(s))
         /\ IsInjective(s) => IsInjective(Tail(s)) /\ Head(s) \notin Range(Tail(s))
<1>1. /\ Tail(s) \in Seq(S) /\ Head(s) \in S /\ Head(s) = s[1]
      /\ DOMAIN Tail(s) = 1 .. Len(s) - 1
      /\ \A i \in 1 .. Len(s) - 1 : Tail(s)[i] = s[i + 1]
      /\ DOMAIN s = 1 .. Len(s) /\ Len(s) \in Nat \ {0}
  OBVIOUS
<1>2. Range(s) = {Head(s)} \cup Range(Tail(s))
  <2>1. ASSUME NEW x \in Range(s) PROVE x \in {Head(s)} \cup Range(Tail(s))
    <3>1. PICK i \in 1 .. Len(s) : s[i] = x
      BY <1>1 DEF Range
    <3>2. CASE i = 1
      BY <3>1, <3>2, <1>1
    <3>3. CASE i # 1
      <4>1. i - 1 \in DOMAIN Tail(s) /\ Tail(s)[i - 1] = x
        BY <1>1, <3>1, <3>3
      <4> QED BY <4>1 DEF Range
    <3> QED BY <3>2, <3>3
  <2>2. ASSUME NEW x \in Range(Tail(s)) PROVE x \in Range(s)
    <3>1. PICK i \in 1 .. Len(s) - 1 : Tail(s)[i] = x
      BY <1>1 DEF Range
    <3>2. i + 1 \in DOMAIN s /\ s[i + 1] = x
      BY <3>1, <1>1
    <3> QED BY <3>2 DEF Range
  <2>3. Head(s) \in Range(s)
    <3>1. 1 \in DOMAIN s
      BY <1>1
    <3> QED BY <3>1, <1>1 DEF Range
  <2> QED BY <2>1, <2>2, <2>3
<1>3. ASSUME IsInjective(s) PROVE IsInjective(Tail(s)) /\ Head(s) \notin Range(Tail(s))
  <2>1. IsInjective(Tail(s))
    BY <1>1, <1>3 DEF IsInjective
  <2>2. Head(s) \notin Range(Tail(s))
    BY <1>1, <1>3 DEF IsInjective, Range
  <2> QED BY <2>1, <2>2
<1> QED BY <1>1, <1>2, <1>3

\* A list with an element added.
LEMMA AppendFacts ==
  ASSUME NEW S, NEW s \in Seq(S), NEW x \in S
  PROVE  /\ Append(s, x) \in Seq(S)
         /\ Range(Append(s, x)) = Range(s) \cup {x}
         /\ IsInjective(s) /\ x \notin Range(s) => IsInjective(Append(s, x))
<1> DEFINE a == Append(s, x)
<1>1. /\ a \in Seq(S) /\ DOMAIN a = 1 .. Len(s) + 1
      /\ \A i \in 1 .. Len(s) : a[i] = s[i]
      /\ a[Len(s) + 1] = x
      /\ DOMAIN s = 1 .. Len(s) /\ Len(s) \in Nat
  OBVIOUS
<1> HIDE DEF a
<1>2. Range(a) = Range(s) \cup {x}
  BY <1>1 DEF Range
<1>3. IsInjective(s) /\ x \notin Range(s) => IsInjective(a)
  BY <1>1 DEF Range, IsInjective
<1> QED BY <1>1, <1>2, <1>3 DEF a

\* Two lists, one after the other.
LEMMA ConcatFacts ==
  ASSUME NEW S, NEW s \in Seq(S), NEW t \in Seq(S)
  PROVE  /\ s \o t \in Seq(S) /\ Len(s \o t) = Len(s) + Len(t)
         /\ Range(s \o t) = Range(s) \cup Range(t)
         /\ IsInjective(s) /\ IsInjective(t) /\ Range(s) \cap Range(t) = {} => IsInjective(s \o t)
         /\ IsInjective(s \o t) => IsInjective(s) /\ IsInjective(t) /\ Range(s) \cap Range(t) = {}
<1> DEFINE a == s \o t
<1>1. /\ a \in Seq(S) /\ DOMAIN a = 1 .. Len(s) + Len(t) /\ Len(a) = Len(s) + Len(t)
      /\ DOMAIN s = 1 .. Len(s) /\ Len(s) \in Nat
      /\ DOMAIN t = 1 .. Len(t) /\ Len(t) \in Nat
  OBVIOUS
<1>2. \A i \in DOMAIN s : i \in DOMAIN a /\ a[i] = s[i]
  OBVIOUS
<1>3. \A i \in DOMAIN t : Len(s) + i \in DOMAIN a /\ a[Len(s) + i] = t[i]
  OBVIOUS
<1> HIDE DEF a
<1>4. \A i \in DOMAIN a : i \in DOMAIN s \/ \E j \in DOMAIN t : i = Len(s) + j
  <2> SUFFICES ASSUME NEW i \in DOMAIN a, i \notin DOMAIN s
               PROVE  \E j \in DOMAIN t : i = Len(s) + j
    OBVIOUS
  <2>1. i - Len(s) \in DOMAIN t /\ i = Len(s) + (i - Len(s))
    BY <1>1
  <2> QED BY <2>1
<1>5. Range(a) = Range(s) \cup Range(t)
  <2>1. ASSUME NEW x \in Range(a) PROVE x \in Range(s) \cup Range(t)
    <3>1. PICK i \in DOMAIN a : a[i] = x
      BY DEF Range
    <3>2. CASE i \in DOMAIN s
      BY <3>1, <3>2, <1>2 DEF Range
    <3>3. CASE \E j \in DOMAIN t : i = Len(s) + j
      BY <3>1, <3>3, <1>3 DEF Range
    <3> QED BY <3>2, <3>3, <1>4
  <2>2. ASSUME NEW x \in Range(s) PROVE x \in Range(a)
     BY <1>2 DEF Range
  <2>3. ASSUME NEW x \in Range(t) PROVE x \in Range(a)
     BY <1>3 DEF Range
  <2> QED BY <2>1, <2>2, <2>3
<1>6. ASSUME IsInjective(s), IsInjective(t), Range(s) \cap Range(t) = {} PROVE IsInjective(a)
  <2>1. \A i \in DOMAIN s, j \in DOMAIN t : s[i] # t[j]
    BY <1>6 DEF Range
  <2> SUFFICES ASSUME NEW i \in DOMAIN a, NEW j \in DOMAIN a, a[i] = a[j] PROVE i = j
    BY DEF IsInjective
  <2>2. CASE i \in DOMAIN s /\ j \in DOMAIN s
    BY <1>2, <1>6, <2>2 DEF IsInjective
  <2>3. CASE i \in DOMAIN s /\ \E k \in DOMAIN t : j = Len(s) + k
    BY <1>2, <1>3, <2>1, <2>3
  <2>4. CASE j \in DOMAIN s /\ \E k \in DOMAIN t : i = Len(s) + k
    BY <1>2, <1>3, <2>1, <2>4
  <2>5. CASE (\E k \in DOMAIN t : i = Len(s) + k) /\ \E k \in DOMAIN t : j = Len(s) + k
    BY <1>3, <1>6, <2>5 DEF IsInjective
  <2> QED BY <1>4, <2>2, <2>3, <2>4, <2>5
<1>7. ASSUME IsInjective(a) PROVE IsInjective(s) /\ IsInjective(t) /\ Range(s) \cap Range(t) = {}
  <2>1. IsInjective(s)
    BY <1>2, <1>7 DEF IsInjective
  <2>2. IsInjective(t)
    <3> SUFFICES ASSUME NEW i \in DOMAIN t, NEW j \in DOMAIN t, t[i] = t[j] PROVE i = j
      BY DEF IsInjective
    <3>1. Len(s) + i = Len(s) + j
      BY <1>3, <1>7 DEF IsInjective
    <3> QED BY <3>1, <1>1
  <2>3. ASSUME NEW i \in DOMAIN s, NEW j \in DOMAIN t, s[i] = t[j] PROVE FALSE
    <3>1. i = Len(s) + j
      BY <1>2, <1>3, <1>7, <2>3 DEF IsInjective
    <3> QED BY <3>1, <1>1
  <2>4. Range(s) \cap Range(t) = {}
    BY <2>3 DEF Range
  <2> QED BY <2>1, <2>2, <2>4
<1> QED BY <1>1, <1>5, <1>6, <1>7 DEF a

\* The first n elements of a list.
LEMMA PrefixFacts ==
  ASSUME NEW S, NEW s \in Seq(S), NEW n \in 0 .. Len(s)
  PROVE  /\ SubSeq(s, 1, n) \in Seq(S)
         /\ Range(SubSeq(s, 1, n)) \subseteq Range(s)
         /\ IsInjective(s) => IsInjective(SubSeq(s, 1, n))
<1> DEFINE a == SubSeq(s, 1, n)
<1>1. /\ a \in Seq(S) /\ DOMAIN a = 1 .. n
      /\ \A i \in 1 .. n : a[i] = s[i]
      /\ DOMAIN s = 1 .. Len(s) /\ Len(s) \in Nat
  OBVIOUS
<1> HIDE DEF a
<1>2. Range(a) \subseteq Range(s)
  BY <1>1 DEF Range
<1>3. IsInjective(s) => IsInjective(a)
  BY <1>1 DEF IsInjective
<1> QED BY <1>1, <1>2, <1>3 DEF a

\* The empty list.
LEMMA EmptyFacts ==
  Range(<<>>) = {} /\ IsInjective(<<>>) /\ \A S : <<>> \in Seq(S)
BY DEF Range, IsInjective
============================================================================
