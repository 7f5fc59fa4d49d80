------------------------------ MODULE SeqLemmas ------------------------------
(***************************************************************************)
(* Facts about sequences used as stacks: one more element, a prefix, the   *)
(* top removed or replaced, two sequences joined.  What the elements are   *)
(* does not matter, so a sequence is IsSeq, over some set.  And induction. *)
(***************************************************************************)
EXTENDS Integers, Sequences, SequenceTheorems, WellFoundedInduction, TLAPS

IsSeq(s) == \E S : s \in Seq(S)

\* Length, domain and elements of a sequence with one more element.
LEMMA AppendFacts ==
  ASSUME NEW s, NEW x, IsSeq(s)
  PROVE  /\ IsSeq(Append(s, x))
         /\ Len(s) \in Nat /\ DOMAIN s = 1..Len(s)
         /\ Len(Append(s, x)) = Len(s) + 1
         /\ DOMAIN Append(s, x) = 1..(Len(s) + 1)
         /\ \A i \in 1..Len(s) : Append(s, x)[i] = s[i]
         /\ Append(s, x)[Len(s) + 1] = x
<1>1. PICK S : s \in Seq(S)
  BY DEF IsSeq
<1>2. s \in Seq(S \cup {x})
  BY <1>1
<1>3. Append(s, x) \in Seq(S \cup {x})
  BY <1>2
<1> QED
  BY <1>2, <1>3 DEF IsSeq

\* Length, domain and elements of a prefix of a sequence.
LEMMA SubSeqFacts ==
  ASSUME NEW s, IsSeq(s), NEW n \in 0..Len(s)
  PROVE  /\ IsSeq(SubSeq(s, 1, n))
         /\ Len(SubSeq(s, 1, n)) = n
         /\ DOMAIN SubSeq(s, 1, n) = 1..n
         /\ \A i \in 1..n : SubSeq(s, 1, n)[i] = s[i]
<1>1. PICK S : s \in Seq(S)
  BY DEF IsSeq
<1>2. Len(s) \in Nat /\ n \in Nat
  BY <1>1
<1>3. SubSeq(s, 1, n) \in Seq(S)
  BY <1>1, <1>2
<1> QED
  BY <1>1, <1>2, <1>3 DEF IsSeq

\* Two sequences with the same elements are the same.
LEMMA IsSeqEqual ==
  ASSUME NEW s, NEW t, IsSeq(s), IsSeq(t), Len(s) = Len(t),
         \A i \in 1..Len(s) : s[i] = t[i]
  PROVE  s = t
<1>1. PICK S, T : s \in Seq(S) /\ t \in Seq(T)
  BY DEF IsSeq
<1>2. s \in Seq(S \cup T) /\ t \in Seq(S \cup T)
  BY <1>1
<1> QED
  BY <1>2, SeqEqual

Butlast(c) == SubSeq(c, 1, Len(c) - 1)

Replaced(c, f) == Append(Butlast(c), f)

\* Length and domain of a sequence.
LEMMA SeqFacts ==
  ASSUME NEW c, IsSeq(c)
  PROVE  /\ Len(c) \in Nat /\ DOMAIN c = 1..Len(c)
         /\ c = <<>> <=> Len(c) = 0
<1>1. PICK S : c \in Seq(S)
  BY DEF IsSeq
<1> QED
  BY <1>1

\* A stack without its top.
LEMMA ButlastFacts ==
  ASSUME NEW c, IsSeq(c), c # <<>>
  PROVE  /\ IsSeq(Butlast(c))
         /\ Len(c) \in Nat \ {0} /\ Len(Butlast(c)) = Len(c) - 1
         /\ DOMAIN c = 1..Len(c) /\ DOMAIN Butlast(c) = 1..(Len(c) - 1)
         /\ \A i \in 1..(Len(c) - 1) : Butlast(c)[i] = c[i]
<1>1. Len(c) \in Nat \ {0} /\ DOMAIN c = 1..Len(c)
  BY SeqFacts
<1>2. Len(c) - 1 \in 0..Len(c)
  BY <1>1
<1> QED
  BY <1>1, <1>2, SubSeqFacts DEF Butlast

\* A stack whose top has been replaced.
LEMMA ReplaceFacts ==
  ASSUME NEW c, NEW f, IsSeq(c), c # <<>>
  PROVE  /\ IsSeq(Replaced(c, f))
         /\ Len(c) \in Nat \ {0} /\ DOMAIN c = 1..Len(c)
         /\ Len(Replaced(c, f)) = Len(c)
         /\ DOMAIN Replaced(c, f) = 1..Len(c)
         /\ \A i \in 1..(Len(c) - 1) : Replaced(c, f)[i] = c[i]
         /\ Replaced(c, f)[Len(c)] = f
<1>1. PICK S : c \in Seq(S)
  BY DEF IsSeq
<1>2. c \in Seq(S \cup {f}) /\ Len(c) \in Nat \ {0}
  BY <1>1
<1>3. SubSeq(c, 1, Len(c) - 1) \in Seq(S \cup {f})
  BY <1>2
<1>4. Append(SubSeq(c, 1, Len(c) - 1), f) \in Seq(S \cup {f})
  BY <1>3
<1>5. Len(SubSeq(c, 1, Len(c) - 1)) = Len(c) - 1
  <2>1. Len(c) - 1 \in 0..Len(c)
    BY <1>2
  <2> QED
    BY <2>1, SubSeqFacts
<1>6. /\ Len(Append(SubSeq(c, 1, Len(c) - 1), f)) = Len(c)
      /\ Append(SubSeq(c, 1, Len(c) - 1), f)[Len(c)] = f
  BY <1>2, <1>3, <1>5
<1>7. DOMAIN Append(SubSeq(c, 1, Len(c) - 1), f) = 1..Len(c)
  BY <1>2, <1>4, <1>6
<1>8. ASSUME NEW i \in 1..(Len(c) - 1)
      PROVE  Append(SubSeq(c, 1, Len(c) - 1), f)[i] = c[i]
  <2>1. SubSeq(c, 1, Len(c) - 1)[i] = c[i]
    BY <1>2
  <2>2. Append(SubSeq(c, 1, Len(c) - 1), f)[i] = SubSeq(c, 1, Len(c) - 1)[i]
    BY <1>2, <1>3, <1>5
  <2> QED
    BY <2>1, <2>2
<1>9. IsSeq(Append(SubSeq(c, 1, Len(c) - 1), f))
  BY <1>4 DEF IsSeq
<1>10. DOMAIN c = 1..Len(c)
  BY <1>2
<1> QED
  BY <1>2, <1>6, <1>7, <1>8, <1>9, <1>10 DEF Butlast, Replaced

\* Length and elements of two sequences joined.
LEMMA ConcatFacts ==
  ASSUME NEW s, NEW t, IsSeq(s), IsSeq(t)
  PROVE  /\ IsSeq(s \o t)
         /\ Len(s) \in Nat /\ Len(t) \in Nat
         /\ DOMAIN s = 1..Len(s) /\ DOMAIN t = 1..Len(t)
         /\ DOMAIN (s \o t) = 1..(Len(s) + Len(t))
         /\ \A i \in 1..Len(s) : (s \o t)[i] = s[i]
         /\ \A i \in 1..Len(t) : (s \o t)[Len(s) + i] = t[i]
<1>1. PICK S, T : s \in Seq(S) /\ t \in Seq(T)
  BY DEF IsSeq
<1>2. s \in Seq(S \cup T) /\ t \in Seq(S \cup T)
  BY <1>1
<1>3. s \o t \in Seq(S \cup T)
  BY <1>2
<1> QED
  BY <1>2, <1>3 DEF IsSeq

\* So their length is the sum.
LEMMA ConcatLen ==
  ASSUME NEW s, NEW t, IsSeq(s), IsSeq(t)
  PROVE  Len(s \o t) = Len(s) + Len(t)
<1>1. PICK S, T : s \in Seq(S) /\ t \in Seq(T)
  BY DEF IsSeq
<1>2. s \in Seq(S \cup T) /\ t \in Seq(S \cup T)
  BY <1>1
<1> QED
  BY <1>2

\* Joining is associative.
LEMMA ConcatAssoc ==
  ASSUME NEW s, NEW t, NEW u, IsSeq(s), IsSeq(t), IsSeq(u)
  PROVE  s \o (t \o u) = (s \o t) \o u
<1>1. PICK S, T, U : s \in Seq(S) /\ t \in Seq(T) /\ u \in Seq(U)
  BY DEF IsSeq
<1> DEFINE E == S \cup T \cup U
<1>2. s \in Seq(E) /\ t \in Seq(E) /\ u \in Seq(E)
  BY <1>1
<1> HIDE DEF E
<1> QED
  BY <1>2

\* A function on the domain of a sequence is a sequence.
LEMMA MapFacts ==
  ASSUME NEW s, NEW t, IsSeq(s), t = [i \in DOMAIN s |-> t[i]]
  PROVE  IsSeq(t) /\ Len(t) = Len(s)
<1>1. Len(s) \in Nat /\ DOMAIN s = 1..Len(s)
  BY SeqFacts
<1> DEFINE R == {t[i] : i \in 1..Len(s)}
<1>2. t \in [1..Len(s) -> R]
  BY <1>1
<1>3. t \in Seq(R)
  BY <1>1, <1>2
<1>4. IsSeq(t)
  BY <1>3 DEF IsSeq
<1>5. DOMAIN t = 1..Len(s) /\ DOMAIN t = 1..Len(t) /\ Len(t) \in Nat
  BY <1>1, <1>2, <1>4, SeqFacts
<1> QED
  BY <1>1, <1>4, <1>5

\* A sequence of two elements is one and one.
LEMMA TwoJoined ==
  ASSUME NEW a, NEW b
  PROVE  <<a, b>> = <<a>> \o <<b>>
<1>1. <<a>> \in Seq({a, b}) /\ <<b>> \in Seq({a, b}) /\ <<a, b>> \in Seq({a, b})
  OBVIOUS
<1> DEFINE u == <<a>> \o <<b>>
<1>2. u \in Seq({a, b}) /\ Len(u) = 2 /\ u[1] = a /\ u[2] = b
  BY <1>1
<1> HIDE DEF u
<1>3. Len(<<a, b>>) = Len(u) /\ \A i \in 1..Len(<<a, b>>) : <<a, b>>[i] = u[i]
  BY <1>2
<1> QED
  BY <1>1, <1>2, <1>3, SeqEqual DEF u

\* A sequence of four elements is two and two.
LEMMA FourJoined ==
  ASSUME NEW a, NEW b, NEW c, NEW d
  PROVE  <<a, b, c, d>> = <<a, b>> \o <<c, d>>
<1> DEFINE S == {a, b, c, d}
           u == <<a, b>> \o <<c, d>>
<1>1. <<a, b>> \in Seq(S) /\ <<c, d>> \in Seq(S) /\ <<a, b, c, d>> \in Seq(S)
  OBVIOUS
<1>2. u \in Seq(S) /\ Len(u) = 4 /\ u[1] = a /\ u[2] = b /\ u[3] = c /\ u[4] = d
  BY <1>1
<1> HIDE DEF u
<1>3. Len(<<a, b, c, d>>) = Len(u)
      /\ \A i \in 1..Len(<<a, b, c, d>>) : <<a, b, c, d>>[i] = u[i]
  BY <1>2
<1> QED
  BY <1>1, <1>2, <1>3, SeqEqual DEF u
-----------------------------------------------------------------------------
(* Induction *)

\* Every set of naturals has a least element.
LEMMA LeastNat ==
  ASSUME NEW T \in SUBSET Nat, T # {}
  PROVE  \E n \in T : \A m \in T : n <= m
<1>1. \E R : IsWellFoundedOn(R, Nat) /\ \A m, n \in Nat : m < n => <<m, n>> \in R
  <2> DEFINE R == OpToRel(<, Nat)
  <2>1. IsWellFoundedOn(R, Nat)
    BY NatLessThanWellFounded
  <2>2. \A m, n \in Nat : m < n => <<m, n>> \in R
    BY DEF OpToRel
  <2> HIDE DEF R
  <2> QED
    BY <2>1, <2>2
<1>2. PICK R : IsWellFoundedOn(R, Nat) /\ \A m, n \in Nat : m < n => <<m, n>> \in R
  BY <1>1
<1>3. PICK n \in T : \A m \in T : ~(<<m, n>> \in R)
  <2>1. IsWellFoundedOn(R, Nat) /\ T \subseteq Nat
    BY <1>2
  <2> QED
    BY <2>1, WFMin
<1>4. n \in Nat /\ \A m \in T : m \in Nat /\ ~(m < n)
  BY <1>2, <1>3
<1> QED
  BY <1>3, <1>4

\* And every bounded one, that is not empty, a largest.
LEMMA LargestNat ==
  ASSUME NEW n \in Nat, NEW S \in SUBSET (0..n), S # {}
  PROVE  \E m \in S : \A x \in S : m >= x
<1> DEFINE T == {m \in Nat : \A x \in S : x <= m}
<1>1. n \in T
  OBVIOUS
<1>2. PICK m \in T : \A q \in T : m <= q
  <2>1. T \in SUBSET Nat /\ T # {}
    BY <1>1
  <2> HIDE DEF T
  <2> QED
    BY <2>1, LeastNat
<1>3. m \in S
  <2> SUFFICES ASSUME m \notin S PROVE FALSE
    OBVIOUS
  <2>1. \A x \in S : x <= m - 1
    BY <1>2
  <2>2. m - 1 \in Nat
    <3>1. PICK x \in S : x <= m - 1
      BY <2>1
    <3>2. x \in Nat /\ m \in Nat
      BY <1>2
    <3> QED
      BY <3>1, <3>2
  <2> QED
    BY <1>2, <2>1, <2>2
<1> QED
  BY <1>2, <1>3

\* Induction over the naturals: a property is given as the set that has it.
LEMMA SetInduction ==
  ASSUME NEW T, 0 \in T, \A n \in Nat : n \in T => n + 1 \in T
  PROVE  \A n \in Nat : n \in T
<1> SUFFICES ASSUME Nat \ T # {} PROVE FALSE
  OBVIOUS
<1>1. PICK n \in Nat \ T : \A m \in Nat \ T : n <= m
  BY LeastNat
<1>2. n # 0 /\ n - 1 \in Nat
  BY <1>1
<1>3. n - 1 \in T
  BY <1>1, <1>2
<1> QED
  BY <1>1, <1>2, <1>3

\* v is defined by recursion.
Recursive(v, b, g, n) == v = [k \in 0..n |-> IF k = 0 THEN b ELSE g[k - 1][v[k - 1]]]

\* There is such a function.
LEMMA Recursion ==
  ASSUME NEW A, NEW b \in A, NEW g \in [Nat -> [A -> A]], NEW n \in Nat
  PROVE  \E v \in [0..n -> A] : Recursive(v, b, g, n)
<1> DEFINE P(m, v) == v \in [0..m -> A] /\ v[0] = b /\ \A k \in 0..(m - 1) : v[k + 1] = g[k][v[k]]
           T == {m \in Nat : \E v : P(m, v)}
<1>1. 0 \in T
  <2> DEFINE v == [k \in 0..0 |-> b]
  <2>1. v \in [0..0 -> A] /\ v[0] = b
    OBVIOUS
  <2>2. \A k \in 0..(0 - 1) : FALSE
    OBVIOUS
  <2> HIDE DEF v
  <2> QED
    BY <2>1, <2>2
<1>2. ASSUME NEW m \in Nat, m \in T PROVE m + 1 \in T
  <2>1. PICK v : P(m, v)
    BY <1>2
  <2> DEFINE w == [k \in 0..(m + 1) |-> IF k = m + 1 THEN g[m][v[m]] ELSE v[k]]
  <2>2. v[m] \in A /\ g[m][v[m]] \in A
    <3>1. m \in 0..m /\ v \in [0..m -> A]
      BY <2>1
    <3> QED
      BY <3>1
  <2>3. \A k \in 0..m : k \in 0..(m + 1) /\ k # m + 1
    OBVIOUS
  <2>4. m + 1 \in 0..(m + 1)
    OBVIOUS
  <2>5. w[m + 1] = g[m][v[m]] /\ \A k \in 0..m : w[k] = v[k]
    BY <2>3, <2>4, Zenon
  <2>6. w \in [0..(m + 1) -> A]
    <3>1. \A k \in 0..(m + 1) : k = m + 1 \/ k \in 0..m
      OBVIOUS
    <3>2. \A k \in 0..m : v[k] \in A
      BY <2>1
    <3> QED
      BY <2>2, <3>1, <3>2
  <2> HIDE DEF w
  <2>7. w[0] = b
    <3>1. 0 \in 0..m
      OBVIOUS
    <3> QED
      BY <2>1, <2>5, <3>1
  <2>8. ASSUME NEW k \in 0..((m + 1) - 1) PROVE w[k + 1] = g[k][w[k]]
    <3>1. k \in 0..m /\ (k = m \/ (k \in 0..(m - 1) /\ k + 1 \in 0..m))
      OBVIOUS
    <3>2. w[k] = v[k]
      BY <2>5, <3>1
    <3>3. CASE k = m
      BY <2>5, <3>2, <3>3
    <3>4. CASE k \in 0..(m - 1) /\ k + 1 \in 0..m
      <4>1. w[k + 1] = v[k + 1]
        BY <2>5, <3>4
      <4>2. v[k + 1] = g[k][v[k]]
        BY <2>1, <3>4
      <4> QED
        BY <3>2, <4>1, <4>2
    <3> QED
      BY <3>1, <3>3, <3>4
  <2>9. P(m + 1, w)
    BY <2>6, <2>7, <2>8
  <2> QED
    BY <2>9
<1>3. n \in T
  <2> HIDE DEF T
  <2> QED
    BY <1>1, <1>2, SetInduction
<1>4. PICK v : P(n, v)
  BY <1>3
<1>5. v = [k \in 0..n |-> v[k]]
  BY <1>4
<1>6. ASSUME NEW k \in 0..n PROVE v[k] = IF k = 0 THEN b ELSE g[k - 1][v[k - 1]]
  <2>1. k = 0 \/ (k - 1 \in 0..(n - 1) /\ (k - 1) + 1 = k)
    OBVIOUS
  <2> QED
    BY <1>4, <2>1
<1>7. Recursive(v, b, g, n)
  BY <1>5, <1>6, Zenon DEF Recursive
<1> QED
  BY <1>4, <1>7
=============================================================================
