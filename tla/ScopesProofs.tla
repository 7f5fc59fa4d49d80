----------------------------- MODULE ScopesProofs -----------------------------
(***************************************************************************)
(* Theorems about Scopes: for every text, the scopes and the declarations  *)
(* being parsed agree with the calls that are active, errors included, and *)
(* what is accepted was read to its end; and in a text without an error    *)
(* names are the types, and mean the declarations, that C says.            *)
(***************************************************************************)
EXTENDS Scopes, SeqLemmas, FiniteSetTheorems

-----------------------------------------------------------------------------
(* Counting the entries of a sequence *)

Count(c, M) == Cardinality({i \in DOMAIN c : c[i] \in M})
Weight(x, M) == IF x \in M THEN 1 ELSE 0

\* Nothing is counted in nothing.
LEMMA CountNone ==
  ASSUME NEW M
  PROVE  Count(<<>>, M) = 0
<1>1. {i \in DOMAIN <<>> : <<>>[i] \in M} = {}
  OBVIOUS
<1> QED
  BY <1>1, FS_EmptySet DEF Count

\* One more entry counts if it is one of those.
LEMMA CountAppend ==
  ASSUME NEW c, IsSeq(c), NEW x, NEW M
  PROVE  /\ Count(Append(c, x), M) = Count(c, M) + Weight(x, M)
         /\ Count(c, M) \in Nat
<1> DEFINE d == Append(c, x)
           n == Len(c) + 1
           C == {i \in DOMAIN c : c[i] \in M}
           E == {i \in DOMAIN d : d[i] \in M}
<1>1. /\ Len(c) \in Nat /\ DOMAIN c = 1..Len(c) /\ DOMAIN d = 1..n
      /\ \A i \in 1..Len(c) : d[i] = c[i]
      /\ d[n] = x
  BY AppendFacts
<1>2. IsFiniteSet(C) /\ Cardinality(C) \in Nat /\ n \notin C
  <2>1. IsFiniteSet(1..Len(c))
    BY <1>1, FS_Interval
  <2>2. IsFiniteSet(C)
    BY <1>1, <2>1, FS_Subset
  <2> QED
    BY <1>1, <2>2, FS_CardinalityType
<1>3. E = IF x \in M THEN C \cup {n} ELSE C
  <2> HIDE DEF d
  <2>1. \A i : i \in 1..n <=> i \in 1..Len(c) \/ i = n
    BY <1>1
  <2> QED
    BY <1>1, <2>1
<1>4. Cardinality(C \cup {n}) = Cardinality(C) + 1
  BY <1>2, FS_AddElement
<1>5. Cardinality(E) = Cardinality(C) + Weight(x, M)
  <2>1. CASE x \in M
    BY <1>3, <1>4, <2>1 DEF Weight
  <2>2. CASE x \notin M
    <3>1. E = C
      BY <1>3, <2>2
    <3> HIDE DEF C, E
    <3> QED
      BY <1>2, <2>2, <3>1 DEF Weight
  <2> QED
    BY <2>1, <2>2
<1> QED
  BY <1>2, <1>5 DEF Count

-----------------------------------------------------------------------------
(* What the active calls hold *)

OpenMarks == {"block", "end of function"}
DeclMarks == {"external", "local", "param", "(void)"}
\* a "(" has been read that is not closed yet; or is about to be read
ParMarks == {")", "params", "(void)", "param", "arguments", "more"}
Opens(c) == Count(c, OpenMarks)
Decls(c) == Count(c, DeclMarks)
Blocks(c) == Count(c, {"block"})
Parens(c) == Count(c, ParMarks) - Count(c, {"("})

\* and of one call
Opens1(x) == Weight(x, OpenMarks)
Decls1(x) == Weight(x, DeclMarks)
Blocks1(x) == Weight(x, {"block"})
Parens1(x) == Weight(x, ParMarks) - Weight(x, {"("})

\* what a call may be made from
Follows(a, b) ==
  /\ b \notin {"begin", "unit", "{", "}"}
  /\ b \in {"declarator", "suffix", "params", "param", "(void)"} => a \in DeclMarks
  /\ b = "declspec" => a \in {"declarator", "(void)"}
Stack(c) ==
  /\ IsSeq(c)
  /\ c # <<>> => c[1] = "unit"
  /\ \A i \in 2..Len(c) : Follows(c[i - 1], c[i])

\* What the calls hold together.
LEMMA Held ==
  ASSUME NEW c, IsSeq(c), NEW x
  PROVE  /\ Opens(Append(c, x)) = Opens(c) + Opens1(x)
         /\ Decls(Append(c, x)) = Decls(c) + Decls1(x)
         /\ Blocks(Append(c, x)) = Blocks(c) + Blocks1(x)
         /\ Parens(Append(c, x)) = Parens(c) + Parens1(x)
         /\ Opens(c) \in Nat /\ Decls(c) \in Nat /\ Blocks(c) \in Nat /\ Parens(c) \in Int
         /\ Opens1(x) \in {0, 1} /\ Decls1(x) \in {0, 1} /\ Blocks1(x) \in {0, 1}
         /\ Parens1(x) \in {-1, 0, 1}
<1>1. ASSUME NEW M
      PROVE  /\ Count(Append(c, x), M) = Count(c, M) + Weight(x, M)
             /\ Count(c, M) \in Nat /\ Weight(x, M) \in {0, 1}
  BY CountAppend DEF Weight
<1>2. /\ Opens(Append(c, x)) = Opens(c) + Opens1(x)
      /\ Opens(c) \in Nat /\ Opens1(x) \in {0, 1}
  BY <1>1 DEF Opens, Opens1
<1>3. /\ Decls(Append(c, x)) = Decls(c) + Decls1(x)
      /\ Decls(c) \in Nat /\ Decls1(x) \in {0, 1}
  BY <1>1 DEF Decls, Decls1
<1>4. /\ Blocks(Append(c, x)) = Blocks(c) + Blocks1(x)
      /\ Blocks(c) \in Nat /\ Blocks1(x) \in {0, 1}
  BY <1>1 DEF Blocks, Blocks1
<1>5. /\ Parens(Append(c, x)) = Parens(c) + Parens1(x)
      /\ Parens(c) \in Int /\ Parens1(x) \in {-1, 0, 1}
  <2>1. /\ Count(Append(c, x), ParMarks) = Count(c, ParMarks) + Weight(x, ParMarks)
        /\ Count(c, ParMarks) \in Nat /\ Weight(x, ParMarks) \in {0, 1}
    BY <1>1
  <2>2. /\ Count(Append(c, x), {"("}) = Count(c, {"("}) + Weight(x, {"("})
        /\ Count(c, {"("}) \in Nat /\ Weight(x, {"("}) \in {0, 1}
    BY <1>1
  <2> QED
    BY <2>1, <2>2 DEF Parens, Parens1
<1> QED
  BY <1>2, <1>3, <1>4, <1>5

\* One more call on the stack.
LEMMA StackAppend ==
  ASSUME NEW c, Stack(c), c # <<>>, NEW x, Follows(c[Len(c)], x)
  PROVE  Stack(Append(c, x)) /\ Append(c, x) # <<>> /\ Append(c, x)[Len(Append(c, x))] = x
<1> DEFINE d == Append(c, x)
<1>1. /\ IsSeq(d) /\ Len(c) \in Nat /\ Len(d) = Len(c) + 1
      /\ \A i \in 1..Len(c) : d[i] = c[i]
      /\ d[Len(c) + 1] = x
      /\ Len(c) # 0
  BY AppendFacts, SeqFacts DEF Stack
<1> HIDE DEF d
<1>2. d # <<>>
  BY <1>1, SeqFacts
<1>3. d[1] = "unit"
  BY <1>1 DEF Stack
<1>4. ASSUME NEW i \in 2..Len(d) PROVE Follows(d[i - 1], d[i])
  <2>1. CASE i = Len(d)
    BY <1>1, <2>1
  <2>2. CASE i # Len(d)
    <3>1. i \in 2..Len(c) /\ i - 1 \in 1..Len(c) /\ i \in 1..Len(c)
      BY <1>1, <2>2
    <3> QED
      BY <1>1, <3>1 DEF Stack
  <2> QED
    BY <2>1, <2>2
<1>5. Stack(d)
  BY <1>1, <1>3, <1>4 DEF Stack
<1> QED
  BY <1>1, <1>2, <1>5 DEF d

\* A stack is what is under its top and its top.
LEMMA StackTop ==
  ASSUME NEW c, Stack(c), c # <<>>
  PROVE  /\ Stack(Pop(c)) /\ Len(Pop(c)) = Len(c) - 1 /\ Len(c) \in Nat \ {0}
         /\ c = Append(Pop(c), c[Len(c)])
         /\ c[Len(c)] # "unit" =>
              /\ Pop(c) # <<>> /\ Len(c) > 1 /\ Pop(c)[Len(Pop(c))] = c[Len(c) - 1]
              /\ Follows(c[Len(c) - 1], c[Len(c)])
<1>1. IsSeq(c) /\ Len(c) \in Nat \ {0} /\ DOMAIN c = 1..Len(c)
  BY SeqFacts DEF Stack
<1> DEFINE b == Pop(c)
           x == c[Len(c)]
<1>2. /\ IsSeq(b) /\ Len(b) = Len(c) - 1
      /\ \A i \in 1..(Len(c) - 1) : b[i] = c[i]
  BY <1>1, SubSeqFacts DEF Pop
<1>3. Stack(b)
  <2>1. b # <<>> => b[1] = c[1]
    BY <1>1, <1>2, SeqFacts
  <2> HIDE DEF b
  <2> QED
    BY <1>1, <1>2, <2>1 DEF Stack
<1>4. c = Append(b, x)
  <2>1. /\ IsSeq(Append(b, x)) /\ Len(Append(b, x)) = Len(c)
        /\ \A i \in 1..Len(c) : Append(b, x)[i] = c[i]
    <3> HIDE DEF b
    <3>1. /\ IsSeq(Append(b, x)) /\ Len(Append(b, x)) = Len(b) + 1
          /\ \A i \in 1..Len(b) : Append(b, x)[i] = b[i]
          /\ Append(b, x)[Len(b) + 1] = x
      BY <1>2, AppendFacts
    <3> QED
      BY <1>1, <1>2, <3>1
  <2> QED
    BY <1>1, <2>1, IsSeqEqual
<1>5. ASSUME x # "unit"
      PROVE  /\ b # <<>> /\ Len(c) > 1 /\ b[Len(b)] = c[Len(c) - 1]
             /\ Follows(c[Len(c) - 1], c[Len(c)])
  <2>1. Len(c) # 1
    BY <1>5 DEF Stack
  <2> HIDE DEF b
  <2> QED
    BY <1>1, <1>2, <2>1, SeqFacts DEF Stack
<1> QED
  BY <1>1, <1>2, <1>3, <1>4, <1>5
-----------------------------------------------------------------------------
(* What a call goes on with *)

\* A few more elements, one by one.
LEMMA OneMore ==
  ASSUME NEW s, IsSeq(s), NEW r, NEW x, IsSeq(r)
  PROVE  s \o Append(r, x) = Append(s \o r, x) /\ s \o <<>> = s
<1>1. /\ IsSeq(Append(r, x)) /\ Len(Append(r, x)) = Len(r) + 1
      /\ \A i \in 1..Len(r) : Append(r, x)[i] = r[i]
      /\ Append(r, x)[Len(r) + 1] = x
  BY AppendFacts
<1>2. /\ IsSeq(s \o r) /\ Len(s) \in Nat /\ Len(r) \in Nat
      /\ Len(s \o r) = Len(s) + Len(r)
      /\ \A i \in 1..Len(s) : (s \o r)[i] = s[i]
      /\ \A i \in 1..Len(r) : (s \o r)[Len(s) + i] = r[i]
  BY ConcatLen, ConcatFacts
<1> DEFINE q == Append(r, x)
           u == s \o q
           v == Append(s \o r, x)
<1>3. /\ IsSeq(u) /\ Len(u) = Len(s) + Len(q)
      /\ \A i \in 1..Len(s) : u[i] = s[i]
      /\ \A i \in 1..Len(q) : u[Len(s) + i] = q[i]
  <2> HIDE DEF q
  <2>1. IsSeq(q)
    BY <1>1 DEF q
  <2> QED
    BY <2>1, ConcatLen, ConcatFacts
<1>4. /\ IsSeq(v) /\ Len(v) = Len(s) + Len(r) + 1
      /\ \A i \in 1..(Len(s) + Len(r)) : v[i] = (s \o r)[i]
      /\ v[Len(s) + Len(r) + 1] = x
  BY <1>2, AppendFacts
<1> DEFINE w == s \o r
<1> HIDE DEF q, u, v, w
<1>5. ASSUME NEW i \in 1..Len(u) PROVE u[i] = v[i]
  <2>1. CASE i <= Len(s)
    BY <1>2, <1>3, <1>4, <2>1
  <2>2. CASE i > Len(s)
    <3>1. PICK j \in 1..(Len(r) + 1) : i = Len(s) + j
      <4>1. i - Len(s) \in 1..(Len(r) + 1) /\ i = Len(s) + (i - Len(s))
        BY <1>1, <1>2, <1>3, <2>2 DEF q
      <4> QED
        BY <4>1
    <3>2. u[i] = q[j]
      BY <1>1, <1>3, <3>1 DEF q
    <3>3. CASE j = Len(r) + 1
      BY <1>1, <1>2, <1>4, <3>1, <3>2, <3>3 DEF q
    <3>4. CASE j # Len(r) + 1
      <4>1. j \in 1..Len(r) /\ i \in 1..(Len(s) + Len(r))
        BY <1>2, <3>1, <3>4
      <4> QED
        BY <1>1, <1>2, <1>4, <3>1, <3>2, <4>1 DEF q
    <3> QED
      BY <3>3, <3>4
  <2> QED
    BY <1>2, <1>3, <2>1, <2>2
<1>6. u = v
  <2>1. Len(q) = Len(r) + 1
    BY <1>1 DEF q
  <2>2. Len(u) = Len(v)
    BY <1>2, <1>3, <1>4, <2>1
  <2> QED
    BY <1>3, <1>4, <1>5, <2>2, IsSeqEqual
<1>7. s \o <<>> = s
  <2>1. PICK S : s \in Seq(S)
    BY DEF IsSeq
  <2> QED
    BY <2>1
<1> QED
  BY <1>6, <1>7 DEF u, v, q

\* The stack with the calls it holds.
Holds(c, o, d, b, p) ==
  /\ Stack(c) /\ c # <<>>
  /\ Opens(c) = o /\ Decls(c) = d /\ Blocks(c) = b /\ Parens(c) = p

\* One more of them.
LEMMA HoldsMore ==
  ASSUME NEW c, NEW o, NEW d, NEW b, NEW p, Holds(c, o, d, b, p),
         NEW x, Follows(c[Len(c)], x)
  PROVE  /\ Holds(Append(c, x), o + Opens1(x), d + Decls1(x), b + Blocks1(x), p + Parens1(x))
         /\ Append(c, x)[Len(Append(c, x))] = x
  BY Held, StackAppend DEF Holds, Stack

\* The call at the top is over.
LEMMA HoldsLess ==
  ASSUME NEW c, Stack(c), c # <<>>, c[Len(c)] # "unit"
  PROVE  /\ Holds(Pop(c), Opens(c) - Opens1(c[Len(c)]), Decls(c) - Decls1(c[Len(c)]),
                  Blocks(c) - Blocks1(c[Len(c)]), Parens(c) - Parens1(c[Len(c)]))
         /\ Pop(c)[Len(Pop(c))] = c[Len(c) - 1]
<1> DEFINE b == Pop(c)
           x == c[Len(c)]
<1>1. /\ Stack(b) /\ b # <<>> /\ c = Append(b, x) /\ b[Len(b)] = c[Len(c) - 1]
  BY StackTop
<1> HIDE DEF b, x
<1>2. /\ Opens(Append(b, x)) = Opens(b) + Opens1(x) /\ Decls(Append(b, x)) = Decls(b) + Decls1(x)
      /\ Blocks(Append(b, x)) = Blocks(b) + Blocks1(x)
      /\ Parens(Append(b, x)) = Parens(b) + Parens1(x)
      /\ Opens(b) \in Nat /\ Decls(b) \in Nat /\ Blocks(b) \in Nat /\ Parens(b) \in Int
      /\ Opens1(x) \in {0, 1} /\ Decls1(x) \in {0, 1} /\ Blocks1(x) \in {0, 1}
      /\ Parens1(x) \in {-1, 0, 1}
  BY <1>1, Held DEF Stack
<1>3. /\ Opens(b) = Opens(c) - Opens1(x) /\ Decls(b) = Decls(c) - Decls1(x)
      /\ Blocks(b) = Blocks(c) - Blocks1(x) /\ Parens(b) = Parens(c) - Parens1(x)
  BY <1>1, <1>2
<1> QED
  BY <1>1, <1>3 DEF Holds, b, x

\* What every call holds by itself.
LEMMA Marks ==
  /\ \A x \in {"begin", "unit", "declarator", "declspec", "suffix", "compound", "statement",
               "expr", "postfix", "else", "return", ";", "call", "no call"} :
       Opens1(x) = 0 /\ Decls1(x) = 0 /\ Blocks1(x) = 0 /\ Parens1(x) = 0
  /\ \A x \in {")", "params", "arguments", "more"} :
       Opens1(x) = 0 /\ Decls1(x) = 0 /\ Blocks1(x) = 0 /\ Parens1(x) = 1
  /\ \A x \in {"param", "(void)"} :
       Opens1(x) = 0 /\ Decls1(x) = 1 /\ Blocks1(x) = 0 /\ Parens1(x) = 1
  /\ \A x \in {"external", "local"} :
       Opens1(x) = 0 /\ Decls1(x) = 1 /\ Blocks1(x) = 0 /\ Parens1(x) = 0
  /\ Opens1("(") = 0 /\ Decls1("(") = 0 /\ Blocks1("(") = 0 /\ Parens1("(") = -1
  /\ Opens1("block") = 1 /\ Decls1("block") = 0 /\ Blocks1("block") = 1 /\ Parens1("block") = 0
  /\ Opens1("end of function") = 1 /\ Decls1("end of function") = 0
  /\ Blocks1("end of function") = 0 /\ Parens1("end of function") = 0
  BY DEF Opens1, Decls1, Blocks1, Parens1, Weight, OpenMarks, DeclMarks, ParMarks

\* One, two and more calls after those of a stack.
LEMMA Joined ==
  ASSUME NEW s, IsSeq(s), NEW a, NEW b, NEW x, NEW y, NEW z
  PROVE  /\ s \o <<a>> = Append(s, a)
         /\ s \o <<a, b>> = Append(Append(s, a), b)
         /\ s \o <<a, b, x>> = Append(Append(Append(s, a), b), x)
         /\ s \o <<a, b, x, y>> = Append(Append(Append(Append(s, a), b), x), y)
         /\ s \o <<a, b, x, y, z>> = Append(Append(Append(Append(Append(s, a), b), x), y), z)
<1>0. IsSeq(<<>>) /\ s \o <<>> = s
  BY OneMore DEF IsSeq
<1>1. <<a>> = Append(<<>>, a) /\ IsSeq(<<a>>)
  <2>1. <<a>> = Append(<<>>, a)
    OBVIOUS
  <2>2. <<a>> \in Seq({a})
    OBVIOUS
  <2> QED
    BY <2>1, <2>2 DEF IsSeq
<1>2. <<a, b>> = Append(<<a>>, b) /\ IsSeq(<<a, b>>)
  <2>1. <<a, b>> = Append(<<a>>, b)
    OBVIOUS
  <2>2. <<a, b>> \in Seq({a, b})
    OBVIOUS
  <2> QED
    BY <2>1, <2>2 DEF IsSeq
<1>3. <<a, b, x>> = Append(<<a, b>>, x) /\ IsSeq(<<a, b, x>>)
  <2>1. <<a, b, x>> = Append(<<a, b>>, x)
    OBVIOUS
  <2>2. <<a, b, x>> \in Seq({a, b, x})
    OBVIOUS
  <2> QED
    BY <2>1, <2>2 DEF IsSeq
<1>4. <<a, b, x, y>> = Append(<<a, b, x>>, y) /\ IsSeq(<<a, b, x, y>>)
  <2>1. <<a, b, x, y>> = Append(<<a, b, x>>, y)
    OBVIOUS
  <2>2. <<a, b, x, y>> \in Seq({a, b, x, y})
    OBVIOUS
  <2> QED
    BY <2>1, <2>2 DEF IsSeq
<1>5. <<a, b, x, y, z>> = Append(<<a, b, x, y>>, z) /\ IsSeq(<<a, b, x, y, z>>)
  <2>1. <<a, b, x, y, z>> = Append(<<a, b, x, y>>, z)
    OBVIOUS
  <2>2. <<a, b, x, y, z>> \in Seq({a, b, x, y, z})
    OBVIOUS
  <2> QED
    BY <2>1, <2>2 DEF IsSeq
<1>6. s \o <<a>> = Append(s \o <<>>, a)
  BY <1>0, <1>1, OneMore
<1>7. s \o <<a, b>> = Append(s \o <<a>>, b)
  BY <1>0, <1>2, <1>1, OneMore
<1>8. s \o <<a, b, x>> = Append(s \o <<a, b>>, x)
  BY <1>0, <1>3, <1>2, OneMore
<1>9. s \o <<a, b, x, y>> = Append(s \o <<a, b, x>>, y)
  BY <1>0, <1>4, <1>3, OneMore
<1>10. s \o <<a, b, x, y, z>> = Append(s \o <<a, b, x, y>>, z)
  BY <1>0, <1>5, <1>4, OneMore
<1> QED
  BY <1>0, <1>6, <1>7, <1>8, <1>9, <1>10

\* The call is over.
LEMMA Goes0 ==
  ASSUME NEW c, Stack(c), c # <<>>, c[Len(c)] # "unit"
  PROVE  Holds(Pop(c) \o <<>>,
               Opens(c) - Opens1(c[Len(c)]),
               Decls(c) - Decls1(c[Len(c)]),
               Blocks(c) - Blocks1(c[Len(c)]),
               Parens(c) - Parens1(c[Len(c)]))
<1> DEFINE s == Pop(c)
           o == Opens(c) - Opens1(c[Len(c)])
           d == Decls(c) - Decls1(c[Len(c)])
           w == Blocks(c) - Blocks1(c[Len(c)])
           p == Parens(c) - Parens1(c[Len(c)])
<1>0. Holds(s, o, d, w, p) /\ s[Len(s)] = c[Len(c) - 1] /\ IsSeq(s)
  BY HoldsLess DEF Holds, Stack
<1> HIDE DEF s, o, d, w, p
<1>1. s \o <<>> = s
  BY <1>0, OneMore
<1> QED
  BY <1>0, <1>1 DEF s, o, d, w, p

\* It goes on with one call.
LEMMA Goes1 ==
  ASSUME NEW c, Stack(c), c # <<>>, c[Len(c)] # "unit", NEW a,
         Follows(c[Len(c) - 1], a)
  PROVE  Holds(Pop(c) \o <<a>>,
               Opens(c) - Opens1(c[Len(c)]) + Opens1(a),
               Decls(c) - Decls1(c[Len(c)]) + Decls1(a),
               Blocks(c) - Blocks1(c[Len(c)]) + Blocks1(a),
               Parens(c) - Parens1(c[Len(c)]) + Parens1(a))
<1> DEFINE s == Pop(c)
           o == Opens(c) - Opens1(c[Len(c)])
           d == Decls(c) - Decls1(c[Len(c)])
           w == Blocks(c) - Blocks1(c[Len(c)])
           p == Parens(c) - Parens1(c[Len(c)])
<1>0. Holds(s, o, d, w, p) /\ s[Len(s)] = c[Len(c) - 1] /\ IsSeq(s)
  BY HoldsLess DEF Holds, Stack
<1> HIDE DEF s, o, d, w, p
<1>1. /\ Holds(Append(s, a), o + Opens1(a), d + Decls1(a), w + Blocks1(a), p + Parens1(a))
      /\ Append(s, a)[Len(Append(s, a))] = a
  BY <1>0, HoldsMore
<1>2. s \o <<a>> = Append(s, a)
  BY <1>0, Joined
<1> QED
  BY <1>1, <1>2 DEF s, o, d, w, p

\* With two.
LEMMA Goes2 ==
  ASSUME NEW c, Stack(c), c # <<>>, c[Len(c)] # "unit", NEW a, NEW b,
         Follows(c[Len(c) - 1], a), Follows(a, b)
  PROVE  Holds(Pop(c) \o <<a, b>>,
               Opens(c) - Opens1(c[Len(c)]) + Opens1(a) + Opens1(b),
               Decls(c) - Decls1(c[Len(c)]) + Decls1(a) + Decls1(b),
               Blocks(c) - Blocks1(c[Len(c)]) + Blocks1(a) + Blocks1(b),
               Parens(c) - Parens1(c[Len(c)]) + Parens1(a) + Parens1(b))
<1> DEFINE s == Pop(c)
           o == Opens(c) - Opens1(c[Len(c)])
           d == Decls(c) - Decls1(c[Len(c)])
           w == Blocks(c) - Blocks1(c[Len(c)])
           p == Parens(c) - Parens1(c[Len(c)])
<1>0. Holds(s, o, d, w, p) /\ s[Len(s)] = c[Len(c) - 1] /\ IsSeq(s)
  BY HoldsLess DEF Holds, Stack
<1> HIDE DEF s, o, d, w, p
<1>1. /\ Holds(Append(s, a), o + Opens1(a), d + Decls1(a), w + Blocks1(a), p + Parens1(a))
      /\ Append(s, a)[Len(Append(s, a))] = a
  BY <1>0, HoldsMore
<1>2. /\ Holds(Append(Append(s, a), b), o + Opens1(a) + Opens1(b), d + Decls1(a) + Decls1(b), w + Blocks1(a) + Blocks1(b), p + Parens1(a) + Parens1(b))
      /\ Append(Append(s, a), b)[Len(Append(Append(s, a), b))] = b
  BY <1>1, HoldsMore
<1>3. s \o <<a, b>> = Append(Append(s, a), b)
  BY <1>0, Joined
<1> QED
  BY <1>2, <1>3 DEF s, o, d, w, p

\* With three.
LEMMA Goes3 ==
  ASSUME NEW c, Stack(c), c # <<>>, c[Len(c)] # "unit", NEW a, NEW b, NEW x,
         Follows(c[Len(c) - 1], a), Follows(a, b), Follows(b, x)
  PROVE  Holds(Pop(c) \o <<a, b, x>>,
               Opens(c) - Opens1(c[Len(c)]) + Opens1(a) + Opens1(b) + Opens1(x),
               Decls(c) - Decls1(c[Len(c)]) + Decls1(a) + Decls1(b) + Decls1(x),
               Blocks(c) - Blocks1(c[Len(c)]) + Blocks1(a) + Blocks1(b) + Blocks1(x),
               Parens(c) - Parens1(c[Len(c)]) + Parens1(a) + Parens1(b) + Parens1(x))
<1> DEFINE s == Pop(c)
           o == Opens(c) - Opens1(c[Len(c)])
           d == Decls(c) - Decls1(c[Len(c)])
           w == Blocks(c) - Blocks1(c[Len(c)])
           p == Parens(c) - Parens1(c[Len(c)])
<1>0. Holds(s, o, d, w, p) /\ s[Len(s)] = c[Len(c) - 1] /\ IsSeq(s)
  BY HoldsLess DEF Holds, Stack
<1> HIDE DEF s, o, d, w, p
<1>1. /\ Holds(Append(s, a), o + Opens1(a), d + Decls1(a), w + Blocks1(a), p + Parens1(a))
      /\ Append(s, a)[Len(Append(s, a))] = a
  BY <1>0, HoldsMore
<1>2. /\ Holds(Append(Append(s, a), b), o + Opens1(a) + Opens1(b), d + Decls1(a) + Decls1(b), w + Blocks1(a) + Blocks1(b), p + Parens1(a) + Parens1(b))
      /\ Append(Append(s, a), b)[Len(Append(Append(s, a), b))] = b
  BY <1>1, HoldsMore
<1>3. /\ Holds(Append(Append(Append(s, a), b), x), o + Opens1(a) + Opens1(b) + Opens1(x), d + Decls1(a) + Decls1(b) + Decls1(x), w + Blocks1(a) + Blocks1(b) + Blocks1(x), p + Parens1(a) + Parens1(b) + Parens1(x))
      /\ Append(Append(Append(s, a), b), x)[Len(Append(Append(Append(s, a), b), x))] = x
  BY <1>2, HoldsMore
<1>4. s \o <<a, b, x>> = Append(Append(Append(s, a), b), x)
  BY <1>0, Joined
<1> QED
  BY <1>3, <1>4 DEF s, o, d, w, p

\* With four.
LEMMA Goes4 ==
  ASSUME NEW c, Stack(c), c # <<>>, c[Len(c)] # "unit", NEW a, NEW b, NEW x, NEW y,
         Follows(c[Len(c) - 1], a), Follows(a, b), Follows(b, x), Follows(x, y)
  PROVE  Holds(Pop(c) \o <<a, b, x, y>>,
               Opens(c) - Opens1(c[Len(c)]) + Opens1(a) + Opens1(b) + Opens1(x) + Opens1(y),
               Decls(c) - Decls1(c[Len(c)]) + Decls1(a) + Decls1(b) + Decls1(x) + Decls1(y),
               Blocks(c) - Blocks1(c[Len(c)]) + Blocks1(a) + Blocks1(b) + Blocks1(x) + Blocks1(y),
               Parens(c) - Parens1(c[Len(c)]) + Parens1(a) + Parens1(b) + Parens1(x) + Parens1(y))
<1> DEFINE s == Pop(c)
           o == Opens(c) - Opens1(c[Len(c)])
           d == Decls(c) - Decls1(c[Len(c)])
           w == Blocks(c) - Blocks1(c[Len(c)])
           p == Parens(c) - Parens1(c[Len(c)])
<1>0. Holds(s, o, d, w, p) /\ s[Len(s)] = c[Len(c) - 1] /\ IsSeq(s)
  BY HoldsLess DEF Holds, Stack
<1> HIDE DEF s, o, d, w, p
<1>1. /\ Holds(Append(s, a), o + Opens1(a), d + Decls1(a), w + Blocks1(a), p + Parens1(a))
      /\ Append(s, a)[Len(Append(s, a))] = a
  BY <1>0, HoldsMore
<1>2. /\ Holds(Append(Append(s, a), b), o + Opens1(a) + Opens1(b), d + Decls1(a) + Decls1(b), w + Blocks1(a) + Blocks1(b), p + Parens1(a) + Parens1(b))
      /\ Append(Append(s, a), b)[Len(Append(Append(s, a), b))] = b
  BY <1>1, HoldsMore
<1>3. /\ Holds(Append(Append(Append(s, a), b), x), o + Opens1(a) + Opens1(b) + Opens1(x), d + Decls1(a) + Decls1(b) + Decls1(x), w + Blocks1(a) + Blocks1(b) + Blocks1(x), p + Parens1(a) + Parens1(b) + Parens1(x))
      /\ Append(Append(Append(s, a), b), x)[Len(Append(Append(Append(s, a), b), x))] = x
  BY <1>2, HoldsMore
<1>4. /\ Holds(Append(Append(Append(Append(s, a), b), x), y), o + Opens1(a) + Opens1(b) + Opens1(x) + Opens1(y), d + Decls1(a) + Decls1(b) + Decls1(x) + Decls1(y), w + Blocks1(a) + Blocks1(b) + Blocks1(x) + Blocks1(y), p + Parens1(a) + Parens1(b) + Parens1(x) + Parens1(y))
      /\ Append(Append(Append(Append(s, a), b), x), y)[Len(Append(Append(Append(Append(s, a), b), x), y))] = y
  BY <1>3, HoldsMore
<1>5. s \o <<a, b, x, y>> = Append(Append(Append(Append(s, a), b), x), y)
  BY <1>0, Joined
<1> QED
  BY <1>4, <1>5 DEF s, o, d, w, p

\* With five.
LEMMA Goes5 ==
  ASSUME NEW c, Stack(c), c # <<>>, c[Len(c)] # "unit", NEW a, NEW b, NEW x, NEW y, NEW z,
         Follows(c[Len(c) - 1], a), Follows(a, b), Follows(b, x), Follows(x, y), Follows(y, z)
  PROVE  Holds(Pop(c) \o <<a, b, x, y, z>>,
               Opens(c) - Opens1(c[Len(c)]) + Opens1(a) + Opens1(b) + Opens1(x) + Opens1(y) + Opens1(z),
               Decls(c) - Decls1(c[Len(c)]) + Decls1(a) + Decls1(b) + Decls1(x) + Decls1(y) + Decls1(z),
               Blocks(c) - Blocks1(c[Len(c)]) + Blocks1(a) + Blocks1(b) + Blocks1(x) + Blocks1(y) + Blocks1(z),
               Parens(c) - Parens1(c[Len(c)]) + Parens1(a) + Parens1(b) + Parens1(x) + Parens1(y) + Parens1(z))
<1> DEFINE s == Pop(c)
           o == Opens(c) - Opens1(c[Len(c)])
           d == Decls(c) - Decls1(c[Len(c)])
           w == Blocks(c) - Blocks1(c[Len(c)])
           p == Parens(c) - Parens1(c[Len(c)])
<1>0. Holds(s, o, d, w, p) /\ s[Len(s)] = c[Len(c) - 1] /\ IsSeq(s)
  BY HoldsLess DEF Holds, Stack
<1> HIDE DEF s, o, d, w, p
<1>1. /\ Holds(Append(s, a), o + Opens1(a), d + Decls1(a), w + Blocks1(a), p + Parens1(a))
      /\ Append(s, a)[Len(Append(s, a))] = a
  BY <1>0, HoldsMore
<1>2. /\ Holds(Append(Append(s, a), b), o + Opens1(a) + Opens1(b), d + Decls1(a) + Decls1(b), w + Blocks1(a) + Blocks1(b), p + Parens1(a) + Parens1(b))
      /\ Append(Append(s, a), b)[Len(Append(Append(s, a), b))] = b
  BY <1>1, HoldsMore
<1>3. /\ Holds(Append(Append(Append(s, a), b), x), o + Opens1(a) + Opens1(b) + Opens1(x), d + Decls1(a) + Decls1(b) + Decls1(x), w + Blocks1(a) + Blocks1(b) + Blocks1(x), p + Parens1(a) + Parens1(b) + Parens1(x))
      /\ Append(Append(Append(s, a), b), x)[Len(Append(Append(Append(s, a), b), x))] = x
  BY <1>2, HoldsMore
<1>4. /\ Holds(Append(Append(Append(Append(s, a), b), x), y), o + Opens1(a) + Opens1(b) + Opens1(x) + Opens1(y), d + Decls1(a) + Decls1(b) + Decls1(x) + Decls1(y), w + Blocks1(a) + Blocks1(b) + Blocks1(x) + Blocks1(y), p + Parens1(a) + Parens1(b) + Parens1(x) + Parens1(y))
      /\ Append(Append(Append(Append(s, a), b), x), y)[Len(Append(Append(Append(Append(s, a), b), x), y))] = y
  BY <1>3, HoldsMore
<1>5. /\ Holds(Append(Append(Append(Append(Append(s, a), b), x), y), z), o + Opens1(a) + Opens1(b) + Opens1(x) + Opens1(y) + Opens1(z), d + Decls1(a) + Decls1(b) + Decls1(x) + Decls1(y) + Decls1(z), w + Blocks1(a) + Blocks1(b) + Blocks1(x) + Blocks1(y) + Blocks1(z), p + Parens1(a) + Parens1(b) + Parens1(x) + Parens1(y) + Parens1(z))
      /\ Append(Append(Append(Append(Append(s, a), b), x), y), z)[Len(Append(Append(Append(Append(Append(s, a), b), x), y), z))] = z
  BY <1>4, HoldsMore
<1>6. s \o <<a, b, x, y, z>> = Append(Append(Append(Append(Append(s, a), b), x), y), z)
  BY <1>0, Joined
<1> QED
  BY <1>5, <1>6 DEF s, o, d, w, p

-----------------------------------------------------------------------------
(* What the parser's data are *)

MaybeNames == Names \cup {"none"}
Params == Seq([n : MaybeNames, at : Nat])
Types == [k : {"void", "schar", "uchar", "short", "ushort", "int", "uint", "ptr", "func", "null"},
          ps : Params]
Syms == [k : {"typedef", "func", "var", "none"}, type : Types, at : Nat]
AllScopes == UNION {[N -> Syms] : N \in SUBSET Names}
AllDecls == [td : BOOLEAN, saw : SUBSET TypeWords, type : Types, name : MaybeNames, at : Nat,
             ps : Params]

TypesInv ==
  /\ tok.n \in MaybeNames /\ (tok.k = "eof" => tok = EofTok)
  /\ pos \in Nat /\ nest \in [b : Int, p : Int]
  /\ label \in BOOLEAN /\ err \in BOOLEAN
  /\ scopes \in Seq(AllScopes)
  /\ decls \in Seq(AllDecls)

\* The largest of some numbers.
LEMMA MaxFacts ==
  ASSUME NEW n \in Nat, NEW S \in SUBSET (1..n), S # {}
  PROVE  Max(S) \in S /\ \A x \in S : x <= Max(S)
<1>1. PICK m \in S : \A x \in S : m >= x
  <2>1. S \in SUBSET (0..n)
    OBVIOUS
  <2> QED
    BY <2>1, LargestNat
<1>2. Max(S) \in S /\ \A y \in S : Max(S) >= y
  BY <1>1 DEF Max
<1> QED
  BY <1>2

\* No declaration, no symbol.
LEMMA NoneTypes ==
  /\ NoDecl \in AllDecls /\ NullType \in Types /\ NoSym \in Syms /\ Func(<<>>) \in Types
  /\ Type("int") \in Types /\ Type("ptr") \in Types /\ <<>> \in AllScopes
<1>1. <<>> \in Params
  BY DEF Params
<1>2. NullType \in Types /\ Func(<<>>) \in Types /\ Type("int") \in Types /\ Type("ptr") \in Types
  BY <1>1 DEF NullType, Type, Func, Types
<1>3. NoSym \in Syms
  BY <1>2 DEF NoSym, Sym, Syms
<1>4. NoDecl \in AllDecls
  BY <1>1, <1>2 DEF NoDecl, AllDecls, MaybeNames
<1>5. <<>> \in AllScopes
  <2>1. <<>> \in [{} -> Syms]
    OBVIOUS
  <2> QED
    BY <2>1 DEF AllScopes
<1> QED
  BY <1>2, <1>3, <1>4, <1>5

\* A name is found in a scope.
LEMMA LookupType ==
  ASSUME NEW s \in Seq(AllScopes), NEW n
  PROVE  Lookup(s, n) \in Syms
<1> DEFINE in == {i \in DOMAIN s : n \in DOMAIN s[i]}
<1>1. Len(s) \in Nat /\ DOMAIN s = 1..Len(s) /\ in \in SUBSET (1..Len(s))
  OBVIOUS
<1>2. CASE in = {}
  BY <1>2, NoneTypes DEF Lookup
<1>3. CASE in # {}
  <2>1. Max(in) \in in
    <3> HIDE DEF in
    <3> QED
      BY <1>1, <1>3, MaxFacts
  <2>2. n \in DOMAIN s[Max(in)] /\ s[Max(in)] \in AllScopes
    BY <1>1, <2>1
  <2>3. s[Max(in)][n] \in Syms
    BY <2>2 DEF AllScopes
  <2>4. Lookup(s, n) = s[Max(in)][n]
    BY <1>3 DEF Lookup
  <2> QED
    BY <2>3, <2>4
<1> QED
  BY <1>2, <1>3

\* A scope with one more name, or with a name declared again.
LEMMA BindType ==
  ASSUME NEW s \in Seq(AllScopes), s # <<>>, NEW n \in MaybeNames, NEW x \in Syms
  PROVE  Bind(s, n, x) \in Seq(AllScopes) /\ Len(Bind(s, n, x)) = Len(s) /\ Bind(s, n, x) # <<>>
<1>1. CASE n = "none"
  BY <1>1 DEF Bind
<1>2. CASE n # "none"
  <2> DEFINE f == s[Len(s)]
             g == [m \in DOMAIN f \cup {n} |-> IF m = n THEN x ELSE f[m]]
  <2>1. Len(s) \in Nat \ {0} /\ Len(s) \in 1..Len(s) /\ f \in AllScopes
    OBVIOUS
  <2>2. DOMAIN f \subseteq Names /\ \A m \in DOMAIN f : f[m] \in Syms
    BY <2>1 DEF AllScopes
  <2>3. g \in AllScopes
    <3>1. DOMAIN f \cup {n} \in SUBSET Names
      BY <1>2, <2>2 DEF MaybeNames
    <3>2. g \in [DOMAIN f \cup {n} -> Syms]
      BY <2>2
    <3> HIDE DEF f, g
    <3> QED
      BY <3>1, <3>2 DEF AllScopes
  <2>4. Bind(s, n, x) = [s EXCEPT ![Len(s)] = g]
    BY <1>2 DEF Bind
  <2> HIDE DEF g, f
  <2>5. [s EXCEPT ![Len(s)] = g] \in Seq(AllScopes)
        /\ Len([s EXCEPT ![Len(s)] = g]) = Len(s)
    BY <2>1, <2>3, ExceptSeq
  <2> QED
    BY <2>1, <2>4, <2>5
<1> QED
  BY <1>1, <1>2

\* The parameters of a function are in a scope.
LEMMA ParamScopeType ==
  ASSUME NEW ps \in Params
  PROVE  ParamScope(ps) \in AllScopes
<1> DEFINE N == {ps[i].n : i \in DOMAIN ps} \ {"none"}
           At(n) == {i \in DOMAIN ps : ps[i].n = n}
<1>1. Len(ps) \in Nat /\ DOMAIN ps = 1..Len(ps)
      /\ \A i \in DOMAIN ps : ps[i].n \in MaybeNames /\ ps[i].at \in Nat
  <2>1. ps \in Seq([n : MaybeNames, at : Nat])
    BY DEF Params
  <2>2. ASSUME NEW R, ps \in Seq(R)
        PROVE  Len(ps) \in Nat /\ DOMAIN ps = 1..Len(ps) /\ \A i \in DOMAIN ps : ps[i] \in R
    BY <2>2
  <2>3. \A i \in DOMAIN ps : ps[i] \in [n : MaybeNames, at : Nat]
    BY <2>1, <2>2
  <2> QED
    BY <2>1, <2>2, <2>3
<1>2. N \in SUBSET Names
  BY <1>1 DEF MaybeNames
<1>3. ASSUME NEW n \in N PROVE Sym("var", Type("int"), ps[Max(At(n))].at) \in Syms
  <2>1. At(n) \in SUBSET (1..Len(ps)) /\ At(n) # {}
    BY <1>1
  <2>2. Max(At(n)) \in At(n)
    <3> HIDE DEF At
    <3> QED
      BY <1>1, <2>1, MaxFacts
  <2>3. ps[Max(At(n))].at \in Nat
    BY <1>1, <2>2
  <2> HIDE DEF At
  <2> QED
    BY <2>3, NoneTypes DEF Sym, Syms
<1>4. ParamScope(ps) = [n \in N |-> Sym("var", Type("int"), ps[Max(At(n))].at)]
  BY DEF ParamScope
<1> HIDE DEF N, At
<1>5. ParamScope(ps) \in [N -> Syms]
  BY <1>3, <1>4
<1> QED
  BY <1>2, <1>5 DEF AllScopes

\* The next token, whatever scopes the lexer looks into.
LEMMA LexType ==
  ASSUME TypesInv, NEW s, Lex(s)
  PROVE  /\ tok'.n \in MaybeNames /\ (tok'.k = "eof" => tok' = EofTok)
         /\ pos' \in Nat /\ nest' \in [b : Int, p : Int]
         /\ tok.k \notin {"{", "}", "(", ")"} => nest'.b = nest.b /\ nest'.p = nest.p
         /\ tok.k = "{" => nest'.b = nest.b + 1 /\ nest'.p = nest.p
         /\ tok.k = "}" => nest'.b = nest.b - 1 /\ nest'.p = nest.p
         /\ tok.k = "(" => nest'.b = nest.b /\ nest'.p = nest.p + 1
         /\ tok.k = ")" => nest'.b = nest.b /\ nest'.p = nest.p - 1
<1>1. ASSUME NEW w
      PROVE  Token(s, w).n \in MaybeNames /\ (Token(s, w).k = "eof" => Token(s, w) = EofTok)
  BY DEF Token, MaybeNames, EofTok
<1>2. EofTok.n \in MaybeNames
  BY DEF EofTok, MaybeNames
<1>3. tok'.n \in MaybeNames /\ (tok'.k = "eof" => tok' = EofTok) /\ pos' \in Nat
  <2>1. tok' = EofTok \/ \E w : tok' = Token(s, w)
    BY DEF Lex
  <2>2. pos' = pos + 1 /\ pos \in Nat
    BY DEF Lex, TypesInv
  <2> QED
    BY <1>1, <1>2, <2>1, <2>2
<1> DEFINE b == IF tok.k = "{" THEN 1 ELSE IF tok.k = "}" THEN -1 ELSE 0
           p == IF tok.k = "(" THEN 1 ELSE IF tok.k = ")" THEN -1 ELSE 0
<1>4. nest' = [b |-> nest.b + b, p |-> nest.p + p]
  BY DEF Lex
<1>5. nest.b \in Int /\ nest.p \in Int /\ b \in Int /\ p \in Int
  BY DEF TypesInv
<1>6. nest' \in [b : Int, p : Int]
  <2> HIDE DEF b, p
  <2>1. nest.b + b \in Int /\ nest.p + p \in Int
    BY <1>5
  <2> QED
    BY <1>4, <2>1
<1>7. nest'.b = nest.b + b /\ nest'.p = nest.p + p
  BY <1>4
<1>8. /\ tok.k \notin {"{", "}", "(", ")"} => b = 0 /\ p = 0
      /\ tok.k = "{" => b = 1 /\ p = 0
      /\ tok.k = "}" => b = -1 /\ p = 0
      /\ tok.k = "(" => b = 0 /\ p = 1
      /\ tok.k = ")" => b = 0 /\ p = -1
  OBVIOUS
<1> HIDE DEF b, p
<1>9. /\ tok.k \notin {"{", "}", "(", ")"} => nest'.b = nest.b /\ nest'.p = nest.p
      /\ tok.k = "{" => nest'.b = nest.b + 1 /\ nest'.p = nest.p
      /\ tok.k = "}" => nest'.b = nest.b - 1 /\ nest'.p = nest.p
      /\ tok.k = "(" => nest'.b = nest.b /\ nest'.p = nest.p + 1
      /\ tok.k = ")" => nest'.b = nest.b /\ nest'.p = nest.p - 1
  <2> DEFINE x == nest.b
             y == nest.p
  <2>1. x \in Int /\ y \in Int /\ nest'.b = x + b /\ nest'.p = y + p
    BY <1>5, <1>7
  <2> HIDE DEF x, y
  <2>2. /\ x + 0 = x /\ y + 0 = y /\ x + (-1) = x - 1 /\ y + (-1) = y - 1
    BY <2>1
  <2>3. /\ tok.k \notin {"{", "}", "(", ")"} => nest'.b = x /\ nest'.p = y
        /\ tok.k = "{" => nest'.b = x + 1 /\ nest'.p = y
        /\ tok.k = "}" => nest'.b = x - 1 /\ nest'.p = y
        /\ tok.k = "(" => nest'.b = x /\ nest'.p = y + 1
        /\ tok.k = ")" => nest'.b = x /\ nest'.p = y - 1
    BY <1>8, <2>1, <2>2, Zenon
  <2> QED
    BY <2>3 DEF x, y
<1> QED
  BY <1>3, <1>6, <1>9
-----------------------------------------------------------------------------
(* The calls, the scopes, the declarations and the brackets agree *)

CountsInv ==
  IF ctl = <<"begin">>
    THEN tok.k = "none" /\ Len(scopes) = 1 /\ decls = <<>> /\ nest.b = 0 /\ nest.p = 0
    ELSE /\ Stack(ctl)
         /\ Len(scopes) = 1 + Opens(ctl) /\ Len(decls) = Decls(ctl)
         /\ ~err => nest.b = Blocks(ctl) /\ nest.p = Parens(ctl)
         /\ ctl = <<>> /\ ~err => tok.k = "eof"
CInv == TypesInv /\ CountsInv

\* Where a call is active the parser is in the unit.
LEMMA Active ==
  ASSUME CInv, ctl # <<>>, Top # "begin"
  PROVE  /\ Stack(ctl) /\ IsSeq(ctl) /\ ctl # <<"begin">>
         /\ Len(scopes) = 1 + Opens(ctl) /\ Len(decls) = Decls(ctl)
         /\ ~err => nest.b = Blocks(ctl) /\ nest.p = Parens(ctl)
         /\ Opens(ctl) \in Nat /\ Decls(ctl) \in Nat /\ Blocks(ctl) \in Nat /\ Parens(ctl) \in Int
         /\ Top # "unit" => Follows(ctl[Len(ctl) - 1], Top)
<1>1. ctl # <<"begin">>
  BY DEF Top
<1>2. Stack(ctl) /\ IsSeq(ctl)
  BY <1>1 DEF CInv, CountsInv, Stack
<1>3. /\ Opens(ctl) \in Nat /\ Decls(ctl) \in Nat /\ Blocks(ctl) \in Nat /\ Parens(ctl) \in Int
  BY <1>2, Held
<1>4. Top # "unit" => Follows(ctl[Len(ctl) - 1], Top)
  BY <1>2, StackTop DEF Top
<1> QED
  BY <1>1, <1>2, <1>3, <1>4 DEF CInv, CountsInv

\* A declaration is there for whoever wants one, and the one around it.
LEMMA DeclsThere ==
  ASSUME NEW c, Stack(c), c # <<>>
  PROVE  /\ c[Len(c)] \in DeclMarks \cup {"declarator", "suffix", "params", "declspec"}
              => Decls(c) >= 1
         /\ c[Len(c)] \in {"param", "(void)"} => Decls(c) >= 2
<1>1. ASSUME NEW e, Stack(e), e # <<>>
      PROVE  /\ e[Len(e)] # "unit" =>
                  /\ Stack(Pop(e)) /\ Pop(e) # <<>> /\ Follows(Pop(e)[Len(Pop(e))], e[Len(e)])
                  /\ Decls(Pop(e)) = Decls(e) - Decls1(e[Len(e)])
             /\ Decls(e) \in Nat
             /\ e[Len(e)] \in DeclMarks => Decls1(e[Len(e)]) = 1
             /\ Decls1(e[Len(e)]) \in {0, 1}
  <2>1. Decls(e) \in Nat /\ Decls1(e[Len(e)]) \in {0, 1}
    BY <1>1, Held DEF Stack
  <2>2. e[Len(e)] \in DeclMarks => Decls1(e[Len(e)]) = 1
    BY DEF Decls1, Weight
  <2> QED
    BY <1>1, <2>1, <2>2, HoldsLess, StackTop DEF Holds
<1>2. ASSUME NEW e, Stack(e), e # <<>>, e[Len(e)] \in DeclMarks PROVE Decls(e) >= 1
  <2>1. e[Len(e)] # "unit"
    BY <1>2 DEF DeclMarks
  <2>2. Decls(Pop(e)) \in Nat /\ Decls(Pop(e)) = Decls(e) - 1 /\ Decls(e) \in Nat
    BY <1>1, <1>2, <2>1
  <2> QED
    BY <2>2
<1>3. ASSUME NEW e, Stack(e), e # <<>>,
             e[Len(e)] \in {"declarator", "suffix", "params", "param", "(void)"}
      PROVE  Decls(e) >= 1 + Decls1(e[Len(e)])
  <2>1. Pop(e)[Len(Pop(e))] \in DeclMarks
    BY <1>1, <1>3 DEF Follows
  <2>2. Decls(Pop(e)) >= 1 /\ Decls(Pop(e)) = Decls(e) - Decls1(e[Len(e)])
    BY <1>1, <1>2, <1>3, <2>1
  <2> QED
    BY <1>1, <1>3, <2>2
<1>4. ASSUME c[Len(c)] = "declspec" PROVE Decls(c) >= 1
  <2>1. /\ Stack(Pop(c)) /\ Pop(c) # <<>> /\ Pop(c)[Len(Pop(c))] \in {"declarator", "(void)"}
        /\ Decls(Pop(c)) = Decls(c) - Decls1(c[Len(c)])
    BY <1>1, <1>4 DEF Follows
  <2>2. Decls(Pop(c)) >= 1 + Decls1(Pop(c)[Len(Pop(c))])
    BY <1>3, <2>1
  <2> QED
    BY <1>1, <2>1, <2>2
<1>5. c[Len(c)] \in {"param", "(void)"} => Decls(c) >= 2
  BY <1>1, <1>3 DEF DeclMarks
<1>6. c[Len(c)] \in {"declarator", "suffix", "params"} => Decls(c) >= 1
  <2>1. c[Len(c)] \in {"declarator", "suffix", "params"} => Decls1(c[Len(c)]) = 0
    BY Marks
  <2> QED
    BY <1>3, <2>1
<1> QED
  BY <1>2, <1>4, <1>5, <1>6

\* What a step changes by itself it changes in all of them.
LEMMA Keeps ==
  ASSUME TypesInv', Stack(ctl'), ctl' # <<>>,
         Len(scopes') = 1 + Opens(ctl'), Len(decls') = Decls(ctl'),
         ~err' => nest'.b = Blocks(ctl') /\ nest'.p = Parens(ctl')
  PROVE  CInv'
  BY DEF CInv, CountsInv, Stack

Bracket == tok.k \in {"{", "}", "(", ")"}
\* No step takes an error back, and most steps change none of the counts.
LEMMA Neutral ==
  ASSUME CInv, TypesInv', ctl # <<>>, Top # "begin", NEW s, Stay \/ (Lex(s) /\ ~Bracket),
         Holds(ctl', Opens(ctl), Decls(ctl), Blocks(ctl), Parens(ctl)),
         Len(scopes') = Len(scopes), Len(decls') = Len(decls), err => err'
  PROVE  CInv'
<1>1. nest'.b = nest.b /\ nest'.p = nest.p
  BY LexType DEF CInv, Stay, Bracket
<1>2. /\ Opens(ctl') = Opens(ctl) /\ Decls(ctl') = Decls(ctl) /\ Blocks(ctl') = Blocks(ctl)
      /\ Parens(ctl') = Parens(ctl) /\ Stack(ctl') /\ ctl' # <<>>
  BY DEF Holds
<1>3. /\ Len(scopes) = 1 + Opens(ctl) /\ Len(decls) = Decls(ctl)
      /\ ~err => nest.b = Blocks(ctl) /\ nest.p = Parens(ctl)
  BY Active
<1> QED
  BY <1>1, <1>2, <1>3, Keeps

\* A step keeps the types that keeps those it changes.
LEMMA TypesKept ==
  ASSUME CInv, NEW s, Lex(s) \/ Stay,
         scopes' \in Seq(AllScopes), decls' \in Seq(AllDecls), label' \in BOOLEAN, err' \in BOOLEAN
  PROVE  TypesInv'
<1>1. /\ tok'.n \in MaybeNames /\ (tok'.k = "eof" => tok' = EofTok)
      /\ pos' \in Nat /\ nest' \in [b : Int, p : Int]
  BY LexType DEF CInv, TypesInv, Stay
<1> QED
  BY <1>1 DEF TypesInv

\* Those that leave the scopes alone, and may write into a declaration.
LEMMA NeutralStep ==
  ASSUME CInv, ctl # <<>>, Top # "begin", Stay \/ (Lex(scopes) /\ ~Bracket),
         Holds(ctl', Opens(ctl), Decls(ctl), Blocks(ctl), Parens(ctl)),
         scopes' = scopes, decls' \in Seq(AllDecls), Len(decls') = Len(decls),
         label' \in BOOLEAN, err' \in BOOLEAN, err => err'
  PROVE  CInv'
<1>1. TypesInv'
  <2>1. scopes' \in Seq(AllScopes)
    BY DEF CInv, TypesInv
  <2>2. Lex(scopes) \/ Stay
    OBVIOUS
  <2> QED
    BY <2>1, <2>2, TypesKept
<1> QED
  BY <1>1, Neutral

\* The innermost declaration, or the two innermost ones, replaced.
LEMMA DeclsFacts ==
  ASSUME decls \in Seq(AllDecls)
  PROVE  /\ Len(decls) \in Nat
         /\ Append(decls, NoDecl) \in Seq(AllDecls) /\ Len(Append(decls, NoDecl)) = Len(decls) + 1
         /\ Len(decls) >= 1 =>
              /\ D \in AllDecls
              /\ Pop(decls) \in Seq(AllDecls) /\ Len(Pop(decls)) = Len(decls) - 1
              /\ \A d \in AllDecls : /\ Append(Pop(decls), d) \in Seq(AllDecls)
                                     /\ Len(Append(Pop(decls), d)) = Len(decls)
         /\ Len(decls) >= 2 =>
              /\ Outer \in AllDecls
              /\ \A d \in AllDecls :
                   /\ Append(SubSeq(decls, 1, Len(decls) - 2), d) \in Seq(AllDecls)
                   /\ Len(Append(SubSeq(decls, 1, Len(decls) - 2), d)) = Len(decls) - 1
<1>1. Append(decls, NoDecl) \in Seq(AllDecls) /\ Len(Append(decls, NoDecl)) = Len(decls) + 1
      /\ Len(decls) \in Nat
  BY NoneTypes
<1>2. ASSUME NEW m \in 0..Len(decls)
      PROVE  /\ SubSeq(decls, 1, m) \in Seq(AllDecls) /\ Len(SubSeq(decls, 1, m)) = m
             /\ \A d \in AllDecls : /\ Append(SubSeq(decls, 1, m), d) \in Seq(AllDecls)
                                    /\ Len(Append(SubSeq(decls, 1, m), d)) = m + 1
  <2>1. SubSeq(decls, 1, m) \in Seq(AllDecls) /\ Len(SubSeq(decls, 1, m)) = m
    <3>1. IsSeq(decls)
      BY DEF IsSeq
    <3>2. Len(SubSeq(decls, 1, m)) = m
      BY <3>1, SubSeqFacts
    <3> QED
      BY <1>1, <3>2
  <2> QED
    BY <2>1
<1>3. ASSUME Len(decls) >= 1
      PROVE  /\ D \in AllDecls
             /\ Pop(decls) \in Seq(AllDecls) /\ Len(Pop(decls)) = Len(decls) - 1
             /\ \A d \in AllDecls : /\ Append(Pop(decls), d) \in Seq(AllDecls)
                                    /\ Len(Append(Pop(decls), d)) = Len(decls)
  <2>1. Len(decls) - 1 \in 0..Len(decls) /\ Len(decls) - 1 + 1 = Len(decls)
        /\ Len(decls) \in 1..Len(decls)
    BY <1>1, <1>3
  <2>2. D \in AllDecls
    BY <2>1 DEF D
  <2> QED
    BY <1>2, <2>1, <2>2 DEF Pop
<1>4. ASSUME Len(decls) >= 2
      PROVE  /\ Outer \in AllDecls
             /\ \A d \in AllDecls :
                  /\ Append(SubSeq(decls, 1, Len(decls) - 2), d) \in Seq(AllDecls)
                  /\ Len(Append(SubSeq(decls, 1, Len(decls) - 2), d)) = Len(decls) - 1
  <2>1. Len(decls) - 2 \in 0..Len(decls) /\ Len(decls) - 2 + 1 = Len(decls) - 1
        /\ Len(decls) - 1 \in 1..Len(decls)
    BY <1>1, <1>4
  <2>2. Outer \in AllDecls
    BY <2>1 DEF Outer
  <2> QED
    BY <1>2, <2>1, <2>2
<1> QED
  BY <1>1, <1>3, <1>4

\* The innermost scope removed, and one more.
LEMMA ScopesFacts ==
  ASSUME scopes \in Seq(AllScopes), Len(scopes) >= 1
  PROVE  /\ Len(scopes) \in Nat /\ scopes # <<>>
         /\ Pop(scopes) \in Seq(AllScopes) /\ Len(Pop(scopes)) = Len(scopes) - 1
         /\ \A f \in AllScopes : /\ Append(scopes, f) \in Seq(AllScopes)
                                 /\ Len(Append(scopes, f)) = Len(scopes) + 1
<1>1. Len(scopes) \in Nat /\ scopes # <<>> /\ Len(scopes) - 1 \in 0..Len(scopes)
  OBVIOUS
<1>2. Pop(scopes) \in Seq(AllScopes)
  BY <1>1 DEF Pop
<1>3. Len(Pop(scopes)) = Len(scopes) - 1
  <2>1. IsSeq(scopes)
    BY DEF IsSeq
  <2> QED
    BY <1>1, <2>1, SubSeqFacts DEF Pop
<1> QED
  BY <1>1, <1>2, <1>3

-----------------------------------------------------------------------------
(* Every step keeps the invariant *)

\* The parser starts in the file's scope.
LEMMA InitInv == Init => CInv
<1> SUFFICES ASSUME Init PROVE CInv
  OBVIOUS
<1>1. TypesInv
  <2>1. scopes \in Seq(AllScopes)
    BY NoneTypes DEF Init
  <2>2. decls \in Seq(AllDecls) /\ nest \in [b : Int, p : Int]
    BY DEF Init
  <2>3. tok.n \in MaybeNames /\ tok.k = "none"
    BY DEF Init, MaybeNames
  <2> QED
    BY <2>1, <2>2, <2>3 DEF Init, TypesInv
<1>2. CountsInv
  BY DEF Init, CountsInv
<1> QED
  BY <1>1, <1>2 DEF CInv

\* Reading the unit takes no scope but the file's.
LEMMA HeldUnit ==
  /\ Opens(Append(<<>>, "unit")) = 0 /\ Decls(Append(<<>>, "unit")) = 0
  /\ Blocks(Append(<<>>, "unit")) = 0 /\ Parens(Append(<<>>, "unit")) = 0
<1> DEFINE c == <<>>
           x == "unit"
<1>1. /\ IsSeq(c) /\ Opens(c) = 0 /\ Decls(c) = 0 /\ Blocks(c) = 0 /\ Parens(c) = 0
  BY CountNone DEF Opens, Decls, Blocks, Parens, IsSeq
<1>2. Opens1(x) = 0 /\ Decls1(x) = 0 /\ Blocks1(x) = 0 /\ Parens1(x) = 0
  BY Marks
<1> HIDE DEF c, x
<1>3. /\ Opens(Append(c, x)) = 0 /\ Decls(Append(c, x)) = 0
      /\ Blocks(Append(c, x)) = 0 /\ Parens(Append(c, x)) = 0
  BY <1>1, <1>2, Held
<1> QED
  BY <1>3 DEF c, x

\* The first token is read.
LEMMA BeginInv ==
  ASSUME CInv, Begin
  PROVE  CInv'
<1>1. /\ ctl # <<>> /\ Top = "begin" /\ ctl' = Pop(ctl) \o <<"unit">> /\ Lex(scopes)
      /\ UNCHANGED <<decls, scopes, label, err>>
  BY DEF Begin, Doing, Then
<1>2. ctl = <<"begin">>
  <2> SUFFICES ASSUME ctl # <<"begin">> PROVE FALSE
    OBVIOUS
  <2>1. Stack(ctl)
    BY DEF CInv, CountsInv
  <2> QED
    BY <1>1, <2>1, StackTop DEF Top, Follows
<1>3. ctl' = <<"unit">>
  <2>1. SubSeq(<<"begin">>, 1, 0) = <<>> /\ Len(<<"begin">>) = 1
    OBVIOUS
  <2>2. Pop(ctl) = <<>>
    BY <1>2, <2>1 DEF Pop
  <2>3. <<>> \o <<"unit">> = <<"unit">>
    OBVIOUS
  <2> QED
    BY <1>1, <2>2, <2>3
<1>4. Holds(ctl', 0, 0, 0, 0)
  <2>1. IsSeq(<<>>) /\ <<"unit">> = Append(<<>>, "unit") /\ IsSeq(<<"unit">>)
    <3>1. <<"unit">> \in Seq({"unit"}) /\ <<>> \in Seq({"unit"})
      OBVIOUS
    <3>2. IsSeq(<<>>) /\ IsSeq(<<"unit">>)
      BY <3>1 DEF IsSeq
    <3>3. <<"unit">> = Append(<<>>, "unit")
      OBVIOUS
    <3> QED
      BY <3>2, <3>3
  <2>2. /\ Opens(<<>>) = 0 /\ Decls(<<>>) = 0 /\ Blocks(<<>>) = 0 /\ Parens(<<>>) = 0
    BY CountNone DEF Opens, Decls, Blocks, Parens
  <2>3. /\ Opens(<<"unit">>) = 0 /\ Decls(<<"unit">>) = 0 /\ Blocks(<<"unit">>) = 0
        /\ Parens(<<"unit">>) = 0
    BY <2>1, <2>2, HeldUnit
  <2>4. Stack(<<"unit">>)
    BY <2>1 DEF Stack
  <2> QED
    BY <1>3, <2>3, <2>4 DEF Holds
<1>5. TypesInv'
  BY <1>1, TypesKept DEF CInv, TypesInv
<1>6. nest'.b = 0 /\ nest'.p = 0 /\ Len(scopes') = 1 /\ Len(decls') = 0
  <2>1. tok.k = "none" /\ nest.b = 0 /\ nest.p = 0 /\ Len(scopes) = 1 /\ decls = <<>> /\ TypesInv
    BY <1>2 DEF CInv, CountsInv
  <2> QED
    BY <1>1, <2>1, LexType
<1> QED
  BY <1>4, <1>5, <1>6, Keeps DEF Holds

\* The unit is over, or what comes is no declaration.
LEMMA UnitEndInv ==
  ASSUME CInv, UnitEnd
  PROVE  CInv'
<1>1. /\ ctl # <<>> /\ Top = "unit" /\ ctl' = Pop(ctl) \o <<>> /\ Stay
      /\ UNCHANGED <<decls, scopes, label>> /\ err' = (err \/ ~UnitOver)
  BY DEF UnitEnd, Doing, Return, Then
<1>2. /\ Stack(ctl) /\ IsSeq(ctl) /\ Len(scopes) = 1 + Opens(ctl) /\ Len(decls) = Decls(ctl)
      /\ ~err => nest.b = Blocks(ctl) /\ nest.p = Parens(ctl)
  BY <1>1, Active
<1>3. ctl' = <<>> /\ ctl = Append(<<>>, "unit")
  <2>1. Stack(Pop(ctl)) /\ Len(Pop(ctl)) = Len(ctl) - 1 /\ Len(ctl) \in Nat \ {0}
        /\ ctl = Append(Pop(ctl), "unit")
    BY <1>1, <1>2, StackTop DEF Top
  <2>2. Len(ctl) = 1
    <3>1. ASSUME Len(ctl) \in 2..Len(ctl) PROVE FALSE
      BY <1>1, <1>2, <3>1 DEF Stack, Follows, Top
    <3> QED
      BY <2>1, <3>1
  <2>3. Pop(ctl) = <<>>
    BY <2>1, <2>2, SeqFacts DEF Stack
  <2> QED
    BY <1>1, <2>1, <2>3
<1>4. /\ Opens(<<>>) = 0 /\ Decls(<<>>) = 0 /\ Blocks(<<>>) = 0 /\ Parens(<<>>) = 0
      /\ IsSeq(<<>>)
  BY CountNone DEF Opens, Decls, Blocks, Parens, IsSeq
<1>5. /\ Opens(ctl) = 0 /\ Decls(ctl) = 0 /\ Blocks(ctl) = 0 /\ Parens(ctl) = 0
  BY <1>3, HeldUnit
<1>6. TypesInv'
  BY <1>1, TypesKept DEF CInv, TypesInv, UnitOver
<1>7. ~err' => ~err /\ tok.k = "eof"
  BY <1>1 DEF UnitOver
<1>8. Stack(<<>>) /\ <<>> # <<"begin">>
  BY <1>4 DEF Stack
<1> QED
  BY <1>1, <1>2, <1>3, <1>4, <1>5, <1>6, <1>7, <1>8 DEF CInv, CountsInv, Stay

\* A word of the specifiers, or a star.
LEMMA SpecWordInv ==
  ASSUME CInv, SpecWord \/ Star
  PROVE  CInv'
<1>1. /\ ctl # <<>> /\ Top \in {"declspec", "declarator"} /\ ctl' = ctl /\ Lex(scopes) /\ ~Bracket
      /\ UNCHANGED <<scopes, label, err>>
      /\ \/ SetD([D EXCEPT !.td = @ \/ tok.k = "typedef", !.saw = @ \cup ({tok.k} \cap TypeWords)])
         \/ SetD([D EXCEPT !.type = Type("ptr")])
  BY DEF SpecWord, Star, Doing, SpecWords, Bracket
<1>2. Holds(ctl', Opens(ctl), Decls(ctl), Blocks(ctl), Parens(ctl)) /\ Len(decls) >= 1
  BY <1>1, Active, DeclsThere DEF Holds, Top
<1>3. decls' \in Seq(AllDecls) /\ Len(decls') = Len(decls)
  <2>1. decls \in Seq(AllDecls)
    BY DEF CInv, TypesInv
  <2>2. D \in AllDecls /\ \A d \in AllDecls : /\ Append(Pop(decls), d) \in Seq(AllDecls)
                                              /\ Len(Append(Pop(decls), d)) = Len(decls)
    BY <1>2, <2>1, DeclsFacts
  <2>3. [D EXCEPT !.td = @ \/ tok.k = "typedef", !.saw = @ \cup ({tok.k} \cap TypeWords)] \in AllDecls
    BY <2>2 DEF AllDecls
  <2>4. [D EXCEPT !.type = Type("ptr")] \in AllDecls
    BY <2>2, NoneTypes DEF AllDecls
  <2> QED
    BY <1>1, <2>2, <2>3, <2>4 DEF SetD
<1> QED
  BY <1>1, <1>2, <1>3, NeutralStep DEF CInv, TypesInv

\* A type name, or what the words stand for.
LEMMA SpecEndInv ==
  ASSUME CInv, SpecName \/ SpecEnd
  PROVE  CInv'
<1> DEFINE s == Lookup(scopes, tok.n)
<1>1. /\ ctl # <<>> /\ Top = "declspec" /\ ctl' = Pop(ctl) \o <<>>
      /\ (Stay \/ (Lex(scopes) /\ ~Bracket)) /\ UNCHANGED <<scopes, label, err>>
      /\ \/ SetD([D EXCEPT !.type = IF s.k = "typedef" THEN s.type ELSE NullType])
         \/ SetD([D EXCEPT !.type = BaseType(D.saw)])
  BY DEF SpecName, SpecEnd, Doing, Return, Then, Bracket
<1>2. Holds(ctl', Opens(ctl), Decls(ctl), Blocks(ctl), Parens(ctl)) /\ Len(decls) >= 1
  <2>1. Opens1(Top) = 0 /\ Decls1(Top) = 0 /\ Blocks1(Top) = 0 /\ Parens1(Top) = 0
    BY <1>1, Marks
  <2>2. Holds(ctl', Opens(ctl) - Opens1(Top), Decls(ctl) - Decls1(Top), Blocks(ctl) - Blocks1(Top),
              Parens(ctl) - Parens1(Top))
    BY <1>1, Active, Goes0 DEF Top
  <2> QED
    BY <1>1, <2>1, <2>2, Active, DeclsThere DEF Holds, Top
<1>3. decls' \in Seq(AllDecls) /\ Len(decls') = Len(decls)
  <2>1. decls \in Seq(AllDecls) /\ scopes \in Seq(AllScopes)
    BY DEF CInv, TypesInv
  <2>2. D \in AllDecls /\ \A d \in AllDecls : /\ Append(Pop(decls), d) \in Seq(AllDecls)
                                              /\ Len(Append(Pop(decls), d)) = Len(decls)
    BY <1>2, <2>1, DeclsFacts
  <2>3. ASSUME NEW t \in Types PROVE [D EXCEPT !.type = t] \in AllDecls
    BY <2>2 DEF AllDecls
  <2>4. (IF s.k = "typedef" THEN s.type ELSE NullType) \in Types
    BY <2>1, LookupType, NoneTypes DEF Syms
  <2>5. BaseType(D.saw) \in Types
    <3>1. <<>> \in Params
      BY DEF Params
    <3> QED
      BY <3>1 DEF BaseType, Type, Types
  <2> QED
    BY <1>1, <2>2, <2>3, <2>4, <2>5 DEF SetD
<1> QED
  BY <1>1, <1>2, <1>3, NeutralStep DEF CInv, TypesInv

\* The name of a declaration, or none.
LEMMA DeclNameInv ==
  ASSUME CInv, DeclName \/ NoName
  PROVE  CInv'
<1>1. /\ ctl # <<>> /\ Top = "declarator" /\ ctl' = Pop(ctl) \o <<"suffix">>
      /\ (Stay \/ (Lex(scopes) /\ ~Bracket)) /\ UNCHANGED <<scopes, label>>
      /\ err' \in BOOLEAN /\ (err => err')
      /\ SetD([D EXCEPT !.name = tok.n, !.at = pos]) \/ decls' = decls
  BY DEF DeclName, NoName, Doing, Then, Bracket, CInv, TypesInv
<1>2. Holds(ctl', Opens(ctl), Decls(ctl), Blocks(ctl), Parens(ctl)) /\ Len(decls) >= 1
  <2>1. /\ Opens1(Top) = Opens1("suffix") /\ Decls1(Top) = Decls1("suffix")
        /\ Blocks1(Top) = Blocks1("suffix") /\ Parens1(Top) = Parens1("suffix")
        /\ Opens1("suffix") = 0 /\ Decls1("suffix") = 0 /\ Blocks1("suffix") = 0
        /\ Parens1("suffix") = 0
    BY <1>1, Marks
  <2>2. Follows(ctl[Len(ctl) - 1], "suffix")
    BY <1>1, Active DEF Follows
  <2>3. Holds(ctl', Opens(ctl) - Opens1(Top) + Opens1("suffix"),
              Decls(ctl) - Decls1(Top) + Decls1("suffix"),
              Blocks(ctl) - Blocks1(Top) + Blocks1("suffix"),
              Parens(ctl) - Parens1(Top) + Parens1("suffix"))
    BY <1>1, <2>2, Active, Goes1 DEF Top
  <2> QED
    BY <1>1, <2>1, <2>3, Active, DeclsThere DEF Holds, Top
<1>3. decls' \in Seq(AllDecls) /\ Len(decls') = Len(decls)
  <2>1. decls \in Seq(AllDecls) /\ tok.n \in MaybeNames /\ pos \in Nat
    BY DEF CInv, TypesInv
  <2>2. D \in AllDecls /\ \A d \in AllDecls : /\ Append(Pop(decls), d) \in Seq(AllDecls)
                                              /\ Len(Append(Pop(decls), d)) = Len(decls)
    BY <1>2, <2>1, DeclsFacts
  <2> DEFINE d == [D EXCEPT !.name = tok.n, !.at = pos]
  <2>3. d \in AllDecls
    BY <2>1, <2>2 DEF AllDecls
  <2>4. decls' = Append(Pop(decls), d) \/ decls' = decls
    BY <1>1 DEF SetD
  <2> HIDE DEF d
  <2> QED
    BY <2>1, <2>2, <2>3, <2>4
<1> QED
  BY <1>1, <1>2, <1>3, NeutralStep DEF CInv, TypesInv

\* The same declarations and the same scopes: only the calls change.
LEMMA SameStep ==
  ASSUME CInv, ctl # <<>>, Top # "begin", Stay \/ (Lex(scopes) /\ ~Bracket),
         Holds(ctl', Opens(ctl), Decls(ctl), Blocks(ctl), Parens(ctl)),
         UNCHANGED <<decls, scopes>>, label' \in BOOLEAN, err' \in BOOLEAN, err => err'
  PROVE  CInv'
  BY NeutralStep DEF CInv, TypesInv

\* The call at the top gives way to others, what they hold added up.
LEMMA Over ==
  ASSUME CInv, ctl # <<>>, Top \notin {"begin", "unit"}, ctl' = Pop(ctl) \o <<>>
  PROVE  Holds(ctl', Opens(ctl) - Opens1(Top), Decls(ctl) - Decls1(Top),
               Blocks(ctl) - Blocks1(Top), Parens(ctl) - Parens1(Top))
  BY Active, Goes0 DEF Top

\* And of these nothing.
Light == {"declarator", "declspec", "suffix", "compound", "statement", "expr", "postfix", "else",
          "return", ";", "call", "no call"}
\* These may come after any call.
Free(x) == x \notin {"begin", "unit", "{", "}", "declarator", "suffix", "params", "param", "(void)",
                     "declspec"}

\* A call that holds nothing leaves all counts as they are.
LEMMA LightOver ==
  ASSUME CInv, ctl # <<>>, Top \in Light, ctl' = Pop(ctl) \o <<>>
  PROVE  Holds(ctl', Opens(ctl), Decls(ctl), Blocks(ctl), Parens(ctl))
<1>1. Opens1(Top) = 0 /\ Decls1(Top) = 0 /\ Blocks1(Top) = 0 /\ Parens1(Top) = 0
  BY Marks DEF Light
<1>2. Holds(ctl', Opens(ctl) - Opens1(Top), Decls(ctl) - Decls1(Top),
            Blocks(ctl) - Blocks1(Top), Parens(ctl) - Parens1(Top))
  BY Over DEF Light
<1>3. Top # "begin"
  BY DEF Light
<1> QED
  BY <1>1, <1>2, <1>3, Active DEF Holds

\* One more call that holds nothing.
LEMMA LightOne ==
  ASSUME CInv, ctl # <<>>, Top \in Light, NEW a \in Light, Free(a), ctl' = Pop(ctl) \o <<a>>
  PROVE  Holds(ctl', Opens(ctl), Decls(ctl), Blocks(ctl), Parens(ctl))
<1>1. /\ Opens1(Top) = 0 /\ Decls1(Top) = 0 /\ Blocks1(Top) = 0 /\ Parens1(Top) = 0
      /\ Opens1(a) = 0 /\ Decls1(a) = 0 /\ Blocks1(a) = 0 /\ Parens1(a) = 0
  BY Marks DEF Light
<1>2. Follows(ctl[Len(ctl) - 1], a)
  BY DEF Free, Follows
<1>3. Holds(ctl', Opens(ctl) - Opens1(Top) + Opens1(a), Decls(ctl) - Decls1(Top) + Decls1(a),
            Blocks(ctl) - Blocks1(Top) + Blocks1(a), Parens(ctl) - Parens1(Top) + Parens1(a))
  BY <1>2, Active, Goes1 DEF Top, Light
<1>4. Top # "begin"
  BY DEF Light
<1> QED
  BY <1>1, <1>3, <1>4, Active DEF Holds

\* Two of them.
LEMMA LightTwo ==
  ASSUME CInv, ctl # <<>>, Top \in Light, NEW a \in Light, NEW b \in Light, Free(a), Free(b),
         ctl' = Pop(ctl) \o <<a, b>>
  PROVE  Holds(ctl', Opens(ctl), Decls(ctl), Blocks(ctl), Parens(ctl))
<1>1. /\ Opens1(Top) = 0 /\ Decls1(Top) = 0 /\ Blocks1(Top) = 0 /\ Parens1(Top) = 0
      /\ Opens1(a) = 0 /\ Decls1(a) = 0 /\ Blocks1(a) = 0 /\ Parens1(a) = 0
      /\ Opens1(b) = 0 /\ Decls1(b) = 0 /\ Blocks1(b) = 0 /\ Parens1(b) = 0
  BY Marks DEF Light
<1>2. Follows(ctl[Len(ctl) - 1], a) /\ Follows(a, b)
  BY DEF Free, Follows
<1>3. Holds(ctl', Opens(ctl) - Opens1(Top) + Opens1(a) + Opens1(b),
            Decls(ctl) - Decls1(Top) + Decls1(a) + Decls1(b),
            Blocks(ctl) - Blocks1(Top) + Blocks1(a) + Blocks1(b),
            Parens(ctl) - Parens1(Top) + Parens1(a) + Parens1(b))
  BY <1>2, Active, Goes2 DEF Top, Light
<1>4. Top # "begin"
  BY DEF Light
<1> QED
  BY <1>1, <1>3, <1>4, Active DEF Holds

\* No suffix, no second half of a statement, the end of a call.
LEMMA OverInv ==
  ASSUME CInv, NoSuffix \/ (Postfix /\ tok.k # "(") \/ CallDone
  PROVE  CInv'
<1>1. /\ ctl # <<>> /\ Top \in {"suffix", "postfix", "call", "no call"}
      /\ ctl' = Pop(ctl) \o <<>> /\ Stay /\ UNCHANGED <<decls, scopes>>
      /\ err' \in BOOLEAN /\ (err => err') /\ label' \in BOOLEAN
  BY DEF NoSuffix, Postfix, CallDone, Doing, Return, Then, CInv, TypesInv
<1>2. Holds(ctl', Opens(ctl), Decls(ctl), Blocks(ctl), Parens(ctl))
  BY <1>1, LightOver DEF Light
<1> QED
  BY <1>1, <1>2, SameStep

\* Operands of one token, or of none.
LEMMA OperandInv ==
  ASSUME CInv, Number \/ NoOperand
  PROVE  CInv'
<1>1. /\ ctl # <<>> /\ Top = "expr" /\ ctl' = Pop(ctl) \o <<"postfix">>
      /\ (Stay \/ (Lex(scopes) /\ ~Bracket)) /\ UNCHANGED <<decls, scopes>>
      /\ err' \in BOOLEAN /\ (err => err') /\ label' \in BOOLEAN
  BY DEF Number, NoOperand, Doing, Then, Bracket, CInv, TypesInv
<1>2. Holds(ctl', Opens(ctl), Decls(ctl), Blocks(ctl), Parens(ctl))
  BY <1>1, LightOne DEF Light, Free
<1> QED
  BY <1>1, <1>2, SameStep

\* A statement that begins with a keyword.
LEMMA KeywordInv ==
  ASSUME CInv, KeywordStatement
  PROVE  CInv'
<1>1. /\ ctl # <<>> /\ Top = "statement" /\ ctl' = Pop(ctl) \o AfterWord(tok.k)
      /\ tok.k \in {"while", "if", "return", ";"}
      /\ Lex(scopes) /\ ~Bracket /\ UNCHANGED <<decls, scopes>>
      /\ err' \in BOOLEAN /\ (err => err') /\ label' \in BOOLEAN
  BY DEF KeywordStatement, Doing, Then, Bracket, CInv, TypesInv
<1>2. Holds(ctl', Opens(ctl), Decls(ctl), Blocks(ctl), Parens(ctl))
  <2> DEFINE u == ctl[Len(ctl) - 1]
  <2>1. /\ Follows(u, "statement") /\ Follows(u, "else") /\ Follows("else", "statement")
        /\ Follows("statement", ")") /\ Follows(")", "expr") /\ Follows("expr", "(")
    BY DEF Follows
  <2>2. /\ \A x \in {"statement", "else", "expr"} :
             Opens1(x) = 0 /\ Decls1(x) = 0 /\ Blocks1(x) = 0 /\ Parens1(x) = 0
        /\ Opens1(")") = 0 /\ Decls1(")") = 0 /\ Blocks1(")") = 0 /\ Parens1(")") = 1
        /\ Opens1("(") = 0 /\ Decls1("(") = 0 /\ Blocks1("(") = 0 /\ Parens1("(") = -1
    BY Marks
  <2>3. /\ Stack(ctl) /\ Opens(ctl) \in Nat /\ Decls(ctl) \in Nat /\ Blocks(ctl) \in Nat
        /\ Parens(ctl) \in Int /\ ctl[Len(ctl)] = "statement"
    BY <1>1, Active DEF Top
  <2> HIDE DEF u
  <2>4. CASE tok.k = "while"
    <3>1. AfterWord(tok.k) = <<"statement", ")", "expr", "(">>
      BY <2>4 DEF AfterWord
    <3>2. Holds(ctl', Opens(ctl) - Opens1("statement") + Opens1("statement") + Opens1(")")
                        + Opens1("expr") + Opens1("("),
                Decls(ctl) - Decls1("statement") + Decls1("statement") + Decls1(")")
                  + Decls1("expr") + Decls1("("),
                Blocks(ctl) - Blocks1("statement") + Blocks1("statement") + Blocks1(")")
                  + Blocks1("expr") + Blocks1("("),
                Parens(ctl) - Parens1("statement") + Parens1("statement") + Parens1(")")
                  + Parens1("expr") + Parens1("("))
      BY <1>1, <2>1, <2>3, <3>1, Goes4 DEF u
    <3> QED
      BY <2>2, <2>3, <3>2
  <2>5. CASE tok.k = "if"
    <3>1. AfterWord(tok.k) = <<"else", "statement", ")", "expr", "(">>
      BY <2>5 DEF AfterWord
    <3>2. Holds(ctl', Opens(ctl) - Opens1("statement") + Opens1("else") + Opens1("statement")
                        + Opens1(")") + Opens1("expr") + Opens1("("),
                Decls(ctl) - Decls1("statement") + Decls1("else") + Decls1("statement")
                  + Decls1(")") + Decls1("expr") + Decls1("("),
                Blocks(ctl) - Blocks1("statement") + Blocks1("else") + Blocks1("statement")
                  + Blocks1(")") + Blocks1("expr") + Blocks1("("),
                Parens(ctl) - Parens1("statement") + Parens1("else") + Parens1("statement")
                  + Parens1(")") + Parens1("expr") + Parens1("("))
      BY <1>1, <2>1, <2>3, <3>1, Goes5 DEF u
    <3> QED
      BY <2>2, <2>3, <3>2
  <2>6. CASE tok.k = "return"
    BY <1>1, <2>6, LightOne DEF Light, Free, AfterWord
  <2>7. CASE tok.k = ";"
    BY <1>1, <2>7, LightOver DEF Light, AfterWord
  <2> QED
    BY <1>1, <2>4, <2>5, <2>6, <2>7
<1> QED
  BY <1>1, <1>2, SameStep

\* Another statement, an else or none, a return with a value or none.
LEMMA StatementInv ==
  ASSUME CInv, BlockOrExprStatement \/ OptionalWord
  PROVE  CInv'
<1>1. /\ ctl # <<>> /\ Top \in {"statement", "else", "return"}
      /\ (Stay \/ (Lex(scopes) /\ ~Bracket)) /\ UNCHANGED <<decls, scopes>>
      /\ err' \in BOOLEAN /\ (err => err') /\ label' \in BOOLEAN
      /\ \/ ctl' = Pop(ctl) \o <<"compound">> \/ ctl' = Pop(ctl) \o <<";", "expr">>
         \/ ctl' = Pop(ctl) \o <<"statement">> \/ ctl' = Pop(ctl) \o <<>>
  BY DEF BlockOrExprStatement, OptionalWord, Doing, Then, Bracket, CInv, TypesInv
<1>2. Holds(ctl', Opens(ctl), Decls(ctl), Blocks(ctl), Parens(ctl))
  BY <1>1, LightOver, LightOne, LightTwo DEF Light, Free
<1> QED
  BY <1>1, <1>2, SameStep

\* A statement in a block.
LEMMA BlockStatementInv ==
  ASSUME CInv, BlockStatement
  PROVE  CInv'
<1>1. /\ ctl # <<>> /\ Top = "block" /\ ctl' = Append(ctl, "statement") /\ Stay
      /\ UNCHANGED <<decls, scopes, label, err>>
  BY DEF BlockStatement, Doing
<1>2. Holds(ctl', Opens(ctl), Decls(ctl), Blocks(ctl), Parens(ctl))
  <2>1. /\ Opens1("statement") = 0 /\ Decls1("statement") = 0 /\ Blocks1("statement") = 0
        /\ Parens1("statement") = 0
    BY Marks
  <2>2. Holds(ctl, Opens(ctl), Decls(ctl), Blocks(ctl), Parens(ctl))
        /\ Follows(ctl[Len(ctl)], "statement")
        /\ Opens(ctl) \in Nat /\ Decls(ctl) \in Nat /\ Blocks(ctl) \in Nat /\ Parens(ctl) \in Int
    BY <1>1, Active DEF Holds, Follows
  <2>3. Holds(ctl', Opens(ctl) + Opens1("statement"), Decls(ctl) + Decls1("statement"),
              Blocks(ctl) + Blocks1("statement"), Parens(ctl) + Parens1("statement"))
    BY <1>1, <2>2, HoldsMore
  <2> QED
    BY <2>1, <2>2, <2>3
<1> QED
  BY <1>1, <1>2, SameStep DEF CInv, TypesInv

\* cc1_expect reads the token if it is there, and else reports it.
LEMMA ExpectFacts ==
  ASSUME CInv, NEW x, Expect(x)
  PROVE  /\ Lex(scopes) \/ Stay
         /\ err' \in BOOLEAN /\ (err => err') /\ (~err' => tok.k = x /\ Lex(scopes))
  BY DEF Expect, Missing, CInv, TypesInv

\* The mark that closes what was opened.
LEMMA PunctInv ==
  ASSUME CInv, ExpectPunct
  PROVE  CInv'
<1>1. /\ ctl # <<>> /\ Top \in {"(", ")", "{", "}", ";"} /\ ctl' = Pop(ctl) \o <<>> /\ Expect(Top)
      /\ UNCHANGED <<decls, scopes, label>>
  BY DEF ExpectPunct, Return, Then, Puncts
<1>2. /\ (Lex(scopes) \/ Stay) /\ TypesInv
      /\ err' \in BOOLEAN /\ (err => err') /\ (~err' => tok.k = Top /\ Lex(scopes))
  BY <1>1, ExpectFacts DEF CInv
<1>3. TypesInv'
  BY <1>1, <1>2, TypesKept DEF TypesInv
<1>4. /\ Len(scopes) = 1 + Opens(ctl) /\ Len(decls) = Decls(ctl)
      /\ ~err => nest.b = Blocks(ctl) /\ nest.p = Parens(ctl)
      /\ Top \in {"(", ")", ";"}
  BY <1>1, Active DEF Follows
<1>8. /\ Opens(ctl) \in Nat /\ Decls(ctl) \in Nat /\ Blocks(ctl) \in Nat /\ Parens(ctl) \in Int
  BY <1>1, Active
<1>5. CASE Top = "("
  <2>1. Opens1("(") = 0 /\ Decls1("(") = 0 /\ Blocks1("(") = 0 /\ Parens1("(") = -1
    BY Marks
  <2>2. Holds(ctl', Opens(ctl) - Opens1("("), Decls(ctl) - Decls1("("),
              Blocks(ctl) - Blocks1("("), Parens(ctl) - Parens1("("))
    BY <1>1, <1>5, Over
  <2>3. Holds(ctl', Opens(ctl), Decls(ctl), Blocks(ctl), Parens(ctl) + 1)
    BY <1>8, <2>1, <2>2
  <2>4. ~err' => nest'.b = nest.b /\ nest'.p = nest.p + 1
    BY <1>2, <1>5, LexType
  <2> QED
    BY <1>1, <1>2, <1>3, <1>4, <1>8, <2>3, <2>4, Keeps DEF Holds
<1>6. CASE Top = ")"
  <2>1. Opens1(")") = 0 /\ Decls1(")") = 0 /\ Blocks1(")") = 0 /\ Parens1(")") = 1
    BY Marks
  <2>2. Holds(ctl', Opens(ctl) - Opens1(")"), Decls(ctl) - Decls1(")"),
              Blocks(ctl) - Blocks1(")"), Parens(ctl) - Parens1(")"))
    BY <1>1, <1>6, Over
  <2>3. Holds(ctl', Opens(ctl), Decls(ctl), Blocks(ctl), Parens(ctl) - 1)
    BY <1>8, <2>1, <2>2
  <2>4. ~err' => nest'.b = nest.b /\ nest'.p = nest.p - 1
    BY <1>2, <1>6, LexType
  <2> QED
    BY <1>1, <1>2, <1>3, <1>4, <1>8, <2>3, <2>4, Keeps DEF Holds
<1>7. CASE Top = ";"
  <2>1. Holds(ctl', Opens(ctl), Decls(ctl), Blocks(ctl), Parens(ctl))
    BY <1>1, <1>7, LightOver DEF Light
  <2>2. ~err' => nest'.b = nest.b /\ nest'.p = nest.p
    BY <1>2, <1>7, LexType
  <2> QED
    BY <1>1, <1>2, <1>3, <1>4, <1>8, <2>1, <2>2, Keeps DEF Holds
<1> QED
  BY <1>4, <1>5, <1>6, <1>7

\* A declaration starts, in the file or in a block.
LEMMA StartInv ==
  ASSUME CInv, NEW x \in {"external", "local"}, ctl # <<>>, Top # "begin", StartDecl(<<x>>)
  PROVE  CInv'
<1>1. /\ ctl' = (ctl \o <<x>>) \o <<"declarator", "declspec">> /\ decls' = Append(decls, NoDecl)
      /\ Stay /\ UNCHANGED <<scopes, label, err>>
  BY DEF StartDecl
<1>2. /\ Stack(ctl) /\ IsSeq(ctl) /\ Len(scopes) = 1 + Opens(ctl) /\ Len(decls) = Decls(ctl)
      /\ ~err => nest.b = Blocks(ctl) /\ nest.p = Parens(ctl)
  BY Active
<1>3. /\ Opens(ctl) \in Nat /\ Decls(ctl) \in Nat /\ Blocks(ctl) \in Nat /\ Parens(ctl) \in Int
  BY Active
<1>4. ctl' = Append(Append(Append(ctl, x), "declarator"), "declspec")
  <2> DEFINE e == Append(ctl, x)
  <2>1. ctl \o <<x>> = e /\ IsSeq(e)
    BY <1>2, Joined, AppendFacts
  <2> HIDE DEF e
  <2>2. e \o <<"declarator", "declspec">> = Append(Append(e, "declarator"), "declspec")
    BY <2>1, Joined
  <2> QED
    BY <1>1, <2>1, <2>2 DEF e
<1>5. Holds(ctl', Opens(ctl), Decls(ctl) + 1, Blocks(ctl), Parens(ctl))
  <2> DEFINE e == Append(ctl, x)
             f == Append(e, "declarator")
             g == Append(f, "declspec")
  <2>1. /\ Follows(ctl[Len(ctl)], x) /\ Follows(x, "declarator") /\ Follows("declarator", "declspec")
    BY DEF Follows, DeclMarks
  <2>2. /\ Opens1(x) = 0 /\ Decls1(x) = 1 /\ Blocks1(x) = 0 /\ Parens1(x) = 0
    BY Marks
  <2>3. /\ Opens1("declarator") = 0 /\ Decls1("declarator") = 0 /\ Blocks1("declarator") = 0
        /\ Parens1("declarator") = 0
        /\ Opens1("declspec") = 0 /\ Decls1("declspec") = 0 /\ Blocks1("declspec") = 0
        /\ Parens1("declspec") = 0
    BY Marks
  <2>4. Holds(ctl, Opens(ctl), Decls(ctl), Blocks(ctl), Parens(ctl))
    BY <1>2 DEF Holds
  <2>5. /\ Holds(e, Opens(ctl) + Opens1(x), Decls(ctl) + Decls1(x), Blocks(ctl) + Blocks1(x),
                 Parens(ctl) + Parens1(x))
        /\ e[Len(e)] = x
    BY <2>1, <2>4, HoldsMore
  <2>6. Holds(e, Opens(ctl), Decls(ctl) + 1, Blocks(ctl), Parens(ctl))
    BY <1>3, <2>2, <2>5
  <2> HIDE DEF e
  <2>7. /\ Holds(f, Opens(ctl) + Opens1("declarator"), Decls(ctl) + 1 + Decls1("declarator"),
                 Blocks(ctl) + Blocks1("declarator"), Parens(ctl) + Parens1("declarator"))
        /\ f[Len(f)] = "declarator"
    BY <2>1, <2>5, <2>6, HoldsMore
  <2>8. Holds(f, Opens(ctl), Decls(ctl) + 1, Blocks(ctl), Parens(ctl))
    BY <1>3, <2>3, <2>7
  <2> HIDE DEF f
  <2>9. Holds(g, Opens(ctl) + Opens1("declspec"), Decls(ctl) + 1 + Decls1("declspec"),
              Blocks(ctl) + Blocks1("declspec"), Parens(ctl) + Parens1("declspec"))
    BY <2>1, <2>7, <2>8, HoldsMore
  <2>10. Holds(g, Opens(ctl), Decls(ctl) + 1, Blocks(ctl), Parens(ctl))
    BY <1>3, <2>3, <2>9
  <2> QED
    BY <1>4, <2>10 DEF e, f
<1>6. decls' \in Seq(AllDecls) /\ Len(decls') = Len(decls) + 1
  BY <1>1, DeclsFacts DEF CInv, TypesInv
<1>7. TypesInv'
  BY <1>1, <1>6, TypesKept DEF CInv, TypesInv
<1>8. ~err' => nest'.b = Blocks(ctl) /\ nest'.p = Parens(ctl)
  BY <1>1, <1>2 DEF Stay
<1> QED
  BY <1>1, <1>2, <1>3, <1>5, <1>6, <1>7, <1>8, Keeps DEF Holds

\* A declaration of the file, or of a block.
LEMMA DeclInv ==
  ASSUME CInv, ExternalDecl \/ LocalDecl
  PROVE  CInv'
  BY StartInv DEF ExternalDecl, LocalDecl, Doing

\* Parameters start.
LEMMA FuncSuffixInv ==
  ASSUME CInv, FuncSuffix
  PROVE  CInv'
<1>1. /\ ctl # <<>> /\ Top = "suffix" /\ ctl' = Pop(ctl) \o <<"params">> /\ Lex(scopes)
      /\ tok.k = "(" /\ UNCHANGED <<decls, scopes, label, err>>
  BY DEF FuncSuffix, Doing, Then
<1>2. /\ Len(scopes) = 1 + Opens(ctl) /\ Len(decls) = Decls(ctl)
      /\ ~err => nest.b = Blocks(ctl) /\ nest.p = Parens(ctl)
      /\ Stack(ctl) /\ ctl[Len(ctl)] = "suffix" /\ Follows(ctl[Len(ctl) - 1], "suffix")
  BY <1>1, Active DEF Top
<1>3. /\ Opens(ctl) \in Nat /\ Decls(ctl) \in Nat /\ Blocks(ctl) \in Nat /\ Parens(ctl) \in Int
  BY <1>1, Active
<1>4. Holds(ctl', Opens(ctl), Decls(ctl), Blocks(ctl), Parens(ctl) + 1)
  <2>1. Follows(ctl[Len(ctl) - 1], "params")
    BY <1>2 DEF Follows
  <2>2. /\ Opens1("suffix") = 0 /\ Decls1("suffix") = 0 /\ Blocks1("suffix") = 0
        /\ Parens1("suffix") = 0
        /\ Opens1("params") = 0 /\ Decls1("params") = 0 /\ Blocks1("params") = 0
        /\ Parens1("params") = 1
    BY Marks
  <2>3. Holds(ctl', Opens(ctl) - Opens1("suffix") + Opens1("params"),
              Decls(ctl) - Decls1("suffix") + Decls1("params"),
              Blocks(ctl) - Blocks1("suffix") + Blocks1("params"),
              Parens(ctl) - Parens1("suffix") + Parens1("params"))
    BY <1>1, <1>2, <2>1, Goes1
  <2> QED
    BY <1>3, <2>2, <2>3
<1>5. TypesInv'
  BY <1>1, TypesKept DEF CInv, TypesInv
<1>6. nest'.b = nest.b /\ nest'.p = nest.p + 1
  BY <1>1, LexType DEF CInv
<1> QED
  BY <1>1, <1>2, <1>3, <1>4, <1>5, <1>6, Keeps DEF Holds

\* No parameters.
LEMMA EmptyParamsInv ==
  ASSUME CInv, EmptyParams
  PROVE  CInv'
<1>1. /\ ctl # <<>> /\ Top = "params" /\ ctl' = Pop(ctl) \o <<>> /\ Lex(scopes)
      /\ tok.k = ")" /\ UNCHANGED <<scopes, label, err>>
      /\ decls' = Append(Pop(decls), [D EXCEPT !.type = Func(<<>>)])
  BY DEF EmptyParams, Doing, Return, Then, SetD
<1>2. /\ Len(scopes) = 1 + Opens(ctl) /\ Len(decls) = Decls(ctl) /\ Decls(ctl) >= 1
      /\ ~err => nest.b = Blocks(ctl) /\ nest.p = Parens(ctl)
      /\ Stack(ctl) /\ ctl[Len(ctl)] = "params"
  BY <1>1, Active, DeclsThere DEF Top
<1>3. /\ Opens(ctl) \in Nat /\ Decls(ctl) \in Nat /\ Blocks(ctl) \in Nat /\ Parens(ctl) \in Int
  BY <1>1, Active
<1>4. Holds(ctl', Opens(ctl), Decls(ctl), Blocks(ctl), Parens(ctl) - 1)
  <2>1. Opens1("params") = 0 /\ Decls1("params") = 0 /\ Blocks1("params") = 0
        /\ Parens1("params") = 1
    BY Marks
  <2>2. Holds(ctl', Opens(ctl) - Opens1("params"), Decls(ctl) - Decls1("params"),
              Blocks(ctl) - Blocks1("params"), Parens(ctl) - Parens1("params"))
    BY <1>1, <1>2, Goes0
  <2> QED
    BY <1>3, <2>1, <2>2
<1>5. decls' \in Seq(AllDecls) /\ Len(decls') = Len(decls)
  <2>1. decls \in Seq(AllDecls) /\ Len(decls) >= 1
    BY <1>2 DEF CInv, TypesInv
  <2>2. [D EXCEPT !.type = Func(<<>>)] \in AllDecls
    BY <2>1, DeclsFacts, NoneTypes DEF AllDecls
  <2> QED
    BY <1>1, <2>1, <2>2, DeclsFacts
<1>6. TypesInv'
  BY <1>1, <1>5, TypesKept DEF CInv, TypesInv
<1>7. nest'.b = nest.b /\ nest'.p = nest.p - 1
  BY <1>1, LexType DEF CInv
<1> QED
  BY <1>1, <1>2, <1>3, <1>4, <1>5, <1>6, <1>7, Keeps DEF Holds

\* One more declaration within the one whose parameters are read.
LEMMA FirstParamInv ==
  ASSUME CInv, VoidParam \/ FirstParam
  PROVE  CInv'
<1>1. /\ ctl # <<>> /\ Top = "params" /\ Stay /\ UNCHANGED <<scopes, label, err>>
      /\ decls' = Append(decls, NoDecl)
      /\ \/ ctl' = Pop(ctl) \o <<"(void)", "declspec">>
         \/ ctl' = Pop(ctl) \o <<"param", "declarator", "declspec">>
  BY DEF VoidParam, FirstParam, Doing, Then
<1>2. /\ Len(scopes) = 1 + Opens(ctl) /\ Len(decls) = Decls(ctl)
      /\ ~err => nest.b = Blocks(ctl) /\ nest.p = Parens(ctl)
      /\ Stack(ctl) /\ ctl[Len(ctl)] = "params" /\ Follows(ctl[Len(ctl) - 1], "params")
  BY <1>1, Active DEF Top
<1>3. /\ Opens(ctl) \in Nat /\ Decls(ctl) \in Nat /\ Blocks(ctl) \in Nat /\ Parens(ctl) \in Int
  BY <1>1, Active
<1>4. Holds(ctl', Opens(ctl), Decls(ctl) + 1, Blocks(ctl), Parens(ctl))
  <2>1. /\ Follows(ctl[Len(ctl) - 1], "(void)") /\ Follows("(void)", "declspec")
        /\ Follows(ctl[Len(ctl) - 1], "param") /\ Follows("param", "declarator")
        /\ Follows("declarator", "declspec")
    BY <1>2 DEF Follows, DeclMarks
  <2>2. /\ Opens1("params") = 0 /\ Decls1("params") = 0 /\ Blocks1("params") = 0
        /\ Parens1("params") = 1
        /\ \A x \in {"declarator", "declspec"} :
             Opens1(x) = 0 /\ Decls1(x) = 0 /\ Blocks1(x) = 0 /\ Parens1(x) = 0
        /\ \A x \in {"param", "(void)"} :
             Opens1(x) = 0 /\ Decls1(x) = 1 /\ Blocks1(x) = 0 /\ Parens1(x) = 1
    BY Marks
  <2>3. CASE ctl' = Pop(ctl) \o <<"(void)", "declspec">>
    <3>1. Holds(ctl', Opens(ctl) - Opens1("params") + Opens1("(void)") + Opens1("declspec"),
                Decls(ctl) - Decls1("params") + Decls1("(void)") + Decls1("declspec"),
                Blocks(ctl) - Blocks1("params") + Blocks1("(void)") + Blocks1("declspec"),
                Parens(ctl) - Parens1("params") + Parens1("(void)") + Parens1("declspec"))
      BY <1>1, <1>2, <2>1, <2>3, Goes2
    <3> QED
      BY <1>3, <2>2, <3>1
  <2>4. CASE ctl' = Pop(ctl) \o <<"param", "declarator", "declspec">>
    <3>1. Holds(ctl', Opens(ctl) - Opens1("params") + Opens1("param") + Opens1("declarator")
                        + Opens1("declspec"),
                Decls(ctl) - Decls1("params") + Decls1("param") + Decls1("declarator")
                  + Decls1("declspec"),
                Blocks(ctl) - Blocks1("params") + Blocks1("param") + Blocks1("declarator")
                  + Blocks1("declspec"),
                Parens(ctl) - Parens1("params") + Parens1("param") + Parens1("declarator")
                  + Parens1("declspec"))
      BY <1>1, <1>2, <2>1, <2>4, Goes3
    <3> QED
      BY <1>3, <2>2, <3>1
  <2> QED
    BY <1>1, <2>3, <2>4
<1>5. decls' \in Seq(AllDecls) /\ Len(decls') = Len(decls) + 1
  BY <1>1, DeclsFacts DEF CInv, TypesInv
<1>6. TypesInv'
  BY <1>1, <1>5, TypesKept DEF CInv, TypesInv
<1>7. nest'.b = nest.b /\ nest'.p = nest.p
  BY <1>1 DEF Stay
<1> QED
  BY <1>1, <1>2, <1>3, <1>4, <1>5, <1>6, <1>7, Keeps DEF Holds

\* One more parameter.
LEMMA ParamsAppend ==
  ASSUME NEW ps \in Params, NEW n \in MaybeNames, NEW i \in Nat
  PROVE  Append(ps, [n |-> n, at |-> i]) \in Params /\ Func(Append(ps, [n |-> n, at |-> i])) \in Types
<1> DEFINE x == [n |-> n, at |-> i]
           R == [n : MaybeNames, at : Nat]
<1>1. x \in R /\ ps \in Seq(R)
  BY DEF Params
<1> HIDE DEF x, R
<1>2. Append(ps, x) \in Seq(R)
  BY <1>1
<1>3. Append(ps, x) \in Params
  BY <1>2 DEF Params, R
<1>4. Func(Append(ps, x)) \in Types
  BY <1>3 DEF Func, Types
<1> QED
  BY <1>3, <1>4 DEF x

\* A parameter and the declaration it belongs to.
LEMMA ParamFacts ==
  ASSUME CInv, ctl # <<>>, Top \in {"param", "(void)"}
  PROVE  /\ Len(decls) = Decls(ctl) /\ Decls(ctl) >= 2 /\ Len(scopes) = 1 + Opens(ctl)
         /\ ~err => nest.b = Blocks(ctl) /\ nest.p = Parens(ctl)
         /\ Stack(ctl) /\ Follows(ctl[Len(ctl) - 1], Top)
         /\ decls \in Seq(AllDecls) /\ D \in AllDecls /\ Outer \in AllDecls
         /\ Append(Outer.ps, [n |-> D.name, at |-> D.at]) \in Params
         /\ Func(Append(Outer.ps, [n |-> D.name, at |-> D.at])) \in Types
<1>1. Len(decls) = Decls(ctl) /\ Decls(ctl) >= 2 /\ Decls(ctl) \in Nat /\ decls \in Seq(AllDecls)
  BY Active, DeclsThere DEF Top, CInv, TypesInv
<1>2. D \in AllDecls /\ Outer \in AllDecls
  BY <1>1, DeclsFacts
<1>3. Outer.ps \in Params /\ D.name \in MaybeNames /\ D.at \in Nat
  BY <1>2 DEF AllDecls
<1> QED
  BY <1>1, <1>2, <1>3, ParamsAppend, Active

\* "void" was all there is, or the parameters start after it.
LEMMA VoidParamsInv ==
  ASSUME CInv, VoidParams
  PROVE  CInv'
<1>1. /\ ctl # <<>> /\ Top = "(void)" /\ UNCHANGED <<scopes, label>>
      /\ \/ /\ tok.k = ")" /\ decls' = Append(SubSeq(decls, 1, Len(decls) - 2),
                                              [Outer EXCEPT !.type = Func(<<>>)])
            /\ ctl' = Pop(ctl) \o <<>> /\ Lex(scopes) /\ err' = err
         \/ /\ err' = TRUE /\ decls' = Append(Pop(decls), NoDecl) /\ Stay
            /\ ctl' = Pop(ctl) \o <<"param", "declarator", "declspec">>
  BY DEF VoidParams, Doing, Return, Then, SetOuter, SetD
<1>2. /\ Len(decls) = Decls(ctl) /\ Decls(ctl) >= 2 /\ Len(scopes) = 1 + Opens(ctl)
      /\ ~err => nest.b = Blocks(ctl) /\ nest.p = Parens(ctl)
      /\ Stack(ctl) /\ ctl[Len(ctl)] = "(void)" /\ Follows(ctl[Len(ctl) - 1], "(void)")
      /\ decls \in Seq(AllDecls) /\ D \in AllDecls /\ Outer \in AllDecls
  BY <1>1, ParamFacts DEF Top
<1>3. /\ Opens(ctl) \in Nat /\ Decls(ctl) \in Nat /\ Blocks(ctl) \in Nat /\ Parens(ctl) \in Int
  BY <1>1, Active
<1>7. ctl # <<>> /\ Stack(ctl) /\ ctl[Len(ctl)] = "(void)" /\ Follows(ctl[Len(ctl) - 1], "(void)")
  BY <1>1, <1>2
<1>4. /\ Opens1("(void)") = 0 /\ Decls1("(void)") = 1 /\ Blocks1("(void)") = 0
      /\ Parens1("(void)") = 1
  BY Marks
<1>5. CASE tok.k = ")" /\ ctl' = Pop(ctl) \o <<>> /\ Lex(scopes) /\ err' = err
           /\ decls' = Append(SubSeq(decls, 1, Len(decls) - 2), [Outer EXCEPT !.type = Func(<<>>)])
  <2>1. Holds(ctl', Opens(ctl) - Opens1("(void)"), Decls(ctl) - Decls1("(void)"),
              Blocks(ctl) - Blocks1("(void)"), Parens(ctl) - Parens1("(void)"))
    BY <1>7, <1>5, Goes0
  <2>2. Holds(ctl', Opens(ctl), Decls(ctl) - 1, Blocks(ctl), Parens(ctl) - 1)
    BY <1>3, <1>4, <2>1
  <2>3. decls' \in Seq(AllDecls) /\ Len(decls') = Len(decls) - 1
    <3>1. [Outer EXCEPT !.type = Func(<<>>)] \in AllDecls
      BY <1>2, NoneTypes DEF AllDecls
    <3> QED
      BY <1>2, <1>5, <3>1, DeclsFacts
  <2>4. TypesInv'
    BY <1>1, <1>5, <2>3, TypesKept DEF CInv, TypesInv
  <2>5. nest'.b = nest.b /\ nest'.p = nest.p - 1
    BY <1>5, LexType DEF CInv
  <2> QED
    BY <1>1, <1>2, <1>3, <1>5, <2>2, <2>3, <2>4, <2>5, Keeps DEF Holds
<1>6. CASE err' = TRUE /\ decls' = Append(Pop(decls), NoDecl) /\ Stay
           /\ ctl' = Pop(ctl) \o <<"param", "declarator", "declspec">>
  <2>1. /\ Follows(ctl[Len(ctl) - 1], "param") /\ Follows("param", "declarator")
        /\ Follows("declarator", "declspec")
    BY <1>2 DEF Follows, DeclMarks
  <2>2. Holds(ctl', Opens(ctl) - Opens1("(void)") + Opens1("param") + Opens1("declarator")
                      + Opens1("declspec"),
              Decls(ctl) - Decls1("(void)") + Decls1("param") + Decls1("declarator")
                + Decls1("declspec"),
              Blocks(ctl) - Blocks1("(void)") + Blocks1("param") + Blocks1("declarator")
                + Blocks1("declspec"),
              Parens(ctl) - Parens1("(void)") + Parens1("param") + Parens1("declarator")
                + Parens1("declspec"))
    BY <1>7, <1>6, <2>1, Goes3
  <2>3. /\ \A x \in {"declarator", "declspec"} :
             Opens1(x) = 0 /\ Decls1(x) = 0 /\ Blocks1(x) = 0 /\ Parens1(x) = 0
        /\ Opens1("param") = 0 /\ Decls1("param") = 1 /\ Blocks1("param") = 0
        /\ Parens1("param") = 1
    BY Marks
  <2>4. Holds(ctl', Opens(ctl), Decls(ctl), Blocks(ctl), Parens(ctl))
    BY <1>3, <1>4, <2>2, <2>3
  <2>5. decls' \in Seq(AllDecls) /\ Len(decls') = Len(decls)
    BY <1>2, <1>6, DeclsFacts, NoneTypes
  <2> QED
    BY <1>1, <1>6, <2>4, <2>5, NeutralStep DEF CInv, TypesInv
<1> QED
  BY <1>1, <1>5, <1>6

\* One parameter is over, or all of them.
LEMMA ParamInv ==
  ASSUME CInv, Param
  PROVE  CInv'
<1> DEFINE ps == Append(Outer.ps, [n |-> D.name, at |-> D.at])
<1>1. /\ ctl # <<>> /\ Top = "param" /\ UNCHANGED <<scopes, label>>
      /\ \/ /\ tok.k = ","
            /\ decls' = Append(SubSeq(decls, 1, Len(decls) - 2), [Outer EXCEPT !.ps = ps]) \o <<NoDecl>>
            /\ ctl' = Pop(ctl) \o <<"param", "declarator", "declspec">>
            /\ Lex(scopes) /\ err' = err
         \/ /\ decls' = Append(SubSeq(decls, 1, Len(decls) - 2), [Outer EXCEPT !.type = Func(ps)])
            /\ ctl' = Pop(ctl) \o <<>> /\ Expect(")")
  BY DEF Param, Doing, Return, Then, SetOuter
<1>2. /\ Len(decls) = Decls(ctl) /\ Decls(ctl) >= 2 /\ Len(scopes) = 1 + Opens(ctl)
      /\ ~err => nest.b = Blocks(ctl) /\ nest.p = Parens(ctl)
      /\ Stack(ctl) /\ ctl[Len(ctl)] = "param" /\ Follows(ctl[Len(ctl) - 1], "param")
      /\ decls \in Seq(AllDecls) /\ D \in AllDecls /\ Outer \in AllDecls
      /\ ps \in Params /\ Func(ps) \in Types
  BY <1>1, ParamFacts DEF Top
<1>3. /\ Opens(ctl) \in Nat /\ Decls(ctl) \in Nat /\ Blocks(ctl) \in Nat /\ Parens(ctl) \in Int
  BY <1>1, Active
<1>7. ctl # <<>> /\ Stack(ctl) /\ ctl[Len(ctl)] = "param" /\ Follows(ctl[Len(ctl) - 1], "param")
  BY <1>1, <1>2
<1>4. /\ Opens1("param") = 0 /\ Decls1("param") = 1 /\ Blocks1("param") = 0
      /\ Parens1("param") = 1
  BY Marks
<1> HIDE DEF ps
<1>5. CASE /\ decls' = Append(SubSeq(decls, 1, Len(decls) - 2), [Outer EXCEPT !.type = Func(ps)])
           /\ ctl' = Pop(ctl) \o <<>> /\ Expect(")")
  <2>1. Holds(ctl', Opens(ctl) - Opens1("param"), Decls(ctl) - Decls1("param"),
              Blocks(ctl) - Blocks1("param"), Parens(ctl) - Parens1("param"))
    BY <1>7, <1>5, Goes0
  <2>2. Holds(ctl', Opens(ctl), Decls(ctl) - 1, Blocks(ctl), Parens(ctl) - 1)
    BY <1>3, <1>4, <2>1
  <2>3. decls' \in Seq(AllDecls) /\ Len(decls') = Len(decls) - 1
    <3>1. [Outer EXCEPT !.type = Func(ps)] \in AllDecls
      BY <1>2 DEF AllDecls
    <3> QED
      BY <1>2, <1>5, <3>1, DeclsFacts
  <2>4. /\ Lex(scopes) \/ Stay
        /\ err' \in BOOLEAN /\ (err => err') /\ (~err' => tok.k = ")" /\ Lex(scopes))
    BY <1>5, ExpectFacts
  <2>5. TypesInv'
    BY <1>1, <2>3, <2>4, TypesKept DEF CInv, TypesInv
  <2>6. ~err' => nest'.b = nest.b /\ nest'.p = nest.p - 1
    BY <2>4, LexType DEF CInv
  <2> QED
    BY <1>1, <1>2, <1>3, <2>2, <2>3, <2>4, <2>5, <2>6, Keeps DEF Holds
<1>6. CASE /\ tok.k = ","
           /\ decls' = Append(SubSeq(decls, 1, Len(decls) - 2), [Outer EXCEPT !.ps = ps]) \o <<NoDecl>>
           /\ ctl' = Pop(ctl) \o <<"param", "declarator", "declspec">>
           /\ Lex(scopes) /\ err' = err
  <2>1. /\ Follows(ctl[Len(ctl) - 1], "param") /\ Follows("param", "declarator")
        /\ Follows("declarator", "declspec")
    BY <1>2 DEF Follows, DeclMarks
  <2>2. Holds(ctl', Opens(ctl) - Opens1("param") + Opens1("param") + Opens1("declarator")
                      + Opens1("declspec"),
              Decls(ctl) - Decls1("param") + Decls1("param") + Decls1("declarator")
                + Decls1("declspec"),
              Blocks(ctl) - Blocks1("param") + Blocks1("param") + Blocks1("declarator")
                + Blocks1("declspec"),
              Parens(ctl) - Parens1("param") + Parens1("param") + Parens1("declarator")
                + Parens1("declspec"))
    BY <1>7, <1>6, <2>1, Goes3
  <2>3. \A x \in {"declarator", "declspec"} :
             Opens1(x) = 0 /\ Decls1(x) = 0 /\ Blocks1(x) = 0 /\ Parens1(x) = 0
    BY Marks
  <2>4. Holds(ctl', Opens(ctl), Decls(ctl), Blocks(ctl), Parens(ctl))
    BY <1>3, <1>4, <2>2, <2>3
  <2>5. decls' \in Seq(AllDecls) /\ Len(decls') = Len(decls)
    <3> DEFINE e == Append(SubSeq(decls, 1, Len(decls) - 2), [Outer EXCEPT !.ps = ps])
    <3>1. [Outer EXCEPT !.ps = ps] \in AllDecls
      BY <1>2 DEF AllDecls
    <3>2. e \in Seq(AllDecls) /\ Len(e) = Len(decls) - 1
      BY <1>2, <3>1, DeclsFacts
    <3>3. Len(decls) \in Nat
      BY <1>2
    <3> HIDE DEF e
    <3>4. IsSeq(e)
      BY <3>2 DEF IsSeq
    <3>5. e \o <<NoDecl>> = Append(e, NoDecl)
      BY <3>4, Joined
    <3>6. Append(e, NoDecl) \in Seq(AllDecls) /\ Len(Append(e, NoDecl)) = Len(e) + 1
      BY <3>2, NoneTypes
    <3>7. decls' = Append(e, NoDecl)
      BY <1>6, <3>5 DEF e
    <3> QED
      BY <3>2, <3>3, <3>6, <3>7
  <2>6. ~Bracket /\ err \in BOOLEAN /\ label \in BOOLEAN
    BY <1>6 DEF Bracket, CInv, TypesInv
  <2> QED
    BY <1>1, <1>6, <2>4, <2>5, <2>6, NeutralStep
<1> QED
  BY <1>1, <1>5, <1>6

\* The name of a declaration in the scope the parser is in.
LEMMA SymFacts ==
  ASSUME scopes \in Seq(AllScopes), Len(scopes) >= 1, D \in AllDecls
  PROVE  /\ D.type \in Types /\ D.name \in MaybeNames /\ D.at \in Nat
         /\ Sym("typedef", D.type, D.at) \in Syms /\ Sym("var", D.type, D.at) \in Syms
         /\ FileSym \in Syms
         /\ \A n \in MaybeNames, x \in Syms : /\ Bind(scopes, n, x) \in Seq(AllScopes)
                                              /\ Len(Bind(scopes, n, x)) = Len(scopes)
<1>1. D.type \in Types /\ D.name \in MaybeNames /\ D.at \in Nat
  BY DEF AllDecls
<1>2. /\ Sym("typedef", D.type, D.at) \in Syms /\ Sym("var", D.type, D.at) \in Syms
      /\ Sym("func", D.type, D.at) \in Syms
  BY <1>1 DEF Sym, Syms
<1>3. LookupCurrent(scopes, D.name) \in Syms
  <2>1. scopes[Len(scopes)] \in AllScopes
    OBVIOUS
  <2>2. \A n \in DOMAIN scopes[Len(scopes)] : scopes[Len(scopes)][n] \in Syms
    BY <2>1 DEF AllScopes
  <2> QED
    BY <2>2, NoneTypes DEF LookupCurrent
<1>4. FileSym \in Syms
  BY <1>2, <1>3 DEF FileSym
<1>5. scopes # <<>>
  OBVIOUS
<1> QED
  BY <1>1, <1>2, <1>4, <1>5, BindType

\* What the end of a declaration finds.
LEMMA DeclFacts ==
  ASSUME CInv, ctl # <<>>, Top \in {"external", "local"}
  PROVE  /\ Len(decls) = Decls(ctl) /\ Decls(ctl) >= 1 /\ Len(scopes) = 1 + Opens(ctl)
         /\ ~err => nest.b = Blocks(ctl) /\ nest.p = Parens(ctl)
         /\ Pop(decls) \in Seq(AllDecls) /\ Len(Pop(decls)) = Len(decls) - 1
         /\ D \in AllDecls /\ scopes \in Seq(AllScopes) /\ Len(scopes) >= 1
         /\ err \in BOOLEAN /\ label \in BOOLEAN
<1>1. /\ Len(decls) = Decls(ctl) /\ Decls(ctl) >= 1 /\ Len(scopes) = 1 + Opens(ctl)
      /\ decls \in Seq(AllDecls) /\ scopes \in Seq(AllScopes) /\ Opens(ctl) \in Nat
      /\ ~err => nest.b = Blocks(ctl) /\ nest.p = Parens(ctl)
  BY Active, DeclsThere DEF Top, CInv, TypesInv, DeclMarks
<1>2. D \in AllDecls /\ Pop(decls) \in Seq(AllDecls) /\ Len(Pop(decls)) = Len(decls) - 1
  BY <1>1, DeclsFacts
<1> QED
  BY <1>1, <1>2 DEF CInv, TypesInv

\* The stack and the numbers at the end of a declaration.
LEMMA DeclStack ==
  ASSUME CInv, ctl # <<>>, Top \in {"external", "local"}
  PROVE  /\ Stack(ctl) /\ ctl[Len(ctl)] = Top
         /\ Opens(ctl) \in Nat /\ Decls(ctl) \in Nat /\ Blocks(ctl) \in Nat /\ Parens(ctl) \in Int
         /\ Opens1(Top) = 0 /\ Decls1(Top) = 1 /\ Blocks1(Top) = 0 /\ Parens1(Top) = 0
         /\ ctl' = Pop(ctl) \o <<>> =>
              Holds(ctl', Opens(ctl), Decls(ctl) - 1, Blocks(ctl), Parens(ctl))
<1>1. /\ Stack(ctl) /\ ctl[Len(ctl)] = Top
  BY Active DEF Top
<1>2. Opens(ctl) \in Nat /\ Decls(ctl) \in Nat /\ Blocks(ctl) \in Nat /\ Parens(ctl) \in Int
  BY Active
<1>3. Opens1(Top) = 0 /\ Decls1(Top) = 1 /\ Blocks1(Top) = 0 /\ Parens1(Top) = 0
  BY Marks
<1>4. ASSUME ctl' = Pop(ctl) \o <<>>
      PROVE  Holds(ctl', Opens(ctl), Decls(ctl) - 1, Blocks(ctl), Parens(ctl))
  <2>1. Holds(ctl', Opens(ctl) - Opens1(Top), Decls(ctl) - Decls1(Top),
              Blocks(ctl) - Blocks1(Top), Parens(ctl) - Parens1(Top))
    BY <1>4, Over
  <2> QED
    BY <1>2, <1>3, <2>1
<1> QED
  BY <1>1, <1>2, <1>3, <1>4

\* A declaration is over: it leaves the calls and the declarations.
LEMMA DeclOver ==
  ASSUME CInv, ctl # <<>>, Top \in {"external", "local"}, ctl' = Pop(ctl) \o <<>>,
         decls' = Pop(decls), scopes' \in Seq(AllScopes), Len(scopes') = Len(scopes),
         NEW s, Lex(s) \/ Stay, err' \in BOOLEAN, label' = label,
         ~err' => ~err /\ nest'.b = nest.b /\ nest'.p = nest.p
  PROVE  CInv'
<1>1. Holds(ctl', Opens(ctl), Decls(ctl) - 1, Blocks(ctl), Parens(ctl))
  BY DeclStack
<1>2. TypesInv'
  BY DeclFacts, TypesKept
<1> QED
  BY <1>1, <1>2, DeclFacts, Keeps DEF Holds

\* A typedef.
LEMMA TypedefInv ==
  ASSUME CInv, Typedef
  PROVE  CInv'
<1>1. /\ ctl # <<>> /\ Top \in {"external", "local"} /\ ctl' = Pop(ctl) \o <<>>
      /\ decls' = Pop(decls) /\ label' = label
      /\ \/ /\ scopes' = Bind(scopes, D.name, Sym("typedef", D.type, D.at))
            /\ tok.k = ";" /\ Lex(TypedefScopes(scopes')) /\ err' = err
         \/ err' = TRUE /\ Stay /\ scopes' = scopes
  BY DEF Typedef, Doing, Return, Then
<1>2. /\ D \in AllDecls /\ scopes \in Seq(AllScopes) /\ Len(scopes) >= 1
      /\ err \in BOOLEAN
  BY <1>1, DeclFacts
<1>3. CASE /\ scopes' = Bind(scopes, D.name, Sym("typedef", D.type, D.at))
           /\ tok.k = ";" /\ Lex(TypedefScopes(scopes')) /\ err' = err
  <2>1. scopes' \in Seq(AllScopes) /\ Len(scopes') = Len(scopes)
    BY <1>2, <1>3, SymFacts
  <2>2. nest'.b = nest.b /\ nest'.p = nest.p
    BY <1>3, LexType DEF CInv
  <2> QED
    BY <1>1, <1>2, <1>3, <2>1, <2>2, DeclOver
<1>4. CASE err' = TRUE /\ Stay /\ scopes' = scopes
  BY <1>1, <1>2, <1>4, DeclOver
<1> QED
  BY <1>1, <1>3, <1>4

\* A declaration without a name.
LEMMA NamelessInv ==
  ASSUME CInv, NamelessDecl
  PROVE  CInv'
<1>1. /\ ctl # <<>> /\ Top \in {"external", "local"} /\ ctl' = Pop(ctl) \o <<>>
      /\ decls' = Pop(decls) /\ label' = label /\ Stay /\ scopes' = scopes /\ err' = err
  BY DEF NamelessDecl, Doing, Return, Then
<1>2. scopes \in Seq(AllScopes) /\ err \in BOOLEAN
  BY <1>1, DeclFacts
<1>3. nest'.b = nest.b /\ nest'.p = nest.p
  BY <1>1 DEF Stay
<1>4. err' \in BOOLEAN /\ (~err' => ~err) /\ scopes' \in Seq(AllScopes) /\ Len(scopes') = Len(scopes)
  BY <1>1, <1>2
<1>5. /\ ctl # <<>> /\ Top \in {"external", "local"} /\ ctl' = Pop(ctl) \o <<>>
      /\ decls' = Pop(decls) /\ label' = label /\ Stay
  BY <1>1
<1> QED
  BY <1>3, <1>4, <1>5, DeclOver

\* A variable or a function is declared in the file.
LEMMA DeclareInv ==
  ASSUME CInv, Declare
  PROVE  CInv'
<1>1. /\ ctl # <<>> /\ Top \in {"external", "local"} /\ ctl' = Pop(ctl) \o <<>>
      /\ decls' = Pop(decls) /\ label' = label /\ Expect(";")
      /\ scopes' = Bind(scopes, D.name, FileSym)
  BY DEF Declare, Doing, Return, Then
<1>2. D \in AllDecls /\ scopes \in Seq(AllScopes) /\ Len(scopes) >= 1
  BY <1>1, DeclFacts
<1>3. /\ Lex(scopes) \/ Stay
      /\ err' \in BOOLEAN /\ (err => err') /\ (~err' => tok.k = ";" /\ Lex(scopes))
  BY <1>1, ExpectFacts
<1>4. scopes' \in Seq(AllScopes) /\ Len(scopes') = Len(scopes)
  BY <1>1, <1>2, SymFacts
<1>5. ~err' => ~err /\ nest'.b = nest.b /\ nest'.p = nest.p
  BY <1>3, LexType DEF CInv
<1> QED
  BY <1>1, <1>3, <1>4, <1>5, DeclOver

\* A function's body starts, in the scope of its parameters.
LEMMA DefineInv ==
  ASSUME CInv, Define
  PROVE  CInv'
<1>1. /\ ctl # <<>> /\ Top = "external" /\ ctl' = Pop(ctl) \o <<"end of function", "compound">>
      /\ decls' = Pop(decls) /\ label' = label /\ err' = err /\ Stay
      /\ scopes' = Append(Bind(scopes, D.name, FileSym), ParamScope(FileSym.type.ps))
  BY DEF Define, Doing, Then
<1>2. /\ D \in AllDecls /\ scopes \in Seq(AllScopes) /\ Len(scopes) >= 1
      /\ err \in BOOLEAN /\ label \in BOOLEAN
      /\ Len(decls) = Decls(ctl) /\ Len(scopes) = 1 + Opens(ctl)
      /\ ~err => nest.b = Blocks(ctl) /\ nest.p = Parens(ctl)
      /\ Pop(decls) \in Seq(AllDecls) /\ Len(Pop(decls)) = Len(decls) - 1
  BY <1>1, DeclFacts
<1>3. scopes' \in Seq(AllScopes) /\ Len(scopes') = Len(scopes) + 1
  <2> DEFINE e == Bind(scopes, D.name, FileSym)
             f == ParamScope(FileSym.type.ps)
  <2>1. FileSym \in Syms /\ e \in Seq(AllScopes) /\ Len(e) = Len(scopes)
    BY <1>2, SymFacts
  <2>2. f \in AllScopes
    <3>1. FileSym.type.ps \in Params
      BY <2>1 DEF Syms, Types
    <3> QED
      BY <3>1, ParamScopeType
  <2> HIDE DEF e, f
  <2>3. Append(e, f) \in Seq(AllScopes) /\ Len(Append(e, f)) = Len(e) + 1
    BY <2>1, <2>2
  <2> QED
    BY <1>1, <2>1, <2>3 DEF e, f
<1>4. /\ Stack(ctl) /\ ctl[Len(ctl)] = "external" /\ ctl # <<>>
      /\ Follows(ctl[Len(ctl) - 1], "end of function") /\ Follows("end of function", "compound")
  BY <1>1, DeclStack DEF Follows
<1>5. Opens(ctl) \in Nat /\ Decls(ctl) \in Nat /\ Blocks(ctl) \in Nat /\ Parens(ctl) \in Int
  BY <1>1, DeclStack
<1>6. Holds(ctl', Opens(ctl) + 1, Decls(ctl) - 1, Blocks(ctl), Parens(ctl))
  <2> DEFINE x == "external"
             y == "end of function"
             z == "compound"
  <2>1. /\ Opens1(x) = 0 /\ Decls1(x) = 1 /\ Blocks1(x) = 0 /\ Parens1(x) = 0
        /\ Opens1(y) = 1 /\ Decls1(y) = 0 /\ Blocks1(y) = 0 /\ Parens1(y) = 0
        /\ Opens1(z) = 0 /\ Decls1(z) = 0 /\ Blocks1(z) = 0 /\ Parens1(z) = 0
    BY Marks
  <2>2. ctl' = Pop(ctl) \o <<y, z>>
    BY <1>1
  <2>3. Holds(ctl', Opens(ctl) - Opens1(x) + Opens1(y) + Opens1(z),
              Decls(ctl) - Decls1(x) + Decls1(y) + Decls1(z),
              Blocks(ctl) - Blocks1(x) + Blocks1(y) + Blocks1(z),
              Parens(ctl) - Parens1(x) + Parens1(y) + Parens1(z))
    BY <1>4, <2>2, Goes2
  <2> HIDE DEF x, y, z
  <2> QED
    BY <1>5, <2>1, <2>3
<1>7. TypesInv'
  BY <1>1, <1>2, <1>3, TypesKept
<1>8. nest'.b = nest.b /\ nest'.p = nest.p
  BY <1>1 DEF Stay
<1>9. Len(scopes') = 1 + (Opens(ctl) + 1) /\ Len(decls') = Decls(ctl) - 1
  <2>1. Len(scopes) = 1 + Opens(ctl) /\ decls' = Pop(decls) /\ Len(Pop(decls)) = Decls(ctl) - 1
    BY <1>1, <1>2
  <2> QED
    BY <1>3, <1>5, <2>1
<1>10. ~err' => nest'.b = Blocks(ctl) /\ nest'.p = Parens(ctl)
  BY <1>1, <1>2, <1>8
<1> QED
  BY <1>6, <1>7, <1>9, <1>10, Keeps DEF Holds

\* A function is over.
LEMMA EndFunctionInv ==
  ASSUME CInv, EndFunction
  PROVE  CInv'
<1> DEFINE x == "end of function"
<1>1. /\ ctl # <<>> /\ Top = x /\ ctl' = Pop(ctl) \o <<>> /\ Stay
      /\ UNCHANGED <<decls, label, err>> /\ scopes' = Pop(scopes)
  BY DEF EndFunction, ScopesAfterFunction, Doing, Return, Then
<1>2. /\ Len(scopes) = 1 + Opens(ctl) /\ Len(decls) = Decls(ctl)
      /\ ~err => nest.b = Blocks(ctl) /\ nest.p = Parens(ctl)
      /\ scopes \in Seq(AllScopes) /\ decls \in Seq(AllDecls)
      /\ err \in BOOLEAN /\ label \in BOOLEAN
  BY <1>1, Active DEF CInv, TypesInv
<1>11. Len(scopes) = 1 + Opens(ctl) /\ Len(decls) = Decls(ctl) /\ scopes \in Seq(AllScopes)
  BY <1>2
<1>3. /\ Opens(ctl) \in Nat /\ Decls(ctl) \in Nat /\ Blocks(ctl) \in Nat /\ Parens(ctl) \in Int
  BY <1>1, Active
<1>4. /\ Opens1(x) = 1 /\ Decls1(x) = 0 /\ Blocks1(x) = 0 /\ Parens1(x) = 0
  BY Marks
<1>5. Holds(ctl', Opens(ctl) - 1, Decls(ctl), Blocks(ctl), Parens(ctl))
  <2>1. Holds(ctl', Opens(ctl) - Opens1(x), Decls(ctl) - Decls1(x),
              Blocks(ctl) - Blocks1(x), Parens(ctl) - Parens1(x))
    BY <1>1, Over
  <2> HIDE DEF x
  <2> QED
    BY <1>3, <1>4, <2>1
<1>6. scopes' \in Seq(AllScopes) /\ Len(scopes') = Len(scopes) - 1
  <2>1. scopes \in Seq(AllScopes) /\ Len(scopes) \in Nat /\ Len(scopes) >= 1
    BY <1>3, <1>11
  <2>2. scopes' = Pop(scopes)
    BY <1>1
  <2> QED
    BY <2>1, <2>2, ScopesFacts
<1>7. TypesInv'
  BY <1>1, <1>2, <1>6, TypesKept
<1>8. nest'.b = nest.b /\ nest'.p = nest.p
  BY <1>1 DEF Stay
<1>12. Len(scopes') = 1 + (Opens(ctl) - 1) /\ Len(decls') = Decls(ctl)
  <2>1. Len(scopes') = 1 + (Opens(ctl) - 1)
    BY <1>3, <1>6, <1>11
  <2> QED
    BY <1>1, <1>11, <2>1
<1>13. ~err' => nest'.b = Blocks(ctl) /\ nest'.p = Parens(ctl)
  BY <1>1, <1>2, <1>8
<1> QED
  BY <1>5, <1>7, <1>12, <1>13, Keeps DEF Holds

\* A block starts, with its brace or without.
LEMMA EnterBlockInv ==
  ASSUME CInv, EnterBlock
  PROVE  CInv'
<1> DEFINE x == "compound"
           y == "block"
<1>1. /\ ctl # <<>> /\ Top = x /\ ctl' = Pop(ctl) \o <<y>> /\ Expect("{")
      /\ UNCHANGED <<decls, label>> /\ scopes' = Append(scopes, <<>>)
  BY DEF EnterBlock, Push, Doing, Then
<1>2. /\ Len(scopes) = 1 + Opens(ctl) /\ Len(decls) = Decls(ctl)
      /\ ~err => nest.b = Blocks(ctl) /\ nest.p = Parens(ctl)
      /\ scopes \in Seq(AllScopes) /\ decls \in Seq(AllDecls) /\ label \in BOOLEAN
  BY <1>1, Active DEF CInv, TypesInv
<1>11. Len(scopes) = 1 + Opens(ctl) /\ Len(decls) = Decls(ctl) /\ scopes \in Seq(AllScopes)
  BY <1>2
<1>3. /\ Opens(ctl) \in Nat /\ Decls(ctl) \in Nat /\ Blocks(ctl) \in Nat /\ Parens(ctl) \in Int
  BY <1>1, Active
<1>4. /\ Stack(ctl) /\ ctl[Len(ctl)] = x /\ Follows(ctl[Len(ctl) - 1], y)
  BY <1>1, Active DEF Top, Follows
<1>5. /\ Opens1(x) = 0 /\ Decls1(x) = 0 /\ Blocks1(x) = 0 /\ Parens1(x) = 0
      /\ Opens1(y) = 1 /\ Decls1(y) = 0 /\ Blocks1(y) = 1 /\ Parens1(y) = 0
  BY Marks
<1>6. Holds(ctl', Opens(ctl) + 1, Decls(ctl), Blocks(ctl) + 1, Parens(ctl))
  <2>1. Holds(ctl', Opens(ctl) - Opens1(x) + Opens1(y), Decls(ctl) - Decls1(x) + Decls1(y),
              Blocks(ctl) - Blocks1(x) + Blocks1(y), Parens(ctl) - Parens1(x) + Parens1(y))
    BY <1>1, <1>4, Goes1
  <2> HIDE DEF x, y
  <2> QED
    BY <1>3, <1>5, <2>1
<1>7. scopes' \in Seq(AllScopes) /\ Len(scopes') = Len(scopes) + 1
  <2>1. scopes \in Seq(AllScopes) /\ Len(scopes) \in Nat /\ Len(scopes) >= 1
    BY <1>3, <1>11
  <2>2. scopes' = Append(scopes, <<>>)
    BY <1>1
  <2> QED
    BY <2>1, <2>2, ScopesFacts, NoneTypes
<1>8. /\ Lex(scopes) \/ Stay
      /\ err' \in BOOLEAN /\ (err => err') /\ (~err' => tok.k = "{" /\ Lex(scopes))
  BY <1>1, ExpectFacts
<1>9. TypesInv'
  BY <1>1, <1>2, <1>7, <1>8, TypesKept
<1>10. ~err' => nest'.b = nest.b + 1 /\ nest'.p = nest.p
  BY <1>8, LexType DEF CInv
<1>12. Len(scopes') = 1 + (Opens(ctl) + 1) /\ Len(decls') = Decls(ctl)
  <2>1. Len(scopes') = 1 + (Opens(ctl) + 1)
    BY <1>3, <1>7, <1>11
  <2> QED
    BY <1>1, <1>11, <2>1
<1>13. ~err' => nest'.b = Blocks(ctl) + 1 /\ nest'.p = Parens(ctl)
  BY <1>1, <1>2, <1>8, <1>10
<1> QED
  BY <1>6, <1>9, <1>12, <1>13, Keeps DEF Holds

\* A block is over, with its brace or at the end of the text.
LEMMA LeaveBlockInv ==
  ASSUME CInv, LeaveBlock
  PROVE  CInv'
<1> DEFINE x == "block"
<1>1. /\ ctl # <<>> /\ Top = x /\ ctl' = Pop(ctl) \o <<>> /\ Expect("}")
      /\ UNCHANGED <<decls, label>> /\ scopes' = Pop(scopes)
  BY DEF LeaveBlock, Doing, Return, Then
<1>2. /\ Len(scopes) = 1 + Opens(ctl) /\ Len(decls) = Decls(ctl)
      /\ ~err => nest.b = Blocks(ctl) /\ nest.p = Parens(ctl)
      /\ scopes \in Seq(AllScopes) /\ decls \in Seq(AllDecls) /\ label \in BOOLEAN
  BY <1>1, Active DEF CInv, TypesInv
<1>11. Len(scopes) = 1 + Opens(ctl) /\ Len(decls) = Decls(ctl) /\ scopes \in Seq(AllScopes)
  BY <1>2
<1>3. /\ Opens(ctl) \in Nat /\ Decls(ctl) \in Nat /\ Blocks(ctl) \in Nat /\ Parens(ctl) \in Int
  BY <1>1, Active
<1>4. /\ Opens1(x) = 1 /\ Decls1(x) = 0 /\ Blocks1(x) = 1 /\ Parens1(x) = 0
  BY Marks
<1>5. Holds(ctl', Opens(ctl) - 1, Decls(ctl), Blocks(ctl) - 1, Parens(ctl))
  <2>1. Holds(ctl', Opens(ctl) - Opens1(x), Decls(ctl) - Decls1(x),
              Blocks(ctl) - Blocks1(x), Parens(ctl) - Parens1(x))
    BY <1>1, Over
  <2> HIDE DEF x
  <2> QED
    BY <1>3, <1>4, <2>1
<1>6. scopes' \in Seq(AllScopes) /\ Len(scopes') = Len(scopes) - 1
  <2>1. scopes \in Seq(AllScopes) /\ Len(scopes) \in Nat /\ Len(scopes) >= 1
    BY <1>3, <1>11
  <2>2. scopes' = Pop(scopes)
    BY <1>1
  <2> QED
    BY <2>1, <2>2, ScopesFacts
<1>7. /\ Lex(scopes) \/ Stay
      /\ err' \in BOOLEAN /\ (err => err') /\ (~err' => tok.k = "}" /\ Lex(scopes))
  BY <1>1, ExpectFacts
<1>8. TypesInv'
  BY <1>1, <1>2, <1>6, <1>7, TypesKept
<1>9. ~err' => nest'.b = nest.b - 1 /\ nest'.p = nest.p
  BY <1>7, LexType DEF CInv
<1>12. Len(scopes') = 1 + (Opens(ctl) - 1) /\ Len(decls') = Decls(ctl)
  <2>1. Len(scopes') = 1 + (Opens(ctl) - 1)
    BY <1>3, <1>6, <1>11
  <2> QED
    BY <1>1, <1>11, <2>1
<1>13. ~err' => nest'.b = Blocks(ctl) - 1 /\ nest'.p = Parens(ctl)
  BY <1>1, <1>2, <1>7, <1>9
<1> QED
  BY <1>5, <1>8, <1>12, <1>13, Keeps DEF Holds

\* A variable of a block, with a value or without.
LEMMA LocalInv ==
  ASSUME CInv, Local
  PROVE  CInv'
<1>1. /\ ctl # <<>> /\ Top = "local" /\ decls' = Pop(decls) /\ UNCHANGED <<label, err>>
      /\ scopes' = Bind(scopes, D.name, Sym("var", D.type, D.at))
      /\ \/ tok.k = "=" /\ ctl' = Pop(ctl) \o <<";", "expr">> /\ Lex(scopes')
         \/ ctl' = Pop(ctl) \o <<";">> /\ Stay
  BY DEF Local, Doing, Then
<1>2. /\ D \in AllDecls /\ scopes \in Seq(AllScopes) /\ Len(scopes) >= 1
      /\ err \in BOOLEAN /\ label \in BOOLEAN
      /\ Len(decls) = Decls(ctl) /\ Len(scopes) = 1 + Opens(ctl)
      /\ ~err => nest.b = Blocks(ctl) /\ nest.p = Parens(ctl)
      /\ Pop(decls) \in Seq(AllDecls) /\ Len(Pop(decls)) = Len(decls) - 1
  BY <1>1, DeclFacts
<1>3. Opens(ctl) \in Nat /\ Decls(ctl) \in Nat /\ Blocks(ctl) \in Nat /\ Parens(ctl) \in Int
  BY <1>1, DeclStack
<1>4. scopes' \in Seq(AllScopes) /\ Len(scopes') = Len(scopes)
  BY <1>1, <1>2, SymFacts
<1>5. Holds(ctl', Opens(ctl), Decls(ctl) - 1, Blocks(ctl), Parens(ctl))
  <2> DEFINE x == "local"
             y == ";"
             z == "expr"
             u == ctl[Len(ctl) - 1]
  <2>1. /\ Opens1(x) = 0 /\ Decls1(x) = 1 /\ Blocks1(x) = 0 /\ Parens1(x) = 0
        /\ Opens1(y) = 0 /\ Decls1(y) = 0 /\ Blocks1(y) = 0 /\ Parens1(y) = 0
        /\ Opens1(z) = 0 /\ Decls1(z) = 0 /\ Blocks1(z) = 0 /\ Parens1(z) = 0
    BY Marks
  <2>2. ctl # <<>> /\ Stack(ctl) /\ ctl[Len(ctl)] = x /\ Follows(u, y) /\ Follows(y, z)
    BY <1>1, DeclStack DEF Follows
  <2>3. x # "unit"
    OBVIOUS
  <2>4. ctl' = Pop(ctl) \o <<y, z>> \/ ctl' = Pop(ctl) \o <<y>>
    BY <1>1
  <2> HIDE DEF x, y, z
  <2>5. CASE ctl' = Pop(ctl) \o <<y, z>>
    <3>1. Holds(ctl', Opens(ctl) - Opens1(x) + Opens1(y) + Opens1(z),
                Decls(ctl) - Decls1(x) + Decls1(y) + Decls1(z),
                Blocks(ctl) - Blocks1(x) + Blocks1(y) + Blocks1(z),
                Parens(ctl) - Parens1(x) + Parens1(y) + Parens1(z))
      BY <2>2, <2>3, <2>5, Goes2
    <3> QED
      BY <1>3, <2>1, <3>1
  <2>6. CASE ctl' = Pop(ctl) \o <<y>>
    <3>1. Holds(ctl', Opens(ctl) - Opens1(x) + Opens1(y), Decls(ctl) - Decls1(x) + Decls1(y),
                Blocks(ctl) - Blocks1(x) + Blocks1(y), Parens(ctl) - Parens1(x) + Parens1(y))
      BY <2>2, <2>3, <2>6, Goes1
    <3> QED
      BY <1>3, <2>1, <3>1
  <2> QED
    BY <2>4, <2>5, <2>6
<1>6. TypesInv'
  BY <1>1, <1>2, <1>4, TypesKept
<1>7. nest'.b = nest.b /\ nest'.p = nest.p
  BY <1>1, LexType DEF Stay, CInv
<1> QED
  BY <1>1, <1>2, <1>3, <1>4, <1>5, <1>6, <1>7, Keeps DEF Holds

\* A name in an expression, declared there if nothing declares it.
LEMMA NameInv ==
  ASSUME CInv, Name
  PROVE  CInv'
<1>1. /\ ctl # <<>> /\ Top = "expr" /\ ctl' = Pop(ctl) \o <<"postfix">> /\ Lex(scopes)
      /\ tok.k = "ident" /\ UNCHANGED <<decls, err>> /\ label' \in BOOLEAN
      /\ scopes' = Implicit \/ scopes' = scopes
  BY DEF Name, Doing, Then
<1>2. Holds(ctl', Opens(ctl), Decls(ctl), Blocks(ctl), Parens(ctl))
  BY <1>1, LightOne DEF Light, Free
<1>3. scopes' \in Seq(AllScopes) /\ Len(scopes') = Len(scopes)
  <2>1. scopes \in Seq(AllScopes) /\ Len(scopes) = 1 + Opens(ctl) /\ Opens(ctl) \in Nat
    BY <1>1, Active DEF CInv, TypesInv
  <2>2. scopes # <<>>
    BY <2>1
  <2>3. tok.n \in MaybeNames /\ pos \in Nat
    BY DEF CInv, TypesInv
  <2>4. Sym("func", Func(<<>>), pos) \in Syms
    BY <2>3, NoneTypes DEF Sym, Syms
  <2>5. Implicit \in Seq(AllScopes) /\ Len(Implicit) = Len(scopes)
    BY <2>1, <2>2, <2>3, <2>4, BindType DEF Implicit
  <2> QED
    BY <1>1, <2>1, <2>5
<1>4. decls \in Seq(AllDecls) /\ err \in BOOLEAN
  BY DEF CInv, TypesInv
<1>5. TypesInv'
  BY <1>1, <1>3, <1>4, TypesKept
<1>6. Lex(scopes) /\ ~Bracket
  BY <1>1 DEF Bracket
<1>7. Len(decls') = Len(decls) /\ (err => err') /\ ctl # <<>> /\ Top # "begin"
  BY <1>1
<1> QED
  BY <1>2, <1>3, <1>5, <1>6, <1>7, Neutral

\* A parenthesis opens, and is to be closed.
LEMMA OpenStep ==
  ASSUME CInv, ctl # <<>>, Top # "begin",
         Holds(ctl', Opens(ctl), Decls(ctl), Blocks(ctl), Parens(ctl) + 1),
         tok.k = "(", Lex(scopes), UNCHANGED <<decls, scopes, label, err>>
  PROVE  CInv'
<1>1. /\ Len(scopes) = 1 + Opens(ctl) /\ Len(decls) = Decls(ctl)
      /\ ~err => nest.b = Blocks(ctl) /\ nest.p = Parens(ctl)
  BY Active
<1>2. nest'.b = nest.b /\ nest'.p = nest.p + 1
  BY LexType DEF CInv
<1>3. TypesInv'
  BY TypesKept DEF CInv, TypesInv
<1>4. /\ Len(scopes') = 1 + Opens(ctl) /\ Len(decls') = Decls(ctl)
      /\ ~err' => nest'.b = Blocks(ctl) /\ nest'.p = Parens(ctl) + 1
  BY <1>1, <1>2
<1> QED
  BY <1>3, <1>4, Keeps DEF Holds

\* An open parenthesis is closed, or the error is reported.
LEMMA CloseStep ==
  ASSUME CInv, ctl # <<>>, Top # "begin",
         Holds(ctl', Opens(ctl), Decls(ctl), Blocks(ctl), Parens(ctl) - 1),
         Lex(scopes) \/ Stay, UNCHANGED <<decls, scopes, label>>,
         err' \in BOOLEAN, err => err', ~err' => tok.k = ")" /\ Lex(scopes)
  PROVE  CInv'
<1>1. /\ Len(scopes) = 1 + Opens(ctl) /\ Len(decls) = Decls(ctl)
      /\ ~err => nest.b = Blocks(ctl) /\ nest.p = Parens(ctl)
  BY Active
<1>2. ~err' => nest'.b = nest.b /\ nest'.p = nest.p - 1
  BY LexType DEF CInv
<1>3. TypesInv'
  BY TypesKept DEF CInv, TypesInv
<1>4. /\ Len(scopes') = 1 + Opens(ctl) /\ Len(decls') = Decls(ctl)
      /\ ~err' => nest'.b = Blocks(ctl) /\ nest'.p = Parens(ctl) - 1
  BY <1>1, <1>2
<1> QED
  BY <1>3, <1>4, Keeps DEF Holds

\* An expression in parentheses, or the arguments of a call.
LEMMA ParenInv ==
  ASSUME CInv, Paren \/ (Postfix /\ tok.k = "(")
  PROVE  CInv'
<1>1. /\ ctl # <<>> /\ Top \in {"expr", "postfix"} /\ Lex(scopes) /\ tok.k = "("
      /\ UNCHANGED <<decls, scopes, label, err>>
      /\ \/ ctl' = Pop(ctl) \o <<"postfix", ")", "expr">>
         \/ \E y \in {"call", "no call"} : ctl' = Pop(ctl) \o <<y, "arguments">>
  BY DEF Paren, Postfix, Doing, Then
<1> DEFINE x == Top
           u == ctl[Len(ctl) - 1]
<1>2. Stack(ctl) /\ ctl # <<>> /\ ctl[Len(ctl)] = x /\ x # "unit"
  BY <1>1, Active DEF Top
<1>3. Opens(ctl) \in Nat /\ Decls(ctl) \in Nat /\ Blocks(ctl) \in Nat /\ Parens(ctl) \in Int
  BY <1>1, Active
<1>4. Opens1(x) = 0 /\ Decls1(x) = 0 /\ Blocks1(x) = 0 /\ Parens1(x) = 0
  BY <1>1, Marks
<1>5. CASE ctl' = Pop(ctl) \o <<"postfix", ")", "expr">>
  <2> DEFINE y == "postfix"
             z == ")"
             w == "expr"
  <2>1. /\ Opens1(y) = 0 /\ Decls1(y) = 0 /\ Blocks1(y) = 0 /\ Parens1(y) = 0
        /\ Opens1(z) = 0 /\ Decls1(z) = 0 /\ Blocks1(z) = 0 /\ Parens1(z) = 1
        /\ Opens1(w) = 0 /\ Decls1(w) = 0 /\ Blocks1(w) = 0 /\ Parens1(w) = 0
    BY Marks
  <2>2. Follows(u, y) /\ Follows(y, z) /\ Follows(z, w)
    BY DEF Follows
  <2>3. ctl' = Pop(ctl) \o <<y, z, w>>
    BY <1>5
  <2> HIDE DEF x, y, z, w, u
  <2>4. Holds(ctl', Opens(ctl) - Opens1(x) + Opens1(y) + Opens1(z) + Opens1(w),
              Decls(ctl) - Decls1(x) + Decls1(y) + Decls1(z) + Decls1(w),
              Blocks(ctl) - Blocks1(x) + Blocks1(y) + Blocks1(z) + Blocks1(w),
              Parens(ctl) - Parens1(x) + Parens1(y) + Parens1(z) + Parens1(w))
    BY <1>2, <2>2, <2>3, Goes3 DEF u
  <2>5. Holds(ctl', Opens(ctl), Decls(ctl), Blocks(ctl), Parens(ctl) + 1)
    BY <1>3, <1>4, <2>1, <2>4
  <2> QED
    BY <1>1, <2>5, OpenStep
<1>6. CASE \E y \in {"call", "no call"} : ctl' = Pop(ctl) \o <<y, "arguments">>
  <2>1. PICK y : y \in {"call", "no call"} /\ ctl' = Pop(ctl) \o <<y, "arguments">>
    BY <1>6
  <2> DEFINE z == "arguments"
  <2>2. /\ Opens1(y) = 0 /\ Decls1(y) = 0 /\ Blocks1(y) = 0 /\ Parens1(y) = 0
        /\ Opens1(z) = 0 /\ Decls1(z) = 0 /\ Blocks1(z) = 0 /\ Parens1(z) = 1
    BY <2>1, Marks
  <2>3. Follows(u, y) /\ Follows(y, z)
    BY <2>1 DEF Follows
  <2>4. ctl' = Pop(ctl) \o <<y, z>>
    BY <2>1
  <2> HIDE DEF x, z, u
  <2>5. Holds(ctl', Opens(ctl) - Opens1(x) + Opens1(y) + Opens1(z),
              Decls(ctl) - Decls1(x) + Decls1(y) + Decls1(z),
              Blocks(ctl) - Blocks1(x) + Blocks1(y) + Blocks1(z),
              Parens(ctl) - Parens1(x) + Parens1(y) + Parens1(z))
    BY <1>2, <2>3, <2>4, Goes2 DEF u
  <2>6. Holds(ctl', Opens(ctl), Decls(ctl), Blocks(ctl), Parens(ctl) + 1)
    BY <1>3, <1>4, <2>2, <2>5
  <2> QED
    BY <1>1, <2>6, OpenStep
<1> QED
  BY <1>1, <1>5, <1>6

\* Arguments: one more, or the end of the list.
LEMMA ArgumentsInv ==
  ASSUME CInv, Arguments \/ MoreArguments
  PROVE  CInv'
<1>1. /\ ctl # <<>> /\ Top \in {"arguments", "more"} /\ UNCHANGED <<decls, scopes, label>>
      /\ \/ /\ ctl' = Pop(ctl) \o <<"more", "expr">> /\ err' = err
            /\ Stay \/ (tok.k = "," /\ Lex(scopes))
         \/ ctl' = Pop(ctl) \o <<>> /\ tok.k = ")" /\ Lex(scopes) /\ err' = err
         \/ ctl' = Pop(ctl) \o <<>> /\ Expect(")")
  BY DEF Arguments, MoreArguments, Doing, Then, Return
<1> DEFINE x == Top
           u == ctl[Len(ctl) - 1]
<1>2. Stack(ctl) /\ ctl # <<>> /\ ctl[Len(ctl)] = x /\ x # "unit"
  BY <1>1, Active DEF Top
<1>3. Opens(ctl) \in Nat /\ Decls(ctl) \in Nat /\ Blocks(ctl) \in Nat /\ Parens(ctl) \in Int
  BY <1>1, Active
<1>4. Opens1(x) = 0 /\ Decls1(x) = 0 /\ Blocks1(x) = 0 /\ Parens1(x) = 1
  BY <1>1, Marks
<1>5. CASE ctl' = Pop(ctl) \o <<"more", "expr">> /\ err' = err
           /\ (Stay \/ (tok.k = "," /\ Lex(scopes)))
  <2> DEFINE y == "more"
             z == "expr"
  <2>1. /\ Opens1(y) = 0 /\ Decls1(y) = 0 /\ Blocks1(y) = 0 /\ Parens1(y) = 1
        /\ Opens1(z) = 0 /\ Decls1(z) = 0 /\ Blocks1(z) = 0 /\ Parens1(z) = 0
    BY Marks
  <2>2. Follows(u, y) /\ Follows(y, z)
    BY DEF Follows
  <2>3. ctl' = Pop(ctl) \o <<y, z>>
    BY <1>5
  <2> HIDE DEF x, y, z, u
  <2>4. Holds(ctl', Opens(ctl) - Opens1(x) + Opens1(y) + Opens1(z),
              Decls(ctl) - Decls1(x) + Decls1(y) + Decls1(z),
              Blocks(ctl) - Blocks1(x) + Blocks1(y) + Blocks1(z),
              Parens(ctl) - Parens1(x) + Parens1(y) + Parens1(z))
    BY <1>2, <2>2, <2>3, Goes2 DEF u
  <2>5. Holds(ctl', Opens(ctl), Decls(ctl), Blocks(ctl), Parens(ctl))
    BY <1>3, <1>4, <2>1, <2>4
  <2>6. Stay \/ (Lex(scopes) /\ ~Bracket)
    BY <1>5 DEF Bracket
  <2>7. err' \in BOOLEAN /\ label' \in BOOLEAN /\ (err => err')
    BY <1>1, <1>5 DEF CInv, TypesInv
  <2> QED
    BY <1>1, <2>5, <2>6, <2>7, SameStep
<1>6. CASE ctl' = Pop(ctl) \o <<>>
  <2>1. Holds(ctl', Opens(ctl) - Opens1(x), Decls(ctl) - Decls1(x),
              Blocks(ctl) - Blocks1(x), Parens(ctl) - Parens1(x))
    BY <1>2, <1>6, Goes0
  <2> HIDE DEF x
  <2>2. Holds(ctl', Opens(ctl), Decls(ctl), Blocks(ctl), Parens(ctl) - 1)
    BY <1>3, <1>4, <2>1
  <2>3. CASE Expect(")")
    BY <1>1, <2>2, <2>3, ExpectFacts, CloseStep
  <2>4. CASE tok.k = ")" /\ Lex(scopes) /\ err' = err
    <3>1. err' \in BOOLEAN /\ (err => err')
      BY <2>4 DEF CInv, TypesInv
    <3> QED
      BY <1>1, <2>2, <2>4, <3>1, CloseStep
  <2> QED
    BY <1>1, <1>5, <2>3, <2>4
<1> QED
  BY <1>1, <1>5, <1>6

\* Every step of the parser.
LEMMA ParseInv ==
  ASSUME CInv, Parse
  PROVE  CInv'
<1>1. CASE Begin \/ UnitEnd \/ ExternalDecl \/ SpecWord \/ SpecName \/ SpecEnd
  BY <1>1, BeginInv, UnitEndInv, DeclInv, SpecWordInv, SpecEndInv
<1>2. CASE Star \/ DeclName \/ NoName \/ FuncSuffix \/ NoSuffix
  BY <1>2, SpecWordInv, DeclNameInv, FuncSuffixInv, OverInv
<1>3. CASE EmptyParams \/ VoidParam \/ FirstParam \/ VoidParams \/ Param
  BY <1>3, EmptyParamsInv, FirstParamInv, VoidParamsInv, ParamInv
<1>4. CASE Typedef \/ NamelessDecl \/ Define \/ Declare \/ EndFunction
  BY <1>4, TypedefInv, NamelessInv, DefineInv, DeclareInv, EndFunctionInv
<1>5. CASE EnterBlock \/ LocalDecl \/ BlockStatement \/ LeaveBlock \/ Local
  BY <1>5, EnterBlockInv, DeclInv, BlockStatementInv, LeaveBlockInv, LocalInv
<1>6. CASE ExpectPunct \/ KeywordStatement \/ BlockOrExprStatement \/ OptionalWord
  BY <1>6, PunctInv, KeywordInv, StatementInv
<1>7. CASE Number \/ Name \/ Paren \/ NoOperand
  BY <1>7, OperandInv, NameInv, ParenInv
<1>8. CASE Postfix \/ Arguments \/ MoreArguments \/ CallDone
  BY <1>8, OverInv, ParenInv, ArgumentsInv
<1> QED
  BY <1>1, <1>2, <1>3, <1>4, <1>5, <1>6, <1>7, <1>8 DEF Parse

\* The parser that is done stays as it is.
LEMMA IdleInv ==
  ASSUME CInv, UNCHANGED vars
  PROVE  CInv'
  BY DEF vars, parser, CInv, TypesInv, CountsInv, Stack, Opens, Decls, Blocks, Parens

\* The calls, the scopes, the declarations and the brackets of the text agree.
LEMMA Agree == Spec => []CInv
<1>1. CInv /\ [Next]_vars => CInv'
  BY ParseInv, IdleInv DEF Next, Done
<1> QED
  BY InitInv, <1>1, PTL DEF Spec

-----------------------------------------------------------------------------
(* The theorems *)

\* A call is active for each scope but the file's: a step of the code that opens
\* a scope has one that closes it, whatever errors come between.
LEMMA Balanced ==
  ASSUME CInv
  PROVE  ScopesBalanced
<1>1. Opens(ctl) = Cardinality(Opened)
  BY DEF Opens, Count, OpenMarks, Opened
<1>2. CASE ctl # <<"begin">>
  BY <1>1, <1>2 DEF CInv, CountsInv, ScopesBalanced
<1>3. CASE ctl = <<"begin">>
  <2>1. Opened = {}
    <3>1. \A i \in DOMAIN ctl : ctl[i] = "begin"
      BY <1>3
    <3> QED
      BY <3>1 DEF Opened
  <2>2. Cardinality(Opened) = 0
    BY <2>1, FS_EmptySet
  <2> QED
    BY <1>3, <2>2 DEF CInv, CountsInv, ScopesBalanced
<1> QED
  BY <1>2, <1>3

\* A declaration is held for each that is being parsed, and data have their types.
LEMMA Typed ==
  ASSUME CInv
  PROVE  TypeOK
<1>1. Len(decls) = Cardinality(Declaring)
  <2>1. Decls(ctl) = Cardinality(Declaring)
    BY DEF Decls, Count, DeclMarks, Declaring
  <2>2. CASE ctl # <<"begin">>
    BY <2>1, <2>2 DEF CInv, CountsInv
  <2>3. CASE ctl = <<"begin">>
    <3>1. Declaring = {}
      BY <2>3 DEF Declaring
    <3>2. Cardinality(Declaring) = 0
      BY <3>1, FS_EmptySet
    <3>3. decls = <<>>
      BY <2>3 DEF CInv, CountsInv
    <3> QED
      BY <3>2, <3>3
  <2> QED
    BY <2>2, <2>3
<1>2. \A i \in DOMAIN scopes : DOMAIN scopes[i] \subseteq Names
  <2>1. scopes \in Seq(AllScopes)
    BY DEF CInv, TypesInv
  <2>2. ASSUME NEW i \in DOMAIN scopes PROVE DOMAIN scopes[i] \subseteq Names
    <3>1. scopes[i] \in AllScopes
      BY <2>1, <2>2
    <3> QED
      BY <3>1 DEF AllScopes
  <2> QED
    BY <2>2
<1>3. tok.n \in Names \cup {"none"} /\ pos \in Nat /\ label \in BOOLEAN /\ err \in BOOLEAN
  BY DEF CInv, TypesInv, MaybeNames
<1> QED
  BY <1>1, <1>2, <1>3 DEF TypeOK

\* Without an error the unit ends at the end of the text, all brackets closed.
LEMMA Accepted ==
  ASSUME CInv
  PROVE  AcceptedWhole
<1> SUFFICES ASSUME ctl = <<>>, ~err PROVE tok = EofTok /\ nest = [b |-> 0, p |-> 0]
  BY DEF AcceptedWhole
<1>1. ctl # <<"begin">>
  OBVIOUS
<1>2. tok.k = "eof" /\ nest.b = Blocks(ctl) /\ nest.p = Parens(ctl)
  BY <1>1 DEF CInv, CountsInv
<1>3. Blocks(<<>>) = 0 /\ Parens(<<>>) = 0
  BY CountNone DEF Blocks, Parens
<1>4. tok = EofTok /\ nest \in [b : Int, p : Int]
  BY <1>2 DEF CInv, TypesInv
<1> QED
  BY <1>2, <1>3, <1>4

\* For every text: each scope of the symbol table belongs to an active call of
\* cc1_parse_compound or cc1_define_function, so what opens a scope closes it,
\* on every path, those of errors included.
THEOREM ScopesAlwaysBalanced == Spec => []ScopesBalanced
<1>1. CInv => ScopesBalanced
  BY Balanced
<1> QED
  BY Agree, <1>1, PTL

\* For every text: the data have their types, and a declaration is held for each
\* one that is being parsed, nested parameter lists included.
THEOREM TypeCorrect == Spec => []TypeOK
<1>1. CInv => TypeOK
  BY Typed
<1> QED
  BY Agree, <1>1, PTL

\* For every text: where cc1_parse_translation_unit ends without an error it has
\* read the text to its end and closed each brace and parenthesis in it.
THEOREM AlwaysWhole == Spec => []AcceptedWhole
<1>1. CInv => AcceptedWhole
  BY Accepted
<1> QED
  BY Agree, <1>1, PTL

-----------------------------------------------------------------------------
(* Braces of a text *)

Events == [ev : {"{", "}", "def"}, n : MaybeNames, at : Nat, td : BOOLEAN]
History(h) == /\ h \in Seq(Events)
              /\ \A i \in 1..Len(h) : h[i].ev # "def" => h[i].n = "none"

\* how many of a kind there are from i to j, how many more are opened than closed,
\* and what one event does to that
Kind(h, i, j, b) == {m \in i..j : h[m].ev = b}
Many(h, i, j, b) == Cardinality(Kind(h, i, j, b))
Between(h, i, j) == Many(h, i, j, "{") - Many(h, i, j, "}")
Depth(h, i) == Between(h, 1, i)
Is(e, b) == IF e.ev = b THEN 1 ELSE 0
Step(e) == Is(e, "{") - Is(e, "}")

\* A history is a sequence of events.
LEMMA HistoryFacts ==
  ASSUME NEW h, History(h)
  PROVE  /\ IsSeq(h) /\ Len(h) \in Nat /\ DOMAIN h = 1..Len(h)
         /\ \A i \in 1..Len(h) : h[i] \in Events
<1>1. h \in Seq(Events)
  BY DEF History
<1>2. IsSeq(h)
  BY <1>1 DEF IsSeq
<1> QED
  BY <1>1, <1>2, SeqFacts

\* The events of a kind are finitely many.
LEMMA ManyFacts ==
  ASSUME NEW h, NEW i \in Int, NEW j \in Int, NEW b
  PROVE  /\ IsFiniteSet(Kind(h, i, j, b)) /\ Many(h, i, j, b) \in Nat
         /\ j < i => Many(h, i, j, b) = 0
<1>1. IsFiniteSet(i..j)
  BY FS_Interval
<1>2. IsFiniteSet(Kind(h, i, j, b))
  BY <1>1, FS_Subset DEF Kind
<1>3. Many(h, i, j, b) \in Nat
  BY <1>2, FS_CardinalityType DEF Many
<1>4. ASSUME j < i PROVE Many(h, i, j, b) = 0
  <2>1. Kind(h, i, j, b) = {}
    BY <1>4 DEF Kind
  <2> QED
    BY <2>1, FS_EmptySet DEF Many
<1> QED
  BY <1>2, <1>3, <1>4

\* One more event counts if it is of the kind.
LEMMA ManyMore ==
  ASSUME NEW h, NEW i \in Int, NEW j \in Int, i <= j + 1, NEW b
  PROVE  Many(h, i, j + 1, b) = Many(h, i, j, b) + Is(h[j + 1], b)
<1> DEFINE S == Kind(h, i, j, b)
           T == Kind(h, i, j + 1, b)
<1>1. IsFiniteSet(S) /\ Cardinality(S) \in Nat
  BY ManyFacts DEF Many
<1>2. \A m : m \in i..(j + 1) <=> m \in i..j \/ m = j + 1
  OBVIOUS
<1>3. CASE h[j + 1].ev = b
  <2>1. T = S \cup {j + 1} /\ j + 1 \notin S
    BY <1>2, <1>3 DEF Kind
  <2>2. Cardinality(S \cup {j + 1}) = Cardinality(S) + 1
    BY <1>1, <2>1, FS_AddElement
  <2> QED
    BY <1>3, <2>1, <2>2 DEF Many, Is
<1>4. CASE h[j + 1].ev # b
  <2>1. T = S
    BY <1>2, <1>4 DEF Kind
  <2>2. Cardinality(T) = Cardinality(S) + 0
    BY <1>1, <2>1
  <2> QED
    BY <1>4, <2>2 DEF Many, Is
<1> QED
  BY <1>3, <1>4

\* And two pieces are counted one by one.
LEMMA ManySplit ==
  ASSUME NEW h, NEW i \in Nat, NEW j \in Nat, i <= j, NEW b
  PROVE  Many(h, 1, j, b) = Many(h, 1, i, b) + Many(h, i + 1, j, b)
<1> DEFINE S == Kind(h, 1, i, b)
           T == Kind(h, i + 1, j, b)
           U == Kind(h, 1, j, b)
<1>1. IsFiniteSet(S) /\ IsFiniteSet(T) /\ Cardinality(S) \in Nat /\ Cardinality(T) \in Nat
  <2>1. 1 \in Int /\ i \in Int /\ i + 1 \in Int /\ j \in Int
    OBVIOUS
  <2>2. IsFiniteSet(S) /\ IsFiniteSet(T)
    BY <2>1, ManyFacts
  <2> QED
    BY <2>2, FS_CardinalityType
<1>2. \A m : m \in 1..j <=> m \in 1..i \/ m \in (i + 1)..j
  OBVIOUS
<1>3. U = S \cup T
  BY <1>2 DEF Kind
<1>4. S \cap T = {}
  <2>1. \A m : ~(m \in 1..i /\ m \in (i + 1)..j)
    OBVIOUS
  <2> QED
    BY <2>1 DEF Kind
<1>5. Many(h, 1, j, b) = Cardinality(U) /\ Many(h, 1, i, b) = Cardinality(S)
      /\ Many(h, i + 1, j, b) = Cardinality(T)
  BY DEF Many
<1> HIDE DEF S, T, U
<1>6. Cardinality(S \cup T) = Cardinality(S) + Cardinality(T) - Cardinality(S \cap T)
  BY <1>1, FS_Union
<1>7. Cardinality(S \cap T) = 0
  BY <1>4, FS_EmptySet
<1>8. Cardinality(U) = Cardinality(S) + Cardinality(T)
  <2> DEFINE x == Cardinality(S)
             y == Cardinality(T)
             z == Cardinality(S \cap T)
  <2>1. x \in Nat /\ y \in Nat /\ z = 0 /\ Cardinality(S \cup T) = x + y - z
    BY <1>1, <1>6, <1>7
  <2> HIDE DEF x, y, z
  <2>2. Cardinality(S \cup T) = x + y
    BY <2>1
  <2> QED
    BY <1>3, <2>2 DEF x, y
<1> QED
  BY <1>5, <1>8

\* A brace is a step, up or down.
LEMMA StepFacts ==
  ASSUME NEW e
  PROVE  /\ e.ev = "{" => Step(e) = 1
         /\ e.ev = "}" => Step(e) = -1
         /\ e.ev \notin {"{", "}"} => Step(e) = 0
         /\ Step(e) \in Int
<1>1. "{" # "}" /\ 1 - 0 = 1 /\ 0 - 1 = -1 /\ 0 - 0 = 0
  OBVIOUS
<1>2. /\ e.ev = "{" => Is(e, "{") = 1 /\ Is(e, "}") = 0
      /\ e.ev = "}" => Is(e, "{") = 0 /\ Is(e, "}") = 1
      /\ e.ev \notin {"{", "}"} => Is(e, "{") = 0 /\ Is(e, "}") = 0
  BY <1>1, Zenon DEF Is
<1>3. Is(e, "{") \in {0, 1} /\ Is(e, "}") \in {0, 1}
  BY DEF Is
<1>4. Step(e) \in Int
  <2>1. \A x, y \in {0, 1} : x - y \in Int
    OBVIOUS
  <2> QED
    BY <1>3, <2>1, Zenon DEF Step
<1> QED
  BY <1>1, <1>2, <1>4, Zenon DEF Step

\* What is between two places is the difference of their depths.
LEMMA BetweenFacts ==
  ASSUME NEW h, NEW i \in Nat, NEW j \in Nat
  PROVE  /\ Depth(h, i) \in Int /\ Depth(h, 0) = 0
         /\ Depth(h, i + 1) = Depth(h, i) + Step(h[i + 1])
         /\ i <= j => Between(h, i + 1, j) = Depth(h, j) - Depth(h, i)
<1> DEFINE a == Many(h, 1, i, "{")
           b == Many(h, 1, i, "}")
           c == Many(h, 1, j, "{")
           d == Many(h, 1, j, "}")
           e == Many(h, i + 1, j, "{")
           f == Many(h, i + 1, j, "}")
           p == Many(h, 1, i + 1, "{")
           q == Many(h, 1, i + 1, "}")
           x == Is(h[i + 1], "{")
           y == Is(h[i + 1], "}")
<1>1. /\ a \in Nat /\ b \in Nat /\ c \in Nat /\ d \in Nat /\ e \in Nat /\ f \in Nat
      /\ Many(h, 1, 0, "{") = 0 /\ Many(h, 1, 0, "}") = 0
  <2>1. 0 \in Int /\ 1 \in Int /\ i \in Int /\ i + 1 \in Int /\ j \in Int /\ 0 < 1
    OBVIOUS
  <2> QED
    BY <2>1, ManyFacts
<1>2. p = a + x /\ q = b + y
  <2>1. 1 \in Int /\ i \in Int /\ 1 <= i + 1
    OBVIOUS
  <2>2. ASSUME NEW v
        PROVE  Many(h, 1, i + 1, v) = Many(h, 1, i, v) + Is(h[i + 1], v)
    BY <2>1, ManyMore
  <2> QED
    BY <2>2, Zenon
<1>3. Step(h[i + 1]) = x - y /\ x \in Nat /\ y \in Nat
  BY DEF Step, Is
<1>4. i <= j => c = a + e /\ d = b + f
  BY ManySplit
<1>5. /\ Depth(h, i) = a - b /\ Depth(h, j) = c - d /\ Depth(h, i + 1) = p - q
      /\ Between(h, i + 1, j) = e - f
      /\ Depth(h, 0) = Many(h, 1, 0, "{") - Many(h, 1, 0, "}")
  BY DEF Depth, Between
<1> HIDE DEF a, b, c, d, e, f, p, q, x, y
<1>6. /\ a \in Nat /\ b \in Nat /\ c \in Nat /\ d \in Nat /\ e \in Nat /\ f \in Nat
  BY <1>1, Zenon
<1>7. a - b \in Int /\ p - q = (a - b) + (x - y)
  BY <1>2, <1>3, <1>6
<1>8. i <= j => e - f = (c - d) - (a - b)
  BY <1>4, <1>6
<1>9. Depth(h, 0) = 0
  <2>1. 0 - 0 = 0
    OBVIOUS
  <2> QED
    BY <1>1, <1>5, <2>1, Zenon
<1> QED
  BY <1>3, <1>5, <1>7, <1>8, <1>9, Zenon

\* A depth depends on the events before it only, and of those on the braces.
LEMMA DepthSame ==
  ASSUME NEW g, NEW h, NEW i \in Nat, \A m \in 1..i : g[m] = h[m]
  PROVE  Depth(g, i) = Depth(h, i)
<1>1. ASSUME NEW b PROVE Kind(g, 1, i, b) = Kind(h, 1, i, b)
  BY DEF Kind
<1>2. Many(g, 1, i, "{") = Many(h, 1, i, "{")
  BY <1>1 DEF Many
<1>3. Many(g, 1, i, "}") = Many(h, 1, i, "}")
  BY <1>1 DEF Many
<1> QED
  BY <1>2, <1>3 DEF Depth, Between

\* Declarations do not change it.
LEMMA DepthFlat ==
  ASSUME NEW h, NEW i \in Nat, NEW j \in Nat, i <= j, \A m \in (i + 1)..j : h[m].ev = "def"
  PROVE  Depth(h, j) = Depth(h, i)
<1>1. \A m : m \in 1..j <=> m \in 1..i \/ m \in (i + 1)..j
  OBVIOUS
<1>2. /\ Kind(h, 1, i, "{") = Kind(h, 1, j, "{")
      /\ Kind(h, 1, i, "}") = Kind(h, 1, j, "}")
  BY <1>1 DEF Kind
<1> QED
  BY <1>2 DEF Depth, Between, Many

-----------------------------------------------------------------------------
(* The scopes hold what the text has declared in the open blocks *)

\* no brace closes the block that the event i is in
OpenIn(h, i) == \A j \in i..Len(h) : Depth(h, j) >= Depth(h, i)
\* the declarations of a name in the open block number l, the file being the first
At(h, n, l) == {i \in 1..Len(h) : h[i].n = n /\ OpenIn(h, i) /\ Depth(h, i) = l - 1}
Last(S, i) == i \in S /\ \A j \in S : j <= i
Matches(x, e) == x.at = e.at /\ (x.k = "typedef" <=> e.td) /\ x.k # "none"
ScopeFits(f, h, l) ==
  \A n \in Names : /\ n \in DOMAIN f <=> At(h, n, l) # {}
                   /\ \A i : Last(At(h, n, l), i) => Matches(f[n], h[i])
Fits(s, h) ==
  /\ s \in Seq(AllScopes) /\ History(h)
  /\ Len(s) = Depth(h, Len(h)) + 1
  /\ \A i \in 0..Len(h) : Depth(h, i) >= 0
  /\ \A l \in 1..Len(s) : ScopeFits(s[l], h, l)

\* A history with one more event, and how deep it is then.
Grows(h, e, g, d) ==
  /\ History(h) /\ e \in Events /\ (e.ev # "def" => e.n = "none")
  /\ g = Append(h, e) /\ d = Depth(h, Len(h)) + Step(e)

\* What one more event does to the depths and to what is open.
LEMMA OneEvent ==
  ASSUME NEW h, NEW e, NEW g, NEW d, Grows(h, e, g, d)
  PROVE  /\ History(g) /\ Len(g) = Len(h) + 1 /\ Len(h) \in Nat /\ g[Len(h) + 1] = e
         /\ \A i \in 1..Len(h) : g[i] = h[i]
         /\ \A i \in 0..Len(h) : Depth(g, i) = Depth(h, i) /\ Depth(h, i) \in Int
         /\ Depth(g, Len(h) + 1) = d /\ d \in Int
         /\ \A i \in 1..Len(h) : OpenIn(g, i) <=> OpenIn(h, i) /\ d >= Depth(h, i)
         /\ OpenIn(g, Len(h) + 1)
<1> DEFINE N == Len(h)
<1>0. /\ History(h) /\ e \in Events /\ (e.ev # "def" => e.n = "none")
      /\ g = Append(h, e) /\ d = Depth(h, Len(h)) + Step(e)
  BY DEF Grows
<1>1. /\ IsSeq(h) /\ N \in Nat /\ h \in Seq(Events)
      /\ \A i \in 1..N : h[i] \in Events
      /\ \A i \in 1..N : h[i].ev # "def" => h[i].n = "none"
  BY <1>0, HistoryFacts DEF History
<1>2. /\ Len(g) = N + 1 /\ g[N + 1] = e /\ \A i \in 1..N : g[i] = h[i]
  BY <1>0, <1>1, AppendFacts
<1>3. History(g)
  <2>1. g \in Seq(Events)
    BY <1>0, <1>1
  <2>2. ASSUME NEW i \in 1..Len(g), g[i].ev # "def" PROVE g[i].n = "none"
    <3>1. i = N + 1 \/ i \in 1..N
      BY <1>1, <1>2, <2>2
    <3> QED
      BY <1>0, <1>1, <1>2, <2>2, <3>1
  <2> QED
    BY <2>1, <2>2 DEF History
<1>4. ASSUME NEW i \in 0..N PROVE Depth(g, i) = Depth(h, i) /\ Depth(h, i) \in Int
  <2>1. i \in Nat /\ \A m \in 1..i : m \in 1..N
    BY <1>1
  <2>2. \A m \in 1..i : g[m] = h[m]
    BY <1>2, <2>1
  <2> QED
    BY <2>1, <2>2, DepthSame, BetweenFacts
<1>5. Depth(g, N + 1) = d /\ d \in Int
  <2>1. Depth(g, N + 1) = Depth(g, N) + Step(g[N + 1])
    BY <1>1, BetweenFacts
  <2>2. N \in 0..N
    BY <1>1
  <2>3. Depth(g, N + 1) = d
    BY <1>0, <1>2, <1>4, <2>1, <2>2
  <2>4. Depth(g, N + 1) \in Int
    BY <1>1, BetweenFacts
  <2> QED
    BY <2>3, <2>4
<1> HIDE DEF N
<1>6. ASSUME NEW i \in 1..N PROVE OpenIn(g, i) <=> OpenIn(h, i) /\ d >= Depth(h, i)
  <2>1. \A j : j \in i..(N + 1) <=> j \in i..N \/ j = N + 1
    BY <1>1
  <2>2. \A j \in i..N : j \in 0..N /\ j # N + 1
    BY <1>1
  <2>3. i \in 0..N
    BY <1>1
  <2>4. OpenIn(g, i) <=> \A j \in i..(N + 1) : Depth(g, j) >= Depth(h, i)
    BY <1>2, <1>4, <2>3 DEF OpenIn
  <2>5. (\A j \in i..(N + 1) : Depth(g, j) >= Depth(h, i))
          <=> (\A j \in i..N : Depth(g, j) >= Depth(h, i)) /\ Depth(g, N + 1) >= Depth(h, i)
    BY <2>1
  <2>6. (\A j \in i..N : Depth(g, j) >= Depth(h, i)) <=> OpenIn(h, i)
    BY <1>4, <2>2 DEF OpenIn, N
  <2> QED
    BY <1>5, <2>4, <2>5, <2>6
<1>7. OpenIn(g, N + 1)
  <2>1. \A j \in (N + 1)..(N + 1) : j = N + 1
    BY <1>1
  <2>2. Depth(g, N + 1) >= Depth(g, N + 1)
    BY <1>5
  <2> QED
    BY <1>2, <2>1, <2>2 DEF OpenIn
<1> QED
  BY <1>1, <1>2, <1>3, <1>4, <1>5, <1>6, <1>7 DEF N

\* Two sets with the same elements are the same.
LEMMA SameSet ==
  ASSUME NEW S, NEW T, \A i : i \in S <=> i \in T
  PROVE  S = T
  OBVIOUS

\* And to the declarations of a name.
AtAfter(h, e, g, d, n, l) ==
  \A i : i \in At(g, n, l) <=> \/ i \in At(h, n, l) /\ d >= l - 1
                               \/ i = Len(h) + 1 /\ e.n = n /\ d = l - 1

\* The declarations of a name in a text with one more event.
LEMMA AtOne ==
  ASSUME NEW h, NEW e, NEW g, NEW d, Grows(h, e, g, d), NEW n, NEW l \in Int
  PROVE  AtAfter(h, e, g, d, n, l)
<1> DEFINE N == Len(h)
<1>1. /\ Len(g) = N + 1 /\ N \in Nat /\ g[N + 1] = e
      /\ \A i \in 1..N : g[i] = h[i]
      /\ \A i \in 0..N : Depth(g, i) = Depth(h, i) /\ Depth(h, i) \in Int
      /\ Depth(g, N + 1) = d /\ d \in Int
      /\ \A i \in 1..N : OpenIn(g, i) <=> OpenIn(h, i) /\ d >= Depth(h, i)
      /\ OpenIn(g, N + 1)
  BY OneEvent
<1> HIDE DEF N
<1>2. \A i : i \in 1..(N + 1) <=> i \in 1..N \/ i = N + 1
  BY <1>1
<1>3. \A i \in 1..N : i \in 0..N /\ i # N + 1
  BY <1>1
<1>4. ASSUME NEW i \in 1..N PROVE i \in At(g, n, l) <=> i \in At(h, n, l) /\ d >= l - 1
  BY <1>1, <1>2, <1>3 DEF At, N
<1>5. N + 1 \in At(g, n, l) <=> e.n = n /\ d = l - 1
  BY <1>1, <1>2 DEF At
<1>6. ASSUME NEW i, i \notin 1..(N + 1) PROVE i \notin At(g, n, l) /\ i \notin At(h, n, l)
  BY <1>1, <1>2, <1>6 DEF At, N
<1>7. N + 1 \notin At(h, n, l)
  BY <1>1 DEF At, N
<1>8. ASSUME NEW i
      PROVE  i \in At(g, n, l) <=> \/ i \in At(h, n, l) /\ d >= l - 1
                                   \/ i = Len(h) + 1 /\ e.n = n /\ d = l - 1
  BY <1>2, <1>4, <1>5, <1>6, <1>7 DEF N
<1> QED
  BY <1>8 DEF AtAfter

\* What is open is not deeper than the place the text has come to.
LEMMA AtFacts ==
  ASSUME NEW h, History(h), NEW n, NEW l \in Int, NEW i \in At(h, n, l)
  PROVE  /\ i \in 1..Len(h) /\ h[i].n = n /\ OpenIn(h, i) /\ Depth(h, i) = l - 1
         /\ l <= Depth(h, Len(h)) + 1
<1>1. i \in 1..Len(h) /\ h[i].n = n /\ OpenIn(h, i) /\ Depth(h, i) = l - 1
  BY DEF At
<1>2. Len(h) \in Nat /\ Len(h) \in i..Len(h)
  BY <1>1, HistoryFacts
<1>3. Depth(h, Len(h)) >= Depth(h, i) /\ Depth(h, Len(h)) \in Int
  BY <1>1, <1>2, BetweenFacts DEF OpenIn
<1> QED
  BY <1>1, <1>3

\* A scope whose names are declared as before, and nothing is declared anew in it.
LEMMA ScopeStays ==
  ASSUME NEW h, NEW g, NEW f, NEW l,
         \A n \in Names : At(g, n, l) = At(h, n, l),
         \A n \in Names : \A i \in At(h, n, l) : g[i] = h[i],
         ScopeFits(f, h, l)
  PROVE  ScopeFits(f, g, l)
  BY DEF ScopeFits, Last

\* What a history has and a stack of scopes that fits it.
LEMMA FitsFacts ==
  ASSUME NEW s, NEW h, Fits(s, h)
  PROVE  /\ s \in Seq(AllScopes) /\ History(h) /\ Len(h) \in Nat
         /\ Depth(h, Len(h)) \in Nat /\ Len(s) = Depth(h, Len(h)) + 1
         /\ \A i \in 0..Len(h) : Depth(h, i) \in Nat
         /\ \A l \in 1..Len(s) : ScopeFits(s[l], h, l)
<1>1. History(h) /\ Len(h) \in Nat /\ Len(h) \in 0..Len(h)
  BY HistoryFacts DEF Fits
<1>2. ASSUME NEW i \in 0..Len(h) PROVE Depth(h, i) \in Nat
  <2>1. Depth(h, i) \in Int
    BY <1>1, BetweenFacts
  <2> QED
    BY <2>1 DEF Fits
<1> QED
  BY <1>1, <1>2 DEF Fits

\* What is to be shown of the depths when an event is added.
LEMMA FitsMore ==
  ASSUME NEW s, NEW h, Fits(s, h), NEW e, NEW g, NEW d, Grows(h, e, g, d), d >= 0,
         NEW t \in Seq(AllScopes), Len(t) = d + 1, \A l \in 1..Len(t) : ScopeFits(t[l], g, l)
  PROVE  Fits(t, g)
<1>1. /\ History(g) /\ Len(g) = Len(h) + 1
      /\ \A i \in 0..Len(h) : Depth(g, i) = Depth(h, i)
      /\ Depth(g, Len(h) + 1) = d
  BY OneEvent
<1>2. Len(h) \in Nat /\ \A i \in 0..Len(h) : Depth(h, i) \in Nat
  BY FitsFacts
<1>3. ASSUME NEW i \in 0..Len(g) PROVE Depth(g, i) >= 0
  <2>1. i = Len(h) + 1 \/ i \in 0..Len(h)
    BY <1>1, <1>2
  <2> QED
    BY <1>1, <1>2, <2>1
<1> QED
  BY <1>1, <1>3 DEF Fits

Opening(e) == e \in Events /\ e.ev = "{" /\ e.n = "none"
Closing(e) == e \in Events /\ e.ev = "}" /\ e.n = "none"
Defining(e, n) == e \in Events /\ e.ev = "def" /\ e.n = n

\* A block opens.
LEMMA FitsOpen ==
  ASSUME NEW s, NEW h, Fits(s, h), NEW e, Opening(e)
  PROVE  Fits(Append(s, <<>>), Append(h, e))
<1> DEFINE p == Depth(h, Len(h))
           q == p + 1
           g == Append(h, e)
           t == Append(s, <<>>)
<1>1. /\ s \in Seq(AllScopes) /\ History(h) /\ p \in Nat /\ Len(s) = p + 1
      /\ \A l \in 1..Len(s) : ScopeFits(s[l], h, l)
  BY FitsFacts
<1>2. Step(e) = 1
  BY StepFacts DEF Opening
<1>3. Grows(h, e, g, q) /\ e.n = "none"
  BY <1>1, <1>2 DEF Grows, Opening
<1>4. \A i \in 1..Len(h) : g[i] = h[i]
  <2> HIDE DEF g, p, q
  <2> QED
    BY <1>3, OneEvent
<1>5. /\ t \in Seq(AllScopes) /\ Len(t) = Len(s) + 1 /\ t[Len(s) + 1] = <<>>
      /\ \A l \in 1..Len(s) : t[l] = s[l]
  <2>1. IsSeq(s)
    BY <1>1 DEF IsSeq
  <2>2. t \in Seq(AllScopes)
    BY <1>1, NoneTypes
  <2> QED
    BY <2>1, <2>2, AppendFacts
<1>10. q = p + 1 /\ q \in Nat
  BY <1>1
<1> HIDE DEF p, q, g, t
<1>6. ASSUME NEW n \in Names, NEW l \in Int, l <= p + 1 PROVE At(g, n, l) = At(h, n, l)
  <2>1. e.n # n
    BY <1>3, NamesAssumption
  <2>2. q >= l - 1
    BY <1>6, <1>10
  <2>3. AtAfter(h, e, g, q, n, l)
    BY <1>3, AtOne
  <2> QED
    BY <2>1, <2>2, <2>3, SameSet DEF AtAfter
<1>7. ASSUME NEW n \in Names, NEW l, l = p + 2 PROVE At(g, n, l) = {}
  <2>1. e.n # n /\ l \in Int
    BY <1>1, <1>3, <1>7, NamesAssumption
  <2>2. \A i : i \notin At(h, n, l)
    <3>1. ASSUME NEW i \in At(h, n, l) PROVE l <= p + 1
      BY <1>1, <2>1, AtFacts DEF p
    <3> QED
      BY <1>1, <1>7, <3>1
  <2>3. AtAfter(h, e, g, q, n, l)
    BY <1>3, <2>1, AtOne
  <2> QED
    BY <2>1, <2>2, <2>3 DEF AtAfter
<1>8. ASSUME NEW l \in 1..Len(t) PROVE ScopeFits(t[l], g, l)
  <2>1. CASE l = Len(s) + 1
    <3>1. l = p + 2 /\ t[l] = <<>>
      BY <1>1, <1>5, <2>1
    <3>2. \A n \in Names : At(g, n, l) = {}
      BY <1>7, <3>1
    <3> QED
      BY <3>1, <3>2 DEF ScopeFits, Last
  <2>2. CASE l # Len(s) + 1
    <3>1. l \in 1..Len(s) /\ l \in Int /\ l <= p + 1
      BY <1>1, <1>5, <2>2
    <3>2. \A n \in Names : At(g, n, l) = At(h, n, l)
      BY <1>6, <3>1
    <3>3. \A n \in Names : \A i \in At(h, n, l) : g[i] = h[i]
      BY <1>4 DEF At
    <3>4. ScopeFits(s[l], h, l) /\ t[l] = s[l]
      BY <1>1, <1>5, <3>1
    <3> QED
      BY <3>2, <3>3, <3>4, ScopeStays
  <2> QED
    BY <2>1, <2>2
<1>9. Len(t) = q + 1 /\ q >= 0
  BY <1>1, <1>5, <1>10
<1> QED
  BY <1>3, <1>5, <1>8, <1>9, FitsMore DEF t, g

\* A block closes: its declarations go with its scope.
LEMMA FitsClose ==
  ASSUME NEW s, NEW h, Fits(s, h), Len(s) >= 2, NEW e, Closing(e)
  PROVE  Fits(Pop(s), Append(h, e))
<1> DEFINE p == Depth(h, Len(h))
           q == p - 1
           g == Append(h, e)
           t == Pop(s)
<1>1. /\ s \in Seq(AllScopes) /\ History(h) /\ p \in Nat /\ Len(s) = p + 1
      /\ \A l \in 1..Len(s) : ScopeFits(s[l], h, l)
  BY FitsFacts
<1>2. Step(e) = -1
  BY StepFacts DEF Closing
<1>10. q = p + Step(e) /\ q = p - 1 /\ q \in Nat
  BY <1>1, <1>2
<1>3. Grows(h, e, g, q) /\ e.n = "none"
  BY <1>1, <1>10 DEF Grows, Closing
<1>4. \A i \in 1..Len(h) : g[i] = h[i]
  <2> HIDE DEF g, p, q
  <2> QED
    BY <1>3, OneEvent
<1>5. t \in Seq(AllScopes) /\ Len(t) = p /\ \A l \in 1..p : t[l] = s[l]
  <2>1. IsSeq(s)
    BY <1>1 DEF IsSeq
  <2>2. Len(s) - 1 = p /\ p \in 0..Len(s)
    BY <1>1
  <2>3. t = SubSeq(s, 1, p)
    BY <2>2 DEF Pop
  <2> HIDE DEF p, t
  <2>4. t \in Seq(AllScopes)
    BY <1>1, <2>2, <2>3
  <2> QED
    BY <2>1, <2>2, <2>3, <2>4, SubSeqFacts
<1> HIDE DEF p, q, g, t
<1>6. ASSUME NEW n \in Names, NEW l \in Int, l <= p PROVE At(g, n, l) = At(h, n, l)
  <2>1. e.n # n
    BY <1>3, NamesAssumption
  <2>2. q >= l - 1
    BY <1>1, <1>6, <1>10
  <2>3. AtAfter(h, e, g, q, n, l)
    BY <1>3, AtOne
  <2> QED
    BY <2>1, <2>2, <2>3, SameSet DEF AtAfter
<1>8. ASSUME NEW l \in 1..Len(t) PROVE ScopeFits(t[l], g, l)
  <2>1. l \in 1..Len(s) /\ l \in Int /\ l <= p /\ l \in 1..p
    BY <1>1, <1>5
  <2>2. \A n \in Names : At(g, n, l) = At(h, n, l)
    BY <1>6, <2>1
  <2>3. \A n \in Names : \A i \in At(h, n, l) : g[i] = h[i]
    BY <1>4 DEF At
  <2>4. ScopeFits(s[l], h, l) /\ t[l] = s[l]
    BY <1>1, <1>5, <2>1
  <2> QED
    BY <2>2, <2>3, <2>4, ScopeStays
<1>9. Len(t) = q + 1 /\ q >= 0
  BY <1>1, <1>5, <1>10
<1> QED
  BY <1>3, <1>5, <1>8, <1>9, FitsMore DEF t, g

\* The names a scope has after one is declared in it.
LEMMA BindFacts ==
  ASSUME NEW s \in Seq(AllScopes), s # <<>>, NEW n \in Names, NEW x \in Syms
  PROVE  /\ Bind(s, n, x) \in Seq(AllScopes) /\ Len(Bind(s, n, x)) = Len(s)
         /\ Len(s) \in Nat \ {0}
         /\ \A i \in 1..(Len(s) - 1) : Bind(s, n, x)[i] = s[i]
         /\ \A m : /\ m \in DOMAIN Bind(s, n, x)[Len(s)] <=> m \in DOMAIN s[Len(s)] \/ m = n
                   /\ m \in DOMAIN s[Len(s)] /\ m # n => Bind(s, n, x)[Len(s)][m] = s[Len(s)][m]
         /\ Bind(s, n, x)[Len(s)][n] = x
<1> DEFINE f == s[Len(s)]
           g == [m \in DOMAIN f \cup {n} |-> IF m = n THEN x ELSE f[m]]
           t == Bind(s, n, x)
<1>1. Len(s) \in Nat \ {0} /\ Len(s) \in 1..Len(s) /\ DOMAIN s = 1..Len(s)
  OBVIOUS
<1>2. n # "none" /\ n \in MaybeNames
  BY NamesAssumption DEF MaybeNames
<1>3. t \in Seq(AllScopes) /\ Len(t) = Len(s)
  BY <1>2, BindType
<1>4. t = [s EXCEPT ![Len(s)] = g]
  BY <1>2 DEF Bind
<1>5. t[Len(s)] = g
  BY <1>1, <1>4
<1>6. \A i \in 1..(Len(s) - 1) : t[i] = s[i]
  <2> HIDE DEF g, f, t
  <2>1. \A k \in Nat : \A i \in 1..(k - 1) : i \in 1..k /\ i # k
    OBVIOUS
  <2>2. \A i \in 1..(Len(s) - 1) : i \in DOMAIN s /\ i # Len(s)
    BY <1>1, <2>1
  <2> QED
    BY <1>4, <2>2
<1>7. /\ \A m : /\ m \in DOMAIN g <=> m \in DOMAIN f \/ m = n
                /\ m \in DOMAIN f /\ m # n => g[m] = f[m]
      /\ g[n] = x
  OBVIOUS
<1> HIDE DEF g
<1> QED
  BY <1>1, <1>3, <1>5, <1>6, <1>7

\* A name is declared in the innermost block, for the first time or again.
LEMMA FitsDef ==
  ASSUME NEW s, NEW h, Fits(s, h), NEW n \in Names, NEW e, Defining(e, n),
         NEW x \in Syms, Matches(x, e)
  PROVE  Fits(Bind(s, n, x), Append(h, e))
<1> DEFINE p == Depth(h, Len(h))
           N == Len(h)
           g == Append(h, e)
           t == Bind(s, n, x)
<1>1. /\ s \in Seq(AllScopes) /\ History(h) /\ p \in Nat /\ Len(s) = p + 1 /\ N \in Nat
      /\ \A l \in 1..Len(s) : ScopeFits(s[l], h, l)
  BY FitsFacts
<1>2. Step(e) = 0 /\ e.n = n
  BY StepFacts, Zenon DEF Defining
<1>3. Grows(h, e, g, p)
  <2>1. p + Step(e) = p
    BY <1>1, <1>2
  <2> QED
    BY <1>1, <2>1 DEF Grows, Defining
<1>4. (\A i \in 1..N : g[i] = h[i]) /\ g[N + 1] = e
  <2> HIDE DEF g, p
  <2> QED
    BY <1>3, OneEvent
<1>5. /\ t \in Seq(AllScopes) /\ Len(t) = Len(s)
      /\ \A i \in 1..(Len(s) - 1) : t[i] = s[i]
      /\ \A m : /\ m \in DOMAIN t[Len(s)] <=> m \in DOMAIN s[Len(s)] \/ m = n
                /\ m \in DOMAIN s[Len(s)] /\ m # n => t[Len(s)][m] = s[Len(s)][m]
      /\ t[Len(s)][n] = x
  <2>1. s # <<>>
    <3> HIDE DEF p
    <3> QED
      BY <1>1
  <2> QED
    BY <1>1, <2>1, BindFacts
<1> HIDE DEF p, g, t, N
<1>6. ASSUME NEW m \in Names, NEW l \in Int, l <= p + 1, m # n \/ l # p + 1
      PROVE  At(g, m, l) = At(h, m, l)
  <2>1. e.n # m \/ p # l - 1
    BY <1>1, <1>2, <1>6
  <2>2. p >= l - 1
    BY <1>1, <1>6
  <2>3. AtAfter(h, e, g, p, m, l)
    BY <1>3, AtOne
  <2> QED
    BY <2>1, <2>2, <2>3, SameSet DEF AtAfter
<1>7. \A i : i \in At(g, n, p + 1) <=> i \in At(h, n, p + 1) \/ i = N + 1
  <2> DEFINE l == p + 1
  <2>1. p >= l - 1 /\ p = l - 1 /\ l \in Int
    BY <1>1
  <2> HIDE DEF l
  <2>2. AtAfter(h, e, g, p, n, l)
    BY <1>3, <2>1, AtOne
  <2> QED
    BY <1>2, <2>1, <2>2 DEF AtAfter, l, N
<1>8. ASSUME NEW l \in 1..Len(t) PROVE ScopeFits(t[l], g, l)
  <2>1. l \in 1..Len(s) /\ l \in Int /\ l <= p + 1 /\ ScopeFits(s[l], h, l)
    BY <1>1, <1>5
  <2>2. \A m \in Names : \A i \in At(h, m, l) : g[i] = h[i] /\ i \in 1..N
    BY <1>1, <1>4 DEF At, N
  <2>3. CASE l # p + 1
    <3>1. l \in 1..(Len(s) - 1) /\ t[l] = s[l]
      BY <1>1, <1>5, <2>1, <2>3
    <3>2. \A m \in Names : At(g, m, l) = At(h, m, l)
      BY <1>6, <2>1, <2>3
    <3> QED
      BY <2>1, <2>2, <3>1, <3>2, ScopeStays
  <2>4. CASE l = p + 1
    <3>1. l = Len(s)
      BY <1>1, <2>4
    <3>2. ASSUME NEW m \in Names, m # n
          PROVE  /\ m \in DOMAIN t[l] <=> At(g, m, l) # {}
                 /\ \A i : Last(At(g, m, l), i) => Matches(t[l][m], g[i])
      <4>1. At(g, m, l) = At(h, m, l)
        BY <1>6, <2>1, <3>2
      <4>2. m \in DOMAIN s[l] <=> At(h, m, l) # {}
        BY <2>1 DEF ScopeFits
      <4>3. m \in DOMAIN t[l] <=> m \in DOMAIN s[l]
        BY <1>5, <3>1, <3>2
      <4>4. ASSUME NEW i, Last(At(g, m, l), i) PROVE Matches(t[l][m], g[i])
        <5>1. i \in At(h, m, l) /\ g[i] = h[i] /\ m \in DOMAIN s[l]
          BY <2>2, <4>1, <4>2, <4>4 DEF Last
        <5>2. Matches(s[l][m], h[i])
          BY <2>1, <4>1, <4>4 DEF ScopeFits
        <5>3. t[l][m] = s[l][m]
          BY <1>5, <3>1, <3>2, <5>1
        <5> QED
          BY <5>1, <5>2, <5>3
      <4> QED
        BY <4>1, <4>2, <4>3, <4>4
    <3>3. n \in DOMAIN t[l] /\ At(g, n, l) # {}
      BY <1>5, <1>7, <2>4, <3>1
    <3>4. ASSUME NEW i, Last(At(g, n, l), i) PROVE Matches(t[l][n], g[i])
      <4>1. N + 1 \in At(g, n, l) /\ N + 1 <= i /\ i \in At(g, n, l)
        BY <1>7, <2>4, <3>4 DEF Last
      <4>2. i = N + 1
        <5>1. ASSUME i \in At(h, n, l) PROVE FALSE
          <6>1. i \in 1..N
            BY <2>2, <5>1
          <6> QED
            BY <1>1, <4>1, <6>1
        <5> QED
          BY <1>7, <2>4, <4>1, <5>1
      <4> QED
        BY <1>4, <1>5, <3>1, <4>2
    <3> QED
      BY <3>2, <3>3, <3>4 DEF ScopeFits
  <2> QED
    BY <2>3, <2>4
<1>9. Len(t) = p + 1 /\ p >= 0
  BY <1>1, <1>5
<1> QED
  BY <1>3, <1>5, <1>8, <1>9, FitsMore DEF t, g

\* What the parameters of a function definition are to the text.
ParamDefs(ps) == [i \in DOMAIN ps |-> Def(ps[i].n, ps[i].at, FALSE)]

\* They are events, one each.
LEMMA ParamDefsFacts ==
  ASSUME NEW ps \in Params
  PROVE  /\ ParamDefs(ps) \in Seq(Events) /\ Len(ParamDefs(ps)) = Len(ps) /\ Len(ps) \in Nat
         /\ DOMAIN ps = 1..Len(ps)
         /\ \A i \in 1..Len(ps) :
              /\ ps[i].n \in MaybeNames /\ ps[i].at \in Nat
              /\ ParamDefs(ps)[i].ev = "def" /\ ParamDefs(ps)[i].n = ps[i].n
              /\ ParamDefs(ps)[i].at = ps[i].at /\ ParamDefs(ps)[i].td = FALSE
<1> DEFINE t == ParamDefs(ps)
<1>1. ps \in Seq([n : MaybeNames, at : Nat])
  BY DEF Params
<1>2. IsSeq(ps)
  BY <1>1 DEF IsSeq
<1>3. Len(ps) \in Nat /\ DOMAIN ps = 1..Len(ps)
  BY <1>2, SeqFacts
<1>4. \A i \in 1..Len(ps) : ps[i].n \in MaybeNames /\ ps[i].at \in Nat
  <2>1. ASSUME NEW R, ps \in Seq(R) PROVE \A i \in 1..Len(ps) : ps[i] \in R
    BY <2>1
  <2>2. \A i \in 1..Len(ps) : ps[i] \in [n : MaybeNames, at : Nat]
    BY <1>1, <2>1
  <2> QED
    BY <2>2
<1>5. \A i \in 1..Len(ps) :
         /\ t[i].ev = "def" /\ t[i].n = ps[i].n /\ t[i].at = ps[i].at /\ t[i].td = FALSE
         /\ t[i] = Def(ps[i].n, ps[i].at, FALSE)
  BY <1>3 DEF ParamDefs, Def
<1>6. \A i \in 1..Len(ps) : t[i] \in Events
  <2>1. ASSUME NEW n \in MaybeNames, NEW a \in Nat PROVE Def(n, a, FALSE) \in Events
    BY Zenon DEF Def, Events
  <2> QED
    BY <1>4, <1>5, <2>1
<1>7. t \in [1..Len(ps) -> Events]
  <2>1. t = [i \in 1..Len(ps) |-> t[i]]
    BY <1>3 DEF ParamDefs
  <2> HIDE DEF t
  <2> QED
    BY <1>6, <2>1
<1>8. t \in Seq(Events) /\ Len(t) = Len(ps)
  <2> HIDE DEF t
  <2>1. t \in Seq(Events)
    BY <1>3, <1>7
  <2>2. t = [i \in DOMAIN ps |-> t[i]]
    BY <1>3, <1>7
  <2> QED
    BY <1>2, <2>1, <2>2, MapFacts
<1> QED
  BY <1>3, <1>4, <1>5, <1>8

DefsAfter(h, ps, g, N, P) ==
  /\ History(g) /\ Len(g) = N + P /\ N \in Nat /\ P \in Nat
  /\ \A i \in 1..N : g[i] = h[i]
  /\ \A i \in 1..P : g[N + i] = ParamDefs(ps)[i]
  /\ \A i \in 0..N : Depth(g, i) = Depth(h, i)
  /\ \A i \in N..(N + P) : Depth(g, i) = Depth(h, N)
  /\ Depth(h, N) \in Int
  /\ \A i \in 1..N : OpenIn(g, i) <=> OpenIn(h, i)
  /\ \A i \in 1..P : OpenIn(g, N + i)

\* The depths of a history with the parameters of a function, and what is open.
LEMMA ManyDefs ==
  ASSUME NEW h, History(h), NEW ps \in Params, NEW g, g = h \o ParamDefs(ps),
         NEW N, N = Len(h), NEW P, P = Len(ps)
  PROVE  DefsAfter(h, ps, g, N, P)
<1> DEFINE t == ParamDefs(ps)
<1>1. /\ t \in Seq(Events) /\ Len(t) = P /\ P \in Nat
      /\ \A i \in 1..P : t[i].ev = "def"
  BY ParamDefsFacts
<1>2. IsSeq(h) /\ IsSeq(t) /\ N \in Nat /\ h \in Seq(Events)
  BY <1>1, HistoryFacts DEF History, IsSeq
<1> HIDE DEF t
<1>3. /\ Len(g) = N + P
      /\ \A i \in 1..N : g[i] = h[i]
      /\ \A i \in 1..P : g[N + i] = t[i]
  <2>1. Len(h \o t) = Len(h) + Len(t)
    BY <1>2, ConcatLen
  <2>2. /\ \A i \in 1..Len(h) : (h \o t)[i] = h[i]
        /\ \A i \in 1..Len(t) : (h \o t)[Len(h) + i] = t[i]
    BY <1>2, ConcatFacts
  <2>3. g = h \o t /\ Len(t) = P /\ Len(h) = N
    BY <1>1 DEF t
  <2> QED
    BY <2>1, <2>2, <2>3, Zenon
<1>4. \A j \in (N + 1)..(N + P) : g[j].ev = "def"
  <2> SUFFICES ASSUME NEW j \in (N + 1)..(N + P) PROVE g[j].ev = "def"
    OBVIOUS
  <2>1. j - N \in 1..P /\ N + (j - N) = j
    BY <1>1, <1>2
  <2> QED
    BY <1>1, <1>3, <2>1
<1>5. History(g)
  <2>1. g \in Seq(Events)
    <3>1. h \in Seq(Events) /\ t \in Seq(Events)
      BY <1>1, <1>2
    <3>2. h \o t \in Seq(Events)
      BY <3>1
    <3> QED
      BY <3>2 DEF t
  <2>2. ASSUME NEW i \in 1..Len(g), g[i].ev # "def" PROVE g[i].n = "none"
    <3>1. i \in 1..N \/ i \in (N + 1)..(N + P)
      BY <1>1, <1>2, <1>3
    <3>2. i \in 1..N
      BY <1>4, <2>2, <3>1
    <3> QED
      BY <1>3, <2>2, <3>2 DEF History
  <2> QED
    BY <2>1, <2>2 DEF History
<1>6. ASSUME NEW i \in 0..N PROVE Depth(g, i) = Depth(h, i) /\ Depth(h, i) \in Int
  <2>1. i \in Nat /\ \A m \in 1..i : m \in 1..N
    BY <1>2
  <2>2. \A m \in 1..i : g[m] = h[m]
    BY <1>3, <2>1
  <2> QED
    BY <2>1, <2>2, DepthSame, BetweenFacts
<1>7. ASSUME NEW j \in N..(N + P) PROVE Depth(g, j) = Depth(h, N)
  <2>1. j \in Nat /\ N <= j /\ \A m \in (N + 1)..j : m \in (N + 1)..(N + P)
    BY <1>1, <1>2
  <2>2. \A m \in (N + 1)..j : g[m].ev = "def"
    BY <1>4, <2>1
  <2>3. Depth(g, j) = Depth(g, N)
    BY <1>2, <2>1, <2>2, DepthFlat
  <2>4. N \in 0..N
    BY <1>2
  <2> QED
    BY <1>6, <2>3, <2>4
<1>8. Depth(h, N) \in Int /\ Depth(h, N) >= Depth(h, N)
  <2>1. N \in 0..N
    BY <1>2
  <2>2. Depth(h, N) \in Int
    BY <1>6, <2>1
  <2> QED
    BY <2>2
<1>9. ASSUME NEW i \in 1..N PROVE OpenIn(g, i) <=> OpenIn(h, i)
  <2>1. /\ \A j : j \in i..(N + P) <=> j \in i..N \/ j \in N..(N + P)
        /\ \A j \in i..N : j \in 0..N
        /\ i \in 0..N /\ N \in i..N
    BY <1>1, <1>2
  <2>2. OpenIn(g, i) <=> \A j \in i..(N + P) : Depth(g, j) >= Depth(h, i)
    BY <1>3, <1>6, <2>1 DEF OpenIn
  <2>3. OpenIn(h, i) <=> \A j \in i..N : Depth(h, j) >= Depth(h, i)
    BY DEF OpenIn
  <2>4. OpenIn(g, i) => OpenIn(h, i)
    BY <1>6, <2>1, <2>2, <2>3
  <2>5. OpenIn(h, i) => OpenIn(g, i)
    BY <1>6, <1>7, <2>1, <2>2, <2>3
  <2> QED
    BY <2>4, <2>5
<1>10. ASSUME NEW i \in 1..P PROVE OpenIn(g, N + i)
  <2>1. \A j \in (N + i)..(N + P) : j \in N..(N + P)
    BY <1>1, <1>2
  <2>2. N + i \in N..(N + P)
    BY <1>1, <1>2
  <2> QED
    BY <1>3, <1>7, <1>8, <2>1, <2>2 DEF OpenIn
<1> QED
  BY <1>1, <1>2, <1>3, <1>5, <1>6, <1>7, <1>8, <1>9, <1>10 DEF t, DefsAfter

\* The scope of the parameters: each name means the last one of that name.
LEMMA ParamScopeFacts ==
  ASSUME NEW ps \in Params, NEW n \in Names
  PROVE  /\ n \in DOMAIN ParamScope(ps) <=> \E i \in 1..Len(ps) : ps[i].n = n
         /\ \A i \in 1..Len(ps) :
              ps[i].n = n /\ (\A j \in 1..Len(ps) : ps[j].n = n => j <= i)
                => ParamScope(ps)[n].at = ps[i].at /\ ParamScope(ps)[n].k = "var"
<1> DEFINE S == {i \in DOMAIN ps : ps[i].n = n}
<1>1. Len(ps) \in Nat /\ DOMAIN ps = 1..Len(ps) /\ n # "none"
  BY ParamDefsFacts, NamesAssumption
<1>2. n \in DOMAIN ParamScope(ps) <=> \E i \in 1..Len(ps) : ps[i].n = n
  <2>1. DOMAIN ParamScope(ps) = {ps[i].n : i \in DOMAIN ps} \ {"none"}
    BY DEF ParamScope
  <2> QED
    BY <1>1, <2>1
<1>3. ASSUME NEW i \in 1..Len(ps), ps[i].n = n, \A j \in 1..Len(ps) : ps[j].n = n => j <= i
      PROVE  ParamScope(ps)[n].at = ps[i].at /\ ParamScope(ps)[n].k = "var"
  <2>1. n \in {ps[j].n : j \in DOMAIN ps} \ {"none"}
    BY <1>1, <1>3
  <2>2. ParamScope(ps)[n] = Sym("var", Type("int"), ps[Max(S)].at)
    BY <2>1 DEF ParamScope
  <2>3. Max(S) = i
    <3>1. i \in S /\ S \in SUBSET (1..Len(ps)) /\ \A j \in S : j <= i
      BY <1>1, <1>3
    <3> HIDE DEF S
    <3>2. Max(S) \in S /\ i <= Max(S)
      BY <1>1, <3>1, MaxFacts
    <3>3. \A j, k \in Nat : j <= k /\ k <= j => k = j
      OBVIOUS
    <3>4. i \in Nat /\ Max(S) \in Nat /\ Max(S) <= i
      <4>1. \A k \in 1..Len(ps) : k \in Nat
        BY <1>1
      <4> QED
        BY <3>1, <3>2, <4>1, Zenon
    <3> QED
      BY <3>2, <3>3, <3>4
  <2> HIDE DEF S
  <2> QED
    BY <2>2, <2>3 DEF Sym
<1> QED
  BY <1>2, <1>3

\* The parameters of a function are declared in its scope, all at once.
LEMMA FitsParams ==
  ASSUME NEW s, NEW h, Fits(Append(s, <<>>), h), s \in Seq(AllScopes), NEW ps \in Params
  PROVE  Fits(Append(s, ParamScope(ps)), h \o ParamDefs(ps))
<1> DEFINE p == Depth(h, Len(h))
           N == Len(h)
           P == Len(ps)
           g == h \o ParamDefs(ps)
           t == Append(s, ParamScope(ps))
           r == Append(s, <<>>)
           v == ParamDefs(ps)
<1>1. /\ History(h) /\ p \in Nat /\ Len(r) = p + 1 /\ N \in Nat
      /\ \A i \in 0..N : Depth(h, i) \in Nat
      /\ \A l \in 1..Len(r) : ScopeFits(r[l], h, l)
  <2> HIDE DEF r
  <2> QED
    BY FitsFacts DEF r
<1>2. /\ History(g) /\ Len(g) = N + P /\ P \in Nat
      /\ \A i \in 1..N : g[i] = h[i]
      /\ \A i \in 1..P : g[N + i] = v[i]
      /\ \A i \in 0..N : Depth(g, i) = Depth(h, i)
      /\ \A i \in N..(N + P) : Depth(g, i) = p
      /\ \A i \in 1..N : OpenIn(g, i) <=> OpenIn(h, i)
      /\ \A i \in 1..P : OpenIn(g, N + i)
  <2>1. DefsAfter(h, ps, g, N, P)
    BY <1>1, ManyDefs
  <2> QED
    BY <2>1 DEF DefsAfter
<1>3. \A i \in 1..P : v[i].n = ps[i].n /\ v[i].at = ps[i].at /\ v[i].td = FALSE
  BY ParamDefsFacts
<1>4. /\ t \in Seq(AllScopes) /\ Len(t) = p + 1 /\ t[p + 1] = ParamScope(ps)
      /\ \A l \in 1..p : t[l] = r[l]
      /\ r[p + 1] = <<>>
  <2>1. IsSeq(s)
    BY DEF IsSeq
  <2>2. /\ Len(s) \in Nat /\ Len(r) = Len(s) + 1 /\ r[Len(s) + 1] = <<>>
        /\ \A l \in 1..Len(s) : r[l] = s[l]
    BY <2>1, AppendFacts
  <2>3. /\ Len(t) = Len(s) + 1 /\ t[Len(s) + 1] = ParamScope(ps)
        /\ \A l \in 1..Len(s) : t[l] = s[l]
    BY <2>1, AppendFacts
  <2>4. t \in Seq(AllScopes)
    BY ParamScopeType
  <2> HIDE DEF p, t, r
  <2>5. Len(s) = p
    BY <1>1, <2>2
  <2> QED
    BY <2>2, <2>3, <2>4, <2>5
<1> HIDE DEF p, N, P, g, t, r, v
<1>5. ASSUME NEW m \in Names, NEW l \in 1..p PROVE At(g, m, l) = At(h, m, l)
  <2>1. \A i : i \in 1..(N + P) <=> i \in 1..N \/ i \in (N + 1)..(N + P)
    BY <1>1, <1>2
  <2>2. \A i \in 1..N : i \in 0..N
    BY <1>1
  <2>3. \A i \in (N + 1)..(N + P) : Depth(g, i) # l - 1
    <3>1. \A i \in (N + 1)..(N + P) : i \in N..(N + P)
      BY <1>1, <1>2
    <3>2. p # l - 1
      BY <1>1
    <3> QED
      BY <1>2, <3>1, <3>2
  <2>4. ASSUME NEW i \in At(g, m, l) PROVE i \in At(h, m, l)
    <3>1. i \in 1..N
      BY <1>2, <2>1, <2>3 DEF At
    <3> QED
      BY <1>2, <2>2, <3>1 DEF At, N
  <2>5. ASSUME NEW i \in At(h, m, l) PROVE i \in At(g, m, l)
    <3>1. i \in 1..N
      BY DEF At, N
    <3> QED
      BY <1>2, <2>1, <2>2, <3>1 DEF At
  <2> QED
    BY <2>4, <2>5, SameSet
<1>6. ASSUME NEW m \in Names PROVE At(h, m, p + 1) = {}
  <2>1. p + 1 \in 1..Len(r) /\ DOMAIN r[p + 1] = {}
    BY <1>1, <1>4
  <2> QED
    BY <1>1, <2>1 DEF ScopeFits
<1>7. ASSUME NEW m \in Names
      PROVE  \A i : i \in At(g, m, p + 1) <=> \E j \in 1..P : i = N + j /\ ps[j].n = m
  <2>1. ASSUME NEW j \in 1..P, ps[j].n = m PROVE N + j \in At(g, m, p + 1)
    <3>1. N + j \in 1..(N + P) /\ N + j \in N..(N + P) /\ (p + 1) - 1 = p
      BY <1>1, <1>2
    <3> QED
      BY <1>2, <1>3, <2>1, <3>1 DEF At
  <2>2. ASSUME NEW i \in At(g, m, p + 1) PROVE \E j \in 1..P : i = N + j /\ ps[j].n = m
    <3>1. i \in 1..(N + P) /\ g[i].n = m /\ OpenIn(g, i) /\ Depth(g, i) = (p + 1) - 1
      BY <1>2 DEF At
    <3>2. i \notin 1..N
      <4>1. ASSUME i \in 1..N PROVE i \in At(h, m, p + 1)
        <5>1. i \in 0..N
          BY <1>1, <4>1
        <5> QED
          BY <1>2, <3>1, <4>1, <5>1 DEF At, N
      <4> QED
        BY <1>6, <4>1
    <3>3. i - N \in 1..P /\ i = N + (i - N)
      BY <1>1, <1>2, <3>1, <3>2
    <3>4. PICK j \in 1..P : i = N + j
      BY <3>3
    <3> QED
      BY <1>2, <1>3, <3>1, <3>4
  <2> QED
    BY <2>1, <2>2
<1>8. ASSUME NEW l \in 1..Len(t) PROVE ScopeFits(t[l], g, l)
  <2>1. CASE l # p + 1
    <3>1. l \in 1..p /\ l \in 1..Len(r)
      BY <1>1, <1>4, <2>1
    <3>2. \A m \in Names : At(g, m, l) = At(h, m, l)
      BY <1>5, <3>1
    <3>3. \A m \in Names : \A i \in At(h, m, l) : g[i] = h[i]
      BY <1>2 DEF At, N
    <3> QED
      BY <1>1, <1>4, <3>1, <3>2, <3>3, ScopeStays
  <2>2. CASE l = p + 1
    <3> SUFFICES ASSUME NEW m \in Names
                 PROVE  /\ m \in DOMAIN ParamScope(ps) <=> At(g, m, l) # {}
                        /\ \A i : Last(At(g, m, l), i) => Matches(ParamScope(ps)[m], g[i])
      BY <1>4, <2>2 DEF ScopeFits
    <3>1. m \in DOMAIN ParamScope(ps) <=> At(g, m, l) # {}
      <4>1. m \in DOMAIN ParamScope(ps) <=> \E j \in 1..P : ps[j].n = m
        BY ParamScopeFacts DEF P
      <4>2. \A j \in 1..P : ps[j].n = m => N + j \in At(g, m, l)
        BY <1>7, <2>2
      <4>3. \A i \in At(g, m, l) : \E j \in 1..P : ps[j].n = m
        BY <1>7, <2>2
      <4> QED
        BY <4>1, <4>2, <4>3
    <3>2. ASSUME NEW i, Last(At(g, m, l), i) PROVE Matches(ParamScope(ps)[m], g[i])
      <4>1. PICK j \in 1..P : i = N + j /\ ps[j].n = m
        BY <1>7, <2>2, <3>2 DEF Last
      <4>2. ASSUME NEW k \in 1..P, ps[k].n = m PROVE k <= j
        <5>1. N + k \in At(g, m, l)
          BY <1>7, <2>2, <4>2
        <5>2. N + k <= N + j
          BY <3>2, <4>1, <5>1 DEF Last
        <5> QED
          BY <1>1, <1>2, <5>2
      <4>3. ParamScope(ps)[m].at = ps[j].at /\ ParamScope(ps)[m].k = "var"
        BY <4>1, <4>2, ParamScopeFacts DEF P
      <4>4. g[i].at = ps[j].at /\ g[i].td = FALSE
        BY <1>2, <1>3, <4>1
      <4> QED
        BY <4>3, <4>4 DEF Matches
    <3> QED
      BY <3>1, <3>2
  <2> QED
    BY <2>1, <2>2
<1>9. ASSUME NEW i \in 0..Len(g) PROVE Depth(g, i) >= 0
  <2>1. i \in 0..N \/ i \in N..(N + P)
    BY <1>1, <1>2
  <2> QED
    BY <1>1, <1>2, <2>1
<1>10. Len(t) = Depth(g, Len(g)) + 1
  <2>1. N + P \in N..(N + P)
    BY <1>1, <1>2
  <2> QED
    BY <1>1, <1>2, <1>4, <2>1
<1> QED
  BY <1>2, <1>4, <1>8, <1>9, <1>10 DEF Fits, t, g

-----------------------------------------------------------------------------
(* A name means what the scopes say *)

\* A name is looked up in the innermost scope that has it.
LEMMA LookupFacts ==
  ASSUME NEW s \in Seq(AllScopes), NEW n
  PROVE  /\ (\A k \in 1..Len(s) : n \notin DOMAIN s[k]) => Lookup(s, n) = NoSym
         /\ \A l \in 1..Len(s) :
              n \in DOMAIN s[l] /\ (\A k \in 1..Len(s) : n \in DOMAIN s[k] => k <= l)
                => Lookup(s, n) = s[l][n]
<1> DEFINE S == {i \in DOMAIN s : n \in DOMAIN s[i]}
<1>1. Len(s) \in Nat /\ DOMAIN s = 1..Len(s)
  OBVIOUS
<1>2. ASSUME \A k \in 1..Len(s) : n \notin DOMAIN s[k] PROVE Lookup(s, n) = NoSym
  <2>1. S = {}
    BY <1>1, <1>2
  <2> QED
    BY <2>1 DEF Lookup
<1>3. ASSUME NEW l \in 1..Len(s), n \in DOMAIN s[l],
             \A k \in 1..Len(s) : n \in DOMAIN s[k] => k <= l
      PROVE  Lookup(s, n) = s[l][n]
  <2>1. l \in S /\ S \in SUBSET (1..Len(s)) /\ \A k \in S : k <= l
    BY <1>1, <1>3
  <2>2. Lookup(s, n) = s[Max(S)][n]
    BY <2>1 DEF Lookup
  <2> HIDE DEF S
  <2>3. Max(S) \in S /\ l <= Max(S)
    BY <1>1, <2>1, MaxFacts
  <2>4. Max(S) = l
    <3>1. \A j, k \in Nat : j <= k /\ k <= j => k = j
      OBVIOUS
    <3>2. \A k \in 1..Len(s) : k \in Nat
      BY <1>1
    <3> QED
      BY <2>1, <2>3, <3>1, <3>2, Zenon
  <2> QED
    BY <2>2, <2>4
<1> QED
  BY <1>2, <1>3

\* The definitions of Scopes in terms of depths.
LEMMA DepthOf ==
  ASSUME History(hist)
  PROVE  /\ \A i \in 1..Len(hist) : StillOpen(i) <=> OpenIn(hist, i)
         /\ \A i : AtFile(i) <=> Depth(hist, i) = 0
         /\ Len(hist) \in Nat /\ DOMAIN hist = 1..Len(hist)
         /\ \A i \in 0..Len(hist) : Depth(hist, i) \in Int
<1>1. Len(hist) \in Nat /\ DOMAIN hist = 1..Len(hist)
  BY HistoryFacts
<1>2. \A i, j : Nest(i, j) = Between(hist, i, j)
  BY DEF Nest, Between, Many, Kind
<1>3. \A i : AtFile(i) <=> Depth(hist, i) = 0
  BY <1>2 DEF AtFile, Depth
<1>4. \A i \in 0..Len(hist) : Depth(hist, i) \in Int
  <2>1. \A i \in 0..Len(hist) : i \in Nat
    BY <1>1
  <2> QED
    BY <2>1, BetweenFacts
<1>5. ASSUME NEW i \in 1..Len(hist) PROVE StillOpen(i) <=> OpenIn(hist, i)
  <2>1. ASSUME NEW j \in (i + 1)..Len(hist)
        PROVE  Nest(i + 1, j) >= 0 <=> Depth(hist, j) >= Depth(hist, i)
    <3>1. i \in Nat /\ j \in Nat /\ i <= j /\ i \in 0..Len(hist) /\ j \in 0..Len(hist)
      BY <1>1
    <3>2. Between(hist, i + 1, j) = Depth(hist, j) - Depth(hist, i)
      BY <3>1, BetweenFacts
    <3>3. Depth(hist, i) \in Int /\ Depth(hist, j) \in Int
      BY <1>4, <3>1
    <3> QED
      BY <1>2, <3>2, <3>3
  <2>2. \A j : j \in i..Len(hist) <=> j = i \/ j \in (i + 1)..Len(hist)
    BY <1>1
  <2>3. Depth(hist, i) >= Depth(hist, i)
    <3>1. i \in 0..Len(hist)
      BY <1>1
    <3>2. Depth(hist, i) \in Int
      BY <1>4, <3>1
    <3> QED
      BY <3>2
  <2> QED
    BY <2>1, <2>2, <2>3 DEF StillOpen, OpenIn
<1> QED
  BY <1>1, <1>3, <1>4, <1>5

\* What a lookup finds of a name, and what the name means, in a word.
Agrees(x, e) == x.at = e.at /\ (x.k = "typedef" <=> e.td)

\* The symbol table gives a name the declaration that C gives it.
LEMMA Resolved ==
  ASSUME NEW s, Fits(s, hist), ~Redeclared, NEW n \in Names
  PROVE  Agrees(Lookup(s, n), Meaning(n))
<1> DEFINE N == Len(hist)
           local == {i \in Defs(n) : ~AtFile(i)}
           L == Len(s)
<1>1. /\ s \in Seq(AllScopes) /\ History(hist) /\ N \in Nat
      /\ Depth(hist, N) \in Nat /\ L = Depth(hist, N) + 1
      /\ \A i \in 0..N : Depth(hist, i) \in Nat
      /\ \A l \in 1..L : ScopeFits(s[l], hist, l)
  BY FitsFacts
<1>2. /\ \A i \in 1..N : StillOpen(i) <=> OpenIn(hist, i)
      /\ \A i : AtFile(i) <=> Depth(hist, i) = 0
      /\ DOMAIN hist = 1..N
  BY <1>1, DepthOf
<1> HIDE DEF N, L
<1>3. \A i : i \in Defs(n) <=> i \in 1..N /\ hist[i].n = n /\ OpenIn(hist, i)
  BY <1>2 DEF Defs
<1>4. ASSUME NEW l \in 1..L, NEW i
      PROVE  i \in At(hist, n, l) <=> i \in Defs(n) /\ Depth(hist, i) = l - 1
  BY <1>3 DEF At, N
<1>5. ASSUME NEW i \in Defs(n)
      PROVE  /\ i \in 1..N /\ Depth(hist, i) + 1 \in 1..L /\ Depth(hist, i) \in Nat
             /\ i \in At(hist, n, Depth(hist, i) + 1)
  <2>1. i \in 1..N /\ OpenIn(hist, i) /\ i \in 0..N /\ N \in i..N
    BY <1>1, <1>3
  <2>2. Depth(hist, N) >= Depth(hist, i) /\ Depth(hist, i) \in Nat
    BY <1>1, <2>1 DEF OpenIn, N
  <2>3. Depth(hist, i) + 1 \in 1..L /\ Depth(hist, i) = (Depth(hist, i) + 1) - 1
    BY <1>1, <2>2
  <2> QED
    BY <1>4, <2>1, <2>2, <2>3
<1>6. \A l \in 1..L : n \in DOMAIN s[l] <=> At(hist, n, l) # {}
  BY <1>1 DEF ScopeFits
<1>7. ASSUME NEW i \in Defs(n), NEW l \in 1..L, l = Depth(hist, i) + 1,
             Last(At(hist, n, l), i), \A k \in 1..L : At(hist, n, k) # {} => k <= l,
             Meaning(n) = hist[i]
      PROVE  Agrees(Lookup(s, n), Meaning(n))
  <2>1. n \in DOMAIN s[l] /\ \A k \in 1..L : n \in DOMAIN s[k] => k <= l
    BY <1>6, <1>7 DEF Last
  <2>2. Lookup(s, n) = s[l][n]
    BY <1>1, <2>1, LookupFacts DEF L
  <2>3. Matches(s[l][n], hist[i])
    BY <1>1, <1>7 DEF ScopeFits
  <2> QED
    BY <1>7, <2>2, <2>3 DEF Matches, Agrees
<1>8. CASE Defs(n) = {}
  <2>1. \A l \in 1..L : n \notin DOMAIN s[l]
    BY <1>4, <1>6, <1>8
  <2>2. Lookup(s, n) = NoSym
    BY <1>1, <2>1, LookupFacts DEF L
  <2>3. Meaning(n) = Def(n, 0, FALSE)
    BY <1>8 DEF Meaning
  <2> QED
    BY <2>2, <2>3 DEF NoSym, Sym, Def, Agrees
<1>9. CASE local # {}
  <2>1. local \in SUBSET (1..N)
    BY <1>3
  <2> DEFINE i == Max(local)
             l == Depth(hist, i) + 1
  <2>2. i \in local /\ \A j \in local : j <= i
    <3> HIDE DEF local
    <3> QED
      BY <1>1, <1>9, <2>1, MaxFacts
  <2>3. Meaning(n) = hist[i]
    BY <1>9 DEF Meaning
  <2> HIDE DEF i, l
  <2>4. i \in Defs(n) /\ Depth(hist, i) # 0
    BY <1>2, <2>2
  <2>5. i \in 1..N /\ l \in 1..L /\ l = Depth(hist, i) + 1 /\ Depth(hist, i) \in Nat
        /\ i \in At(hist, n, l)
    BY <1>5, <2>4 DEF l
  <2>6. \A k \in 1..L : \A j \in At(hist, n, k) : k > 1 => j \in local
    <3> SUFFICES ASSUME NEW k \in 1..L, NEW j \in At(hist, n, k), k > 1 PROVE j \in local
      OBVIOUS
    <3>1. j \in Defs(n) /\ Depth(hist, j) = k - 1
      BY <1>4
    <3>2. k - 1 # 0
      BY <1>1
    <3> QED
      BY <1>2, <3>1, <3>2
  <2>7. l > 1 /\ l \in Nat
    BY <2>4, <2>5
  <2>8. Last(At(hist, n, l), i)
    BY <2>2, <2>5, <2>6, <2>7 DEF Last
  <2>9. ASSUME NEW k \in 1..L, At(hist, n, k) # {} PROVE k <= l
    <3> SUFFICES ASSUME k > l PROVE FALSE
      BY <1>1, <2>5
    <3>1. PICK j : j \in At(hist, n, k)
      BY <2>9
    <3>2. j \in Defs(n) /\ Depth(hist, j) = k - 1 /\ j \in 1..N /\ OpenIn(hist, j)
      BY <1>3, <1>4, <3>1
    <3>3. j <= i
      BY <2>2, <2>6, <2>7, <3>1
    <3>4. i \in j..N
      BY <1>1, <2>5, <3>2, <3>3
    <3>5. Depth(hist, i) >= Depth(hist, j)
      BY <3>2, <3>4 DEF OpenIn, N
    <3> QED
      BY <1>1, <2>5, <3>2, <3>5
  <2> QED
    BY <1>7, <2>3, <2>4, <2>5, <2>8, <2>9
<1>10. CASE local = {} /\ Defs(n) # {}
  <2>1. PICK i : i \in Defs(n)
    BY <1>10
  <2>2. ASSUME NEW j \in Defs(n) PROVE j = i
    <3>1. AtFile(i) /\ AtFile(j)
      BY <1>10, <2>1
    <3>2. /\ i \in DOMAIN hist /\ j \in DOMAIN hist /\ hist[i].n = n /\ hist[j].n = n
      BY <1>2, <1>3, <2>1
    <3>3. hist[i].ev = "def"
      <4>1. i \in 1..Len(hist) /\ hist[i].n # "none"
        BY <1>2, <3>2, NamesAssumption DEF N
      <4> QED
        BY <1>1, <4>1 DEF History
    <3> QED
      BY <3>1, <3>2, <3>3 DEF Redeclared
  <2>3. Defs(n) = {i}
    BY <2>1, <2>2
  <2>4. i \in 1..N /\ Depth(hist, i) = 0 /\ i \in Nat
    BY <1>1, <1>2, <1>5, <1>10, <2>1
  <2>5. Min(Defs(n)) = i
    <3>1. i <= i
      BY <2>4
    <3> QED
      BY <2>3, <3>1 DEF Min
  <2>6. Meaning(n) = hist[i]
    BY <1>10, <2>5 DEF Meaning
  <2>7. 1 \in 1..L /\ 1 = Depth(hist, i) + 1
    BY <1>1, <2>4
  <2>8. Last(At(hist, n, 1), i)
    <3>1. \A j : j \in At(hist, n, 1) => j = i
      BY <1>4, <2>2, <2>7
    <3>2. i \in At(hist, n, 1) /\ i <= i
      BY <1>5, <2>1, <2>4, <2>7
    <3> QED
      BY <3>1, <3>2 DEF Last
  <2>9. ASSUME NEW k \in 1..L, At(hist, n, k) # {} PROVE k <= 1
    <3>1. PICK j : j \in At(hist, n, k)
      BY <2>9
    <3>2. j = i /\ Depth(hist, j) = k - 1
      BY <1>4, <2>2, <3>1
    <3> QED
      BY <1>1, <2>4, <3>2
  <2> QED
    BY <1>7, <2>1, <2>6, <2>7, <2>8, <2>9
<1> QED
  BY <1>8, <1>9, <1>10

-----------------------------------------------------------------------------
(* What the active calls are made from *)

\* the calls that parse a part of a declaration, and the two a declaration is made by
Inner == {"declspec", "declarator", "suffix", "params", "param", "(void)"}
Parts == Inner \cup {"external", "local"}
Body == {"compound", "block"}
Fine(a, b) ==
  /\ a \in Parts => b \in Inner
  /\ b = "external" => a = "unit"
  /\ a = "end of function" => b \in Body
\* above a part of a declaration there are only parts of it
Above(c) ==
  /\ \A i, j \in 1..Len(c) : i < j /\ c[i] \in Parts => c[j] \in Inner
  /\ \A i \in 2..Len(c) : Fine(c[i - 1], c[i])
\* a call that is nothing special
Plain(x) == x \notin Parts \cup {"end of function"}

\* Calls after those of a stack.
LEMMA AboveJoin ==
  ASSUME NEW s, NEW r, IsSeq(s), IsSeq(r), Above(s), Above(r),
         s # <<>> /\ r # <<>> => Fine(s[Len(s)], r[1]),
         s # <<>> /\ s[Len(s)] \in Parts => \A j \in 1..Len(r) : r[j] \in Inner
  PROVE  Above(s \o r)
<1> DEFINE c == s \o r
           m == Len(s)
           n == Len(r)
<1>1. /\ m \in Nat /\ n \in Nat /\ Len(c) = m + n
      /\ \A i \in 1..m : c[i] = s[i]
      /\ \A i \in 1..n : c[m + i] = r[i]
      /\ (s = <<>> <=> m = 0) /\ (r = <<>> <=> n = 0)
  BY ConcatFacts, ConcatLen, SeqFacts
<1> HIDE DEF c
<1>2. ASSUME NEW i \in 1..(m + n), i > m PROVE i - m \in 1..n /\ c[i] = r[i - m]
  <2>1. i - m \in 1..n /\ m + (i - m) = i
    BY <1>1, <1>2
  <2> QED
    BY <1>1, <2>1
<1>3. ASSUME NEW i \in 1..m, s[i] \in Parts, NEW k \in 1..n PROVE r[k] \in Inner
  <2>1. m \in 1..m
    BY <1>1
  <2>2. s[m] \in Parts
    <3>1. CASE i = m
      BY <1>3, <3>1
    <3>2. CASE i # m
      <4>1. i < m
        BY <1>1, <3>2
      <4> QED
        BY <1>3, <2>1, <4>1 DEF Above, Parts
    <3> QED
      BY <3>1, <3>2
  <2> QED
    BY <1>1, <1>3, <2>2
<1>4. ASSUME NEW i \in 1..(m + n), NEW j \in 1..(m + n), i < j, c[i] \in Parts
      PROVE  c[j] \in Inner
  <2>1. CASE j <= m
    <3>1. i \in 1..m /\ j \in 1..m
      BY <1>1, <1>4, <2>1
    <3> QED
      BY <1>1, <1>4, <3>1 DEF Above
  <2>2. CASE j > m /\ i <= m
    <3>1. i \in 1..m
      BY <1>1, <2>2
    <3> QED
      BY <1>1, <1>2, <1>3, <1>4, <2>2, <3>1
  <2>3. CASE j > m /\ i > m
    <3>1. /\ i - m \in 1..n /\ c[i] = r[i - m] /\ j - m \in 1..n /\ c[j] = r[j - m]
      BY <1>2, <2>3
    <3>2. i - m < j - m
      BY <1>1, <1>4
    <3> QED
      BY <1>4, <3>1, <3>2 DEF Above
  <2> QED
    BY <1>1, <2>1, <2>2, <2>3
<1>5. ASSUME NEW i \in 2..(m + n) PROVE Fine(c[i - 1], c[i])
  <2>1. CASE i <= m
    <3>1. i \in 2..m /\ i \in 1..m /\ i - 1 \in 1..m
      BY <1>1, <2>1
    <3> QED
      BY <1>1, <3>1 DEF Above
  <2>2. CASE i = m + 1 /\ m # 0
    <3>1. i - 1 = m /\ m \in 1..m /\ 1 \in 1..n /\ n # 0 /\ i = m + 1
      BY <1>1, <2>2
    <3>2. c[i - 1] = s[m] /\ c[i] = r[1]
      BY <1>1, <3>1
    <3> QED
      BY <1>1, <2>2, <3>1, <3>2
  <2>3. CASE i > m + 1 \/ m = 0
    <3>1. i - m \in 2..n /\ i > m /\ i - 1 > m /\ i - 1 \in 1..(m + n) /\ i \in 1..(m + n)
      BY <1>1, <2>3
    <3>2. c[i] = r[i - m] /\ c[i - 1] = r[(i - 1) - m]
      BY <1>2, <3>1
    <3>3. (i - 1) - m = (i - m) - 1
      BY <1>1
    <3> QED
      BY <3>1, <3>2, <3>3 DEF Above
  <2> QED
    BY <1>1, <2>1, <2>2, <2>3
<1> QED
  BY <1>1, <1>4, <1>5 DEF Above, c

\* Plain calls are one above the other, and so are parts of a declaration.
LEMMA AboveSelf ==
  ASSUME NEW r, (\A i \in 1..Len(r) : Plain(r[i])) \/ (\A i \in 1..Len(r) : r[i] \in Inner),
         Len(r) \in Nat
  PROVE  Above(r)
<1>1. \A i \in 2..Len(r) : i \in 1..Len(r) /\ i - 1 \in 1..Len(r)
  OBVIOUS
<1>2. CASE \A i \in 1..Len(r) : Plain(r[i])
  BY <1>1, <1>2 DEF Above, Plain, Fine, Parts
<1>3. CASE \A i \in 1..Len(r) : r[i] \in Inner
  <2>1. "external" \notin Inner /\ "end of function" \notin Inner
    BY DEF Inner
  <2> QED
    BY <1>1, <1>3, <2>1 DEF Above, Fine
<1> QED
  BY <1>2, <1>3

\* What is under the top.
LEMMA AboveUnder ==
  ASSUME NEW c, IsSeq(c), c # <<>>, Above(c)
  PROVE  /\ IsSeq(Pop(c)) /\ Above(Pop(c)) /\ Len(Pop(c)) = Len(c) - 1 /\ Len(c) \in Nat \ {0}
         /\ \A i \in 1..(Len(c) - 1) : Pop(c)[i] = c[i]
         /\ Len(c) > 1 => Pop(c) # <<>> /\ Fine(c[Len(c) - 1], c[Len(c)])
         /\ Len(c) = 1 => Pop(c) = <<>>
         /\ c[Len(c)] \notin Inner => \A i \in 1..(Len(c) - 1) : c[i] \notin Parts
<1> DEFINE b == Pop(c)
           n == Len(c)
<1>1. n \in Nat \ {0}
  BY SeqFacts
<1>0. IsSeq(b) /\ Len(b) = n - 1 /\ \A i \in 1..(n - 1) : b[i] = c[i]
  <2>1. Len(c) - 1 \in 0..Len(c) /\ IsSeq(c)
    BY <1>1
  <2> QED
    BY <2>1, SubSeqFacts DEF Pop
<1> HIDE DEF b, n
<1>2. /\ IsSeq(b) /\ Len(b) = n - 1 /\ (b = <<>> <=> Len(b) = 0)
      /\ \A i \in 1..(n - 1) : b[i] = c[i]
  BY <1>0, SeqFacts
<1>3. /\ \A i, j \in 1..n : i < j /\ c[i] \in Parts => c[j] \in Inner
      /\ \A i \in 2..n : Fine(c[i - 1], c[i])
  BY DEF Above, n
<1>4. Above(b)
  <2>1. \A i \in 1..(n - 1) : i \in 1..n
    BY <1>1
  <2>2. \A i \in 2..(n - 1) : i \in 2..n /\ i \in 1..(n - 1) /\ i - 1 \in 1..(n - 1)
    BY <1>1
  <2> QED
    BY <1>2, <1>3, <2>1, <2>2 DEF Above
<1>5. n > 1 => b # <<>> /\ Fine(c[n - 1], c[n])
  BY <1>1, <1>2, <1>3
<1>6. n = 1 => b = <<>>
  BY <1>2
<1>7. ASSUME c[n] \notin Inner, NEW i \in 1..(n - 1) PROVE c[i] \notin Parts
  <2>1. i \in 1..n /\ n \in 1..n /\ i < n
    BY <1>1
  <2> QED
    BY <1>3, <1>7, <2>1
<1> QED
  BY <1>1, <1>2, <1>4, <1>5, <1>6, <1>7 DEF b, n

\* the parser is not within a declaration, and no function ends
Calm(c) == c # <<>> => c[Len(c)] \notin Inner \cup {"end of function"}
\* a function ends
Ends(c) == c # <<>> /\ c[Len(c)] = "end of function"

\* The last of two sequences joined.
LEMMA JoinedLast ==
  ASSUME NEW s, NEW r, IsSeq(s), IsSeq(r)
  PROVE  /\ r # <<>> => Len(r) \in 1..Len(r) /\ s \o r # <<>> /\ (s \o r)[Len(s \o r)] = r[Len(r)]
         /\ r = <<>> => s \o r = s
<1>1. CASE r # <<>>
  <2>1. /\ Len(s) \in Nat /\ Len(r) \in Nat \ {0} /\ Len(s \o r) = Len(s) + Len(r)
        /\ Len(r) \in 1..Len(r) /\ IsSeq(s \o r)
        /\ \A i \in 1..Len(r) : (s \o r)[Len(s) + i] = r[i]
    <3>1. Len(r) \in Nat \ {0}
      BY <1>1, SeqFacts
    <3>2. Len(r) \in 1..Len(r)
      BY <3>1
    <3> QED
      BY <3>1, <3>2, ConcatFacts, ConcatLen
  <2>2. s \o r # <<>>
    <3>1. Len(s \o r) # 0
      BY <2>1
    <3> QED
      BY <2>1, <3>1, SeqFacts
  <2> QED
    BY <1>1, <2>1, <2>2
<1>2. CASE r = <<>>
  BY <1>2, OneMore
<1> QED
  BY <1>1, <1>2

\* A statement or an expression goes on.
LEMMA AboveGoes ==
  ASSUME NEW c, IsSeq(c), c # <<>>, Above(c), c[Len(c)] \notin Inner \cup Body,
         NEW r, IsSeq(r), \A i \in 1..Len(r) : Plain(r[i])
  PROVE  Above(Pop(c) \o r) /\ Calm(Pop(c) \o r)
<1> DEFINE b == Pop(c)
           n == Len(c)
<1>1. /\ IsSeq(b) /\ Above(b) /\ Len(b) = n - 1 /\ n \in Nat \ {0}
      /\ \A i \in 1..(n - 1) : b[i] = c[i]
      /\ n > 1 => b # <<>> /\ Fine(c[n - 1], c[n])
      /\ n = 1 => b = <<>>
      /\ c[n] \notin Inner => \A i \in 1..(n - 1) : c[i] \notin Parts
  BY AboveUnder
<1> HIDE DEF b
<1>2. b # <<>> => b[Len(b)] \notin Parts \cup {"end of function"}
  <2> SUFFICES ASSUME b # <<>> PROVE b[Len(b)] \notin Parts \cup {"end of function"}
    OBVIOUS
  <2>1. n > 1 /\ n - 1 \in 1..(n - 1) /\ Len(b) = n - 1
    BY <1>1
  <2>2. b[Len(b)] = c[n - 1] /\ Fine(c[n - 1], c[n]) /\ c[n - 1] \notin Parts
    BY <1>1, <2>1
  <2> QED
    BY <2>2 DEF Fine
<1>3. Above(r)
  BY AboveSelf, SeqFacts
<1>4. r # <<>> => r[1] \notin Parts /\ 1 \in 1..Len(r)
  <2>1. r # <<>> => 1 \in 1..Len(r)
    BY SeqFacts
  <2> QED
    BY <2>1 DEF Plain
<1>5. b # <<>> /\ r # <<>> => Fine(b[Len(b)], r[1])
  BY <1>2, <1>4 DEF Fine, Parts
<1>6. Above(b \o r)
  BY <1>1, <1>2, <1>3, <1>5, AboveJoin
<1>7. Calm(b \o r)
  <2>1. CASE r # <<>>
    <3>1. Len(r) \in 1..Len(r) /\ b \o r # <<>> /\ (b \o r)[Len(b \o r)] = r[Len(r)]
      BY <1>1, <2>1, JoinedLast
    <3>2. Plain(r[Len(r)])
      BY <3>1
    <3> QED
      BY <3>1, <3>2 DEF Calm, Plain, Parts
  <2>2. CASE r = <<>>
    <3>1. b \o r = b
      BY <1>1, <2>2, JoinedLast
    <3> QED
      BY <1>2, <3>1 DEF Calm, Parts
  <2> QED
    BY <2>1, <2>2
<1> QED
  BY <1>6, <1>7 DEF b

\* A part of a declaration goes on with parts of it.
LEMMA AboveInner ==
  ASSUME NEW c, IsSeq(c), c # <<>>, Above(c), c[Len(c)] \in Inner,
         NEW r, IsSeq(r), \A i \in 1..Len(r) : r[i] \in Inner
  PROVE  Above(Pop(c) \o r) /\ ~Ends(Pop(c) \o r)
<1> DEFINE b == Pop(c)
           n == Len(c)
<1>1. /\ IsSeq(b) /\ Above(b) /\ Len(b) = n - 1 /\ n \in Nat \ {0}
      /\ \A i \in 1..(n - 1) : b[i] = c[i]
      /\ n > 1 => b # <<>> /\ Fine(c[n - 1], c[n])
      /\ n = 1 => b = <<>>
  BY AboveUnder
<1> HIDE DEF b
<1>2. Above(r)
  BY AboveSelf, SeqFacts
<1>3. b # <<>> /\ r # <<>> => Fine(b[Len(b)], r[1])
  <2> SUFFICES ASSUME b # <<>>, r # <<>> PROVE Fine(b[Len(b)], r[1])
    OBVIOUS
  <2>1. n > 1 /\ n - 1 \in 1..(n - 1) /\ Len(b) = n - 1
    BY <1>1
  <2>2. b[Len(b)] = c[n - 1] /\ Fine(c[n - 1], c[n])
    BY <1>1, <2>1
  <2>3. 1 \in 1..Len(r)
    BY SeqFacts
  <2>4. r[1] \in Inner
    BY <2>3
  <2> QED
    BY <2>2, <2>4 DEF Fine, Inner, Body
<1>4. Above(b \o r)
  BY <1>1, <1>2, <1>3, AboveJoin
<1>5. ~Ends(b \o r)
  <2>1. CASE r # <<>>
    <3>1. Len(r) \in 1..Len(r) /\ (b \o r)[Len(b \o r)] = r[Len(r)]
      BY <1>1, <2>1, JoinedLast
    <3>2. r[Len(r)] \in Inner
      BY <3>1
    <3> QED
      BY <3>1, <3>2 DEF Ends, Inner
  <2>2. CASE r = <<>>
    <3>1. b \o r = b
      BY <1>1, <2>2, JoinedLast
    <3>2. b # <<>> => b[Len(b)] # "end of function"
      <4> SUFFICES ASSUME b # <<>> PROVE b[Len(b)] # "end of function"
        OBVIOUS
      <4>1. n > 1 /\ n - 1 \in 1..(n - 1) /\ Len(b) = n - 1
        BY <1>1
      <4>2. b[Len(b)] = c[n - 1] /\ Fine(c[n - 1], c[n])
        BY <1>1, <4>1
      <4> QED
        BY <4>2 DEF Fine, Inner, Body
    <3> QED
      BY <3>1, <3>2 DEF Ends
  <2> QED
    BY <2>1, <2>2
<1> QED
  BY <1>4, <1>5 DEF b

\* A call is made.
LEMMA AbovePush ==
  ASSUME NEW c, IsSeq(c), c # <<>>, Above(c), c[Len(c)] \notin Parts \cup {"end of function"},
         NEW r, IsSeq(r), Above(r), r # <<>>, r[1] = "external" => c[Len(c)] = "unit"
  PROVE  Above(c \o r)
<1>1. Fine(c[Len(c)], r[1])
  BY DEF Fine
<1> QED
  BY <1>1, AboveJoin

-----------------------------------------------------------------------------
(* What holds while the text is without an error *)

\* the text so far ends with the end of a block; and that is where p is
Closes(h) == h # <<>> /\ h[Len(h)].ev = "}"
AfterClose(h, p) == Closes(h) /\ h[Len(h)].at + 1 = p
\* a name of the file is declared twice
Twice(h) == \E i, j \in 1..Len(h) : /\ i # j /\ h[i].ev = "def" /\ h[i].n = h[j].n
                                    /\ Depth(h, i) = 0 /\ Depth(h, j) = 0
Longer(h, g) == History(g) /\ Len(h) <= Len(g) /\ \A i \in 1..Len(h) : g[i] = h[i]

\* names are identifiers or types, and nothing else is
Kinds(t) == /\ t.k = "ident" => t.n \in Names
            /\ t.n # "none" => t.k \in {"ident", "typename"}
\* a name is a type where the scopes say so
Spelled(t, s) == t.n # "none" => (t.k = "typename" <=> Lookup(s, t.n).k = "typedef")

\* the scopes of the text: a function's are closed later than the function
Cur(c, s) == IF Ends(c) THEN Pop(s) ELSE s
\* a block ended in the past
OldClose(h, p) == Closes(h) => h[Len(h)].at + 1 <= p
\* a name being declared is no type, and was read after the last block ended
DeclGood(d, s, h, p) ==
  d.name # "none" => /\ Lookup(s, d.name).k # "typedef"
                     /\ d.at < p /\ (Closes(h) => h[Len(h)].at + 1 <= d.at)
DeclsGood(ds, s, h, p) == \A q \in 1..Len(ds) : DeclGood(ds[q], s, h, p)
\* what may come right after a block
Waits(c, t) == c # <<>> => /\ c[Len(c)] # "params"
                           /\ c[Len(c)] \in {"declspec", "declarator"} => t.k \in DeclWords
GoodAt(c, t, p, ds, s, h) ==
  /\ Fits(Cur(c, s), h)
  /\ OldClose(h, p)
  /\ AfterClose(h, p) \/ Spelled(t, s)
  /\ DeclsGood(ds, s, h, p)
  /\ AfterClose(h, p) => Waits(c, t)
  /\ Ends(c) => AfterClose(h, p)

Good == GoodAt(ctl, tok, pos, decls, scopes, hist)
BInv == CInv /\ input \in Inputs /\ Kinds(tok) /\ History(hist) /\ Above(ctl)
SInv == BInv /\ (~err /\ ~Twice(hist) => Good)

\* A name declared twice stays so.
LEMMA TwiceStays ==
  ASSUME NEW h, NEW g, History(h), Longer(h, g), Twice(h)
  PROVE  Twice(g)
<1>1. Len(h) \in Nat /\ Len(g) \in Nat
  BY HistoryFacts DEF Longer
<1>2. PICK i \in 1..Len(h), j \in 1..Len(h) :
        /\ i # j /\ h[i].ev = "def" /\ h[i].n = h[j].n
        /\ Depth(h, i) = 0 /\ Depth(h, j) = 0
  BY DEF Twice
<1>3. i \in 1..Len(g) /\ j \in 1..Len(g) /\ g[i] = h[i] /\ g[j] = h[j]
  BY <1>1 DEF Longer
<1>4. ASSUME NEW k \in 1..Len(h) PROVE Depth(g, k) = Depth(h, k)
  <2>1. k \in Nat /\ \A m \in 1..k : m \in 1..Len(h)
    BY <1>1
  <2>2. \A m \in 1..k : g[m] = h[m]
    BY <2>1 DEF Longer
  <2> QED
    BY <2>1, <2>2, DepthSame
<1> QED
  BY <1>2, <1>3, <1>4 DEF Twice

\* What the lexer says of a word.
LEMMA TokenFacts ==
  ASSUME NEW s, NEW w, w \notin {"ident", "typename"}
  PROVE  Kinds(Token(s, w)) /\ Spelled(Token(s, w), s)
<1>1. CASE w \in Names
  <2> DEFINE k == IF Lookup(s, w).k = "typedef" THEN "typename" ELSE "ident"
  <2>1. Token(s, w).k = k /\ Token(s, w).n = w
    BY <1>1 DEF Token
  <2>2. k \in {"ident", "typename"} /\ (k = "typename" <=> Lookup(s, w).k = "typedef")
    OBVIOUS
  <2> HIDE DEF k
  <2> QED
    BY <1>1, <2>1, <2>2 DEF Kinds, Spelled
<1>2. CASE w \notin Names
  <2>1. Token(s, w).k = w /\ Token(s, w).n = "none"
    BY <1>2 DEF Token
  <2> QED
    BY <2>1 DEF Kinds, Spelled
<1> QED
  BY <1>1, <1>2

\* The next token.
LEMMA LexFacts ==
  ASSUME NEW s, Lex(s), input \in Inputs, pos \in Nat
  PROVE  pos' = pos + 1 /\ input' = input /\ Kinds(tok') /\ Spelled(tok', s)
<1>1. pos' = pos + 1 /\ input' = input
  BY DEF Lex
<1>2. \/ pos < Len(input.start) /\ tok' = Token(s, input.start[pos + 1])
      \/ \E w \in input.words : tok' = Token(s, w)
      \/ tok' = EofTok
  BY DEF Lex
<1>3. CASE pos < Len(input.start) /\ tok' = Token(s, input.start[pos + 1])
  <2>1. input.start \in Seq(STRING) /\ \A j \in DOMAIN input.start : input.start[j] \notin {"ident", "typename"}
    BY InputAssumption
  <2>2. pos + 1 \in DOMAIN input.start
    BY <1>3, <2>1
  <2> QED
    BY <1>1, <1>3, <2>1, <2>2, TokenFacts
<1>4. CASE \E w \in input.words : tok' = Token(s, w)
  <2>1. PICK w \in input.words : tok' = Token(s, w)
    BY <1>4
  <2>2. w \notin {"ident", "typename"}
    BY InputAssumption
  <2> QED
    BY <1>1, <2>1, <2>2, TokenFacts
<1>5. CASE tok' = EofTok
  <2>1. Kinds(EofTok) /\ Spelled(EofTok, s)
    BY DEF EofTok, Kinds, Spelled
  <2> QED
    BY <1>1, <1>5, <2>1
<1> QED
  BY <1>2, <1>3, <1>4, <1>5

\* A step keeps the invariant.
LEMMA StepKeeps ==
  ASSUME SInv, CInv', NEW s, Lex(s) \/ Stay, Longer(hist, hist'), Above(ctl'), err => err',
         ~err' /\ ~err /\ ~Twice(hist') /\ Good => Good'
  PROVE  SInv'
<1>1. input' \in Inputs /\ Kinds(tok')
  <2>1. input \in Inputs /\ pos \in Nat /\ Kinds(tok)
    BY DEF SInv, BInv, CInv, TypesInv
  <2>2. CASE Lex(s)
    BY <2>1, <2>2, LexFacts
  <2>3. CASE Stay
    BY <2>1, <2>3 DEF Stay
  <2> QED
    BY <2>2, <2>3
<1>2. BInv'
  BY <1>1 DEF BInv, Longer
<1>3. ~err' /\ ~Twice(hist') => ~err /\ ~Twice(hist)
  BY TwiceStays DEF SInv, BInv
<1> QED
  BY <1>2, <1>3 DEF SInv

\* An event's fields.
LEMMA EventFacts ==
  ASSUME NEW e \in Events
  PROVE  e.n \in MaybeNames /\ e.at \in Nat /\ e.td \in BOOLEAN
  BY DEF Events

\* Where the last block of the text ended.
LEMMA ClosePlace ==
  ASSUME NEW h, History(h), Closes(h)
  PROVE  h[Len(h)].at \in Nat /\ Len(h) \in 1..Len(h) /\ Len(h) \in Nat
<1>1. Len(h) \in Nat \ {0}
  BY HistoryFacts, SeqFacts DEF Closes
<1>2. Len(h) \in 1..Len(h)
  BY <1>1
<1> QED
  BY <1>1, <1>2, HistoryFacts, EventFacts

\* The declarations that are held.
LEMMA DeclsHeld ==
  ASSUME BInv, ctl # <<>>, Top # "begin"
  PROVE  /\ Top \notin Parts => decls = <<>>
         /\ Top \in {"external", "local"} => Len(decls) = 1 /\ Pop(decls) = <<>>
         /\ Top = "external" => Len(scopes) = 1
<1> DEFINE n == Len(ctl)
<1>1. /\ Stack(ctl) /\ IsSeq(ctl) /\ Above(ctl)
      /\ Len(scopes) = 1 + Opens(ctl) /\ Len(decls) = Decls(ctl)
  BY Active DEF BInv
<1>2. n \in Nat \ {0} /\ DOMAIN ctl = 1..n
  BY <1>1, SeqFacts
<1>3. IsSeq(decls)
  <2>1. decls \in Seq(AllDecls)
    BY DEF BInv, CInv, TypesInv
  <2> QED
    BY <2>1 DEF IsSeq
<1>4. \A i \in 1..n : i = n \/ i \in 1..(n - 1)
  <2> HIDE DEF n
  <2>1. n \in Nat
    BY <1>2
  <2> QED
    BY <2>1
<1>5. Top \notin Inner => \A i \in 1..(n - 1) : ctl[i] \notin Parts
  BY <1>1, AboveUnder DEF Top
<1>6. ASSUME Top \notin Parts PROVE decls = <<>>
  <2>1. \A i \in 1..n : ctl[i] \notin DeclMarks
    <3>1. Top \notin Inner
      BY <1>6 DEF Parts
    <3>2. \A i \in 1..n : ctl[i] \notin Parts
      BY <1>4, <1>5, <1>6, <3>1 DEF Top
    <3> QED
      BY <3>2 DEF Parts, Inner, DeclMarks
  <2>2. {i \in DOMAIN ctl : ctl[i] \in DeclMarks} = {}
    BY <1>2, <2>1
  <2>3. Len(decls) = 0
    BY <1>1, <2>2, FS_EmptySet DEF Decls, Count
  <2> QED
    BY <1>3, <2>3, SeqFacts
<1>7. ASSUME Top \in {"external", "local"} PROVE Len(decls) = 1 /\ Pop(decls) = <<>>
  <2>1. Top \notin Inner /\ Top \in DeclMarks
    BY <1>7 DEF Inner, DeclMarks
  <2>2. \A i \in 1..(n - 1) : ctl[i] \notin DeclMarks
    BY <1>5, <2>1 DEF Parts, Inner, DeclMarks
  <2>3. {i \in DOMAIN ctl : ctl[i] \in DeclMarks} = {n}
    <3>1. n \in 1..n /\ ctl[n] \in DeclMarks
      BY <1>2, <2>1 DEF Top
    <3> HIDE DEF n
    <3> QED
      BY <1>2, <1>4, <2>2, <3>1
  <2>4. Len(decls) = 1
    BY <1>1, <2>3, FS_Singleton DEF Decls, Count
  <2>5. Len(Pop(decls)) = 0 /\ IsSeq(Pop(decls))
    <3>1. 0 \in 0..Len(decls) /\ Len(decls) - 1 = 0
      BY <2>4
    <3>2. IsSeq(SubSeq(decls, 1, 0)) /\ Len(SubSeq(decls, 1, 0)) = 0
      BY <1>3, <3>1, SubSeqFacts
    <3> QED
      BY <3>1, <3>2 DEF Pop
  <2> QED
    BY <2>4, <2>5, SeqFacts
<1>8. ASSUME Top = "external" PROVE Len(scopes) = 1
  <2>1. n # 1
    BY <1>1, <1>8 DEF Stack, Top
  <2>2. n > 1
    BY <1>2, <2>1
  <2>3. ctl[n - 1] = "unit"
    <3>1. Fine(ctl[n - 1], ctl[n])
      BY <1>1, <2>2, AboveUnder
    <3> QED
      BY <1>8, <3>1 DEF Fine, Top
  <2>4. n - 1 = 1
    <3> SUFFICES ASSUME n - 1 # 1 PROVE FALSE
      OBVIOUS
    <3>1. n - 1 \in 2..n
      BY <1>2, <2>2
    <3>2. Follows(ctl[(n - 1) - 1], ctl[n - 1])
      BY <1>1, <3>1 DEF Stack
    <3> QED
      BY <2>3, <3>2 DEF Follows
  <2>5. \A i \in 1..n : ctl[i] \in {"unit", "external"}
    <3>1. \A i \in 1..n : i = n - 1 \/ i = n
      <4> HIDE DEF n
      <4>1. n = 2
        BY <1>2, <2>4
      <4> QED
        BY <4>1
    <3> QED
      BY <1>8, <2>3, <3>1 DEF Top
  <2>6. \A i \in 1..n : ctl[i] \notin OpenMarks
    BY <2>5 DEF OpenMarks
  <2>7. {i \in DOMAIN ctl : ctl[i] \in OpenMarks} = {}
    BY <1>2, <2>6
  <2>8. Opens(ctl) = 0
    BY <2>7, FS_EmptySet DEF Opens, Count
  <2> QED
    BY <1>1, <2>8
<1> QED
  BY <1>6, <1>7, <1>8

\* The next token is read, and no name declared.
LEMMA QuietLex ==
  ASSUME NEW c, NEW t, NEW p \in Nat, NEW ds, NEW s, NEW h, GoodAt(c, t, p, ds, s, h),
         History(h), NEW c2, NEW t2, NEW ds2,
         ~Ends(c), ~Ends(c2), Spelled(t2, s), DeclsGood(ds2, s, h, p + 1)
  PROVE  GoodAt(c2, t2, p + 1, ds2, s, h)
<1>1. Fits(Cur(c2, s), h)
  BY DEF GoodAt, Cur
<1>2. OldClose(h, p + 1) /\ ~AfterClose(h, p + 1)
  <2>1. Closes(h) => h[Len(h)].at \in Nat /\ h[Len(h)].at + 1 <= p
    BY ClosePlace DEF GoodAt, OldClose
  <2>2. Closes(h) => h[Len(h)].at + 1 <= p + 1 /\ h[Len(h)].at + 1 # p + 1
    BY <2>1
  <2> QED
    BY <2>2 DEF OldClose, AfterClose
<1> QED
  BY <1>1, <1>2 DEF GoodAt

\* Nothing is read, and no name declared.
LEMMA QuietStay ==
  ASSUME NEW c, NEW t, NEW p, NEW ds, NEW s, NEW h, GoodAt(c, t, p, ds, s, h),
         NEW c2, NEW ds2,
         ~Ends(c), ~Ends(c2), DeclsGood(ds2, s, h, p), AfterClose(h, p) => Waits(c2, t)
  PROVE  GoodAt(c2, t, p, ds2, s, h)
<1>1. Fits(Cur(c2, s), h)
  BY DEF GoodAt, Cur
<1> QED
  BY <1>1 DEF GoodAt

\* Time passes for the declarations.
LEMMA DeclsLater ==
  ASSUME NEW ds, NEW s, NEW h, NEW p \in Nat, DeclsGood(ds, s, h, p),
         \A q \in 1..Len(ds) : ds[q].at \in Nat
  PROVE  DeclsGood(ds, s, h, p + 1)
<1> SUFFICES ASSUME NEW q \in 1..Len(ds), ds[q].name # "none"
             PROVE  /\ Lookup(s, ds[q].name).k # "typedef"
                    /\ ds[q].at < p + 1 /\ (Closes(h) => h[Len(h)].at + 1 <= ds[q].at)
  BY DEF DeclsGood, DeclGood
<1>1. /\ Lookup(s, ds[q].name).k # "typedef"
      /\ ds[q].at < p /\ (Closes(h) => h[Len(h)].at + 1 <= ds[q].at)
  BY DEF DeclsGood, DeclGood
<1>2. ds[q].at < p + 1
  BY <1>1
<1> QED
  BY <1>1, <1>2

-----------------------------------------------------------------------------
(* The steps that declare nothing *)

\* the same declarations or fewer, but for what they have no name for
From(ds2, ds) ==
  \A q \in 1..Len(ds2) :
    ds2[q].name = "none" \/ \E k \in 1..Len(ds) : ds2[q].name = ds[k].name /\ ds2[q].at = ds[k].at

\* They are as good.
LEMMA FromGood ==
  ASSUME NEW ds, NEW ds2, NEW s, NEW h, NEW p, From(ds2, ds), DeclsGood(ds, s, h, p)
  PROVE  DeclsGood(ds2, s, h, p)
<1> SUFFICES ASSUME NEW q \in 1..Len(ds2), ds2[q].name # "none" PROVE DeclGood(ds2[q], s, h, p)
  BY DEF DeclsGood, DeclGood
<1>1. PICK k \in 1..Len(ds) : ds2[q].name = ds[k].name /\ ds2[q].at = ds[k].at
  BY DEF From
<1>2. DeclGood(ds[k], s, h, p)
  BY DEF DeclsGood
<1> QED
  BY <1>1, <1>2 DEF DeclGood

\* What the invariant says of the text.
LEMMA TextFacts ==
  ASSUME SInv
  PROVE  /\ History(hist) /\ pos \in Nat /\ input \in Inputs /\ Above(ctl) /\ CInv /\ BInv
         /\ scopes \in Seq(AllScopes) /\ decls \in Seq(AllDecls) /\ Kinds(tok)
         /\ Longer(hist, hist) /\ Len(decls) \in Nat /\ IsSeq(decls)
         /\ \A q \in 1..Len(decls) : decls[q] \in AllDecls /\ decls[q].at \in Nat
<1>1. /\ History(hist) /\ pos \in Nat /\ input \in Inputs /\ Above(ctl) /\ CInv /\ BInv
      /\ scopes \in Seq(AllScopes) /\ decls \in Seq(AllDecls) /\ Kinds(tok)
  BY DEF SInv, BInv, CInv, TypesInv
<1>2. Longer(hist, hist)
  <2>1. Len(hist) \in Nat
    BY <1>1, HistoryFacts
  <2> QED
    BY <1>1, <2>1 DEF Longer
<1>3. Len(decls) \in Nat /\ IsSeq(decls)
  BY <1>1 DEF IsSeq
<1>4. ASSUME NEW q \in 1..Len(decls) PROVE decls[q] \in AllDecls /\ decls[q].at \in Nat
  <2>1. decls[q] \in AllDecls
    BY <1>1
  <2> QED
    BY <2>1 DEF AllDecls
<1> QED
  BY <1>1, <1>2, <1>3, <1>4

\* A token is read.
LEMMA LexStep ==
  ASSUME SInv, CInv', UNCHANGED <<scopes, hist>>, Lex(scopes), err => err', Above(ctl'),
         ~Ends(ctl), ~Ends(ctl'), Good /\ ~err' => DeclsGood(decls', scopes, hist, pos + 1)
  PROVE  SInv'
<1>1. /\ History(hist) /\ pos \in Nat /\ input \in Inputs /\ Longer(hist, hist)
  BY TextFacts
<1>2. pos' = pos + 1 /\ Spelled(tok', scopes)
  BY <1>1, LexFacts
<1>3. ASSUME ~err', Good PROVE Good'
  <2>1. GoodAt(ctl', tok', pos + 1, decls', scopes, hist)
    BY <1>1, <1>2, <1>3, QuietLex DEF Good
  <2> QED
    BY <1>2, <2>1 DEF Good
<1> QED
  BY <1>1, <1>3, StepKeeps

\* None is.
LEMMA StayStep ==
  ASSUME SInv, CInv', UNCHANGED <<scopes, hist>>, Stay, err => err', Above(ctl'),
         ~Ends(ctl), ~Ends(ctl'),
         Good /\ ~err' => /\ DeclsGood(decls', scopes, hist, pos)
                          /\ AfterClose(hist, pos) => Waits(ctl', tok)
  PROVE  SInv'
<1>1. Longer(hist, hist)
  BY TextFacts
<1>2. pos' = pos /\ tok' = tok
  BY DEF Stay
<1>3. ASSUME ~err', Good PROVE Good'
  <2>1. GoodAt(ctl', tok, pos, decls', scopes, hist)
    BY <1>3, QuietStay DEF Good
  <2> QED
    BY <1>2, <2>1 DEF Good
<1> QED
  BY <1>1, <1>3, StepKeeps

\* The declarations stay what they are.
LEMMA FromStep ==
  ASSUME SInv, CInv', UNCHANGED <<scopes, hist>>, Lex(scopes) \/ Stay, err => err', Above(ctl'),
         ~Ends(ctl), ~Ends(ctl'), From(decls', decls),
         Good /\ ~err' /\ Stay /\ AfterClose(hist, pos) => Waits(ctl', tok)
  PROVE  SInv'
<1>1. /\ pos \in Nat /\ \A q \in 1..Len(decls) : decls[q].at \in Nat
  BY TextFacts
<1>2. Good => DeclsGood(decls, scopes, hist, pos)
  BY DEF Good, GoodAt
<1>3. CASE Lex(scopes)
  <2>1. Good => DeclsGood(decls', scopes, hist, pos + 1)
    BY <1>1, <1>2, DeclsLater, FromGood
  <2> QED
    BY <1>3, <2>1, LexStep
<1>4. CASE Stay
  <2>1. Good => DeclsGood(decls', scopes, hist, pos)
    BY <1>2, FromGood
  <2> QED
    BY <1>4, <2>1, StayStep
<1> QED
  BY <1>3, <1>4

Plains == {"unit", "compound", "block", "statement", "expr", "postfix", "else", "return", "call",
           "no call", "arguments", "more", ")", "(", ";"}

\* They are plain.
LEMMA PlainFacts ==
  ASSUME NEW r \in Seq(Plains)
  PROVE  IsSeq(r) /\ \A i \in 1..Len(r) : Plain(r[i])
<1>1. IsSeq(r)
  BY DEF IsSeq
<1>2. ASSUME NEW i \in 1..Len(r) PROVE Plain(r[i])
  <2>1. r[i] \in Plains
    OBVIOUS
  <2> QED
    BY <2>1 DEF Plains, Plain, Parts, Inner
<1> QED
  BY <1>1, <1>2

\* A statement or an expression goes on, or a declaration is over.
LEMMA PlainStep ==
  ASSUME SInv, CInv', ctl # <<>>,
         Top \notin Inner \cup Body \cup {"end of function", "begin"},
         NEW r \in Seq(Plains), ctl' = Pop(ctl) \o r,
         UNCHANGED <<scopes, hist>>, From(decls', decls), Lex(scopes) \/ Stay, err => err'
  PROVE  SInv'
<1>1. IsSeq(r) /\ \A i \in 1..Len(r) : Plain(r[i])
  BY PlainFacts
<1>2. IsSeq(ctl) /\ Above(ctl)
  BY Active, TextFacts
<1>3. Above(ctl') /\ Calm(ctl')
  BY <1>1, <1>2, AboveGoes DEF Top
<1>4. ~Ends(ctl) /\ ~Ends(ctl')
  BY <1>3 DEF Ends, Calm, Top
<1>5. Waits(ctl', tok)
  BY <1>3 DEF Waits, Calm, Inner
<1> QED
  BY <1>3, <1>4, <1>5, FromStep

\* The same declarations.
LEMMA FromSame ==
  ASSUME NEW ds
  PROVE  From(ds, ds) /\ From(<<>>, ds)
  BY DEF From

\* The short ways of going on.
LEMMA Ways ==
  /\ <<>> \in Seq(Plains)
  /\ \A a \in Plains : <<a>> \in Seq(Plains)
  /\ \A a, b \in Plains : <<a, b>> \in Seq(Plains)
  /\ \A a, b, x \in Plains : <<a, b, x>> \in Seq(Plains)
  /\ \A a, b, x, y \in Plains : <<a, b, x, y>> \in Seq(Plains)
  /\ \A a, b, x, y, z \in Plains : <<a, b, x, y, z>> \in Seq(Plains)
<1> HIDE DEF Plains
<1>1. <<>> \in Seq(Plains)
  OBVIOUS
<1>2. \A a \in Plains : <<a>> \in Seq(Plains)
  OBVIOUS
<1>3. \A a, b \in Plains : <<a, b>> \in Seq(Plains)
  OBVIOUS
<1>4. \A a, b, x \in Plains : <<a, b, x>> \in Seq(Plains)
  OBVIOUS
<1>5. \A a, b, x, y \in Plains : <<a, b, x, y>> \in Seq(Plains)
  OBVIOUS
<1>6. \A a, b, x, y, z \in Plains : <<a, b, x, y, z>> \in Seq(Plains)
  OBVIOUS
<1> QED
  BY <1>1, <1>2, <1>3, <1>4, <1>5, <1>6

\* The unit ends, or a declaration without a name does.
LEMMA UnitEndNames ==
  ASSUME SInv, CInv', UnitEnd \/ NamelessDecl
  PROVE  SInv'
<1>1. /\ ctl # <<>> /\ Top \in {"unit", "external"} /\ ctl' = Pop(ctl) \o <<>>
      /\ UNCHANGED <<scopes, hist>> /\ Stay /\ (err => err')
      /\ decls' = decls \/ (Top = "external" /\ decls' = Pop(decls))
  <2>1. CASE UnitEnd
    BY <2>1, Zenon DEF UnitEnd, Doing, Return, Then
  <2>2. CASE NamelessDecl
    BY <2>2, Zenon DEF NamelessDecl, Doing, Return, Then
  <2> QED
    BY <2>1, <2>2
<1>2. From(decls', decls)
  BY <1>1, TextFacts, DeclsHeld, FromSame
<1>3. Top \notin Inner \cup Body \cup {"end of function", "begin"}
  BY <1>1 DEF Inner, Body
<1> QED
  BY <1>1, <1>2, <1>3, Ways, PlainStep

\* A punctuation mark.
LEMMA PunctNames ==
  ASSUME SInv, CInv', ExpectPunct
  PROVE  SInv'
<1>1. /\ ctl # <<>> /\ Top \in Puncts /\ ctl' = Pop(ctl) \o <<>>
      /\ UNCHANGED <<scopes, hist>> /\ Expect(Top) /\ decls' = decls
  BY DEF ExpectPunct, Return, Then
<1>2. \A x \in Puncts : x \notin Inner \cup Body \cup {"end of function", "begin"}
  BY Zenon DEF Puncts, Inner, Body
<1>3. (Lex(scopes) \/ Stay) /\ (err => err')
  BY <1>1, TextFacts, ExpectFacts
<1>4. From(decls', decls)
  BY <1>1, FromSame
<1> QED
  BY <1>1, <1>2, <1>3, <1>4, Ways, PlainStep

\* A statement starts with a word.
LEMMA KeywordNames ==
  ASSUME SInv, CInv', KeywordStatement
  PROVE  SInv'
<1>1. /\ ctl # <<>> /\ Top = "statement" /\ ctl' = Pop(ctl) \o AfterWord(tok.k)
      /\ tok.k \in {"while", "if", "return", ";"}
      /\ UNCHANGED <<scopes, hist>> /\ Lex(scopes) /\ decls' = decls /\ err' = err
  BY DEF KeywordStatement, Doing, Then
<1>2. AfterWord(tok.k) \in Seq(Plains)
  <2>1. {"statement", ")", "expr", "(", "else", "return"} \subseteq Plains
    BY DEF Plains
  <2>2. CASE tok.k = "while"
    <3>1. AfterWord(tok.k) = <<"statement", ")", "expr", "(">>
      BY <2>2 DEF AfterWord
    <3> QED
      BY <2>1, <3>1, Ways
  <2>3. CASE tok.k = "if"
    <3>1. AfterWord(tok.k) = <<"else", "statement", ")", "expr", "(">>
      BY <2>3 DEF AfterWord
    <3> QED
      BY <2>1, <3>1, Ways
  <2>4. CASE tok.k = "return"
    <3>1. AfterWord(tok.k) = <<"return">>
      BY <2>4 DEF AfterWord
    <3> QED
      BY <2>1, <3>1, Ways
  <2>5. CASE tok.k = ";"
    <3>1. AfterWord(tok.k) = <<>>
      BY <2>5 DEF AfterWord
    <3> QED
      BY <3>1, Ways
  <2> QED
    BY <1>1, <2>2, <2>3, <2>4, <2>5
<1>3. From(decls', decls)
  BY <1>1, FromSame
<1>4. Top \notin Inner \cup Body \cup {"end of function", "begin"}
  BY <1>1 DEF Inner, Body
<1> QED
  BY <1>1, <1>2, <1>3, <1>4, PlainStep

\* Other statements, and what may come after one.
LEMMA StatementNames ==
  ASSUME SInv, CInv', BlockOrExprStatement \/ OptionalWord \/ CallDone
  PROVE  SInv'
<1>1. /\ ctl # <<>> /\ Top \in {"statement", "else", "return", "call", "no call"}
      /\ \E r \in Seq(Plains) : ctl' = Pop(ctl) \o r
      /\ UNCHANGED <<scopes, hist>> /\ (Lex(scopes) \/ Stay) /\ decls' = decls /\ (err => err')
  <2>1. {"compound", ";", "expr", "statement"} \subseteq Plains
    BY DEF Plains
  <2>2. /\ <<>> \in Seq(Plains) /\ <<"compound">> \in Seq(Plains)
        /\ <<";", "expr">> \in Seq(Plains) /\ <<"statement">> \in Seq(Plains)
    BY <2>1, Ways
  <2>3. CASE BlockOrExprStatement
    BY <2>2, <2>3, Zenon DEF BlockOrExprStatement, Doing, Then
  <2>4. CASE OptionalWord
    <3>1. \/ ctl' = Pop(ctl) \o <<"statement">> /\ Lex(scopes)
          \/ ctl' = Pop(ctl) \o <<>> /\ (Lex(scopes) \/ Stay)
          \/ ctl' = Pop(ctl) \o <<";", "expr">> /\ Stay
      BY <2>4 DEF OptionalWord, Then
    <3>2. /\ ctl # <<>> /\ Top \in {"else", "return"} /\ UNCHANGED <<scopes, hist>>
          /\ decls' = decls /\ err' = err
      BY <2>4, Zenon DEF OptionalWord, Doing
    <3> QED
      BY <2>2, <3>1, <3>2
  <2>5. CASE CallDone
    BY <2>2, <2>5, Zenon DEF CallDone, Doing, Then, Return
  <2> QED
    BY <2>3, <2>4, <2>5
<1>2. PICK r \in Seq(Plains) : ctl' = Pop(ctl) \o r
  BY <1>1
<1>4. From(decls', decls)
  BY <1>1, FromSame
<1>5. Top \notin Inner \cup Body \cup {"end of function", "begin"}
  BY <1>1 DEF Inner, Body
<1> QED
  BY <1>1, <1>2, <1>4, <1>5, PlainStep

\* Operands, and what follows one.
LEMMA OperandNames ==
  ASSUME SInv, CInv', Number \/ Paren \/ NoOperand \/ Postfix
  PROVE  SInv'
<1>1. /\ ctl # <<>> /\ Top \in {"expr", "postfix"}
      /\ \E r \in Seq(Plains) : ctl' = Pop(ctl) \o r
      /\ UNCHANGED <<scopes, hist>> /\ (Lex(scopes) \/ Stay) /\ decls' = decls /\ (err => err')
  <2>1. {"postfix", ")", "expr", "call", "no call", "arguments"} \subseteq Plains
    BY DEF Plains
  <2>2. /\ <<>> \in Seq(Plains) /\ <<"postfix">> \in Seq(Plains)
        /\ <<"postfix", ")", "expr">> \in Seq(Plains)
        /\ <<IF label THEN "call" ELSE "no call", "arguments">> \in Seq(Plains)
    BY <2>1, Ways
  <2>3. CASE Number
    BY <2>2, <2>3, Zenon DEF Number, Doing, Then
  <2>5. CASE Paren
    BY <2>2, <2>5, Zenon DEF Paren, Doing, Then
  <2>6. CASE NoOperand
    BY <2>2, <2>6, Zenon DEF NoOperand, Doing, Then
  <2>4. CASE Postfix
    <3>1. \/ ctl' = Pop(ctl) \o <<IF label THEN "call" ELSE "no call", "arguments">> /\ Lex(scopes)
          \/ ctl' = Pop(ctl) \o <<>> /\ Stay
      BY <2>4, Zenon DEF Postfix, Then, Return
    <3>2. /\ ctl # <<>> /\ Top = "postfix" /\ UNCHANGED <<scopes, hist>>
          /\ decls' = decls /\ err' = err
      BY <2>4, Zenon DEF Postfix, Doing
    <3> QED
      BY <2>2, <3>1, <3>2, Zenon
  <2> QED
    BY <2>3, <2>4, <2>5, <2>6
<1>2. PICK r \in Seq(Plains) : ctl' = Pop(ctl) \o r
  BY <1>1
<1>4. From(decls', decls)
  BY <1>1, FromSame
<1>5. Top \notin Inner \cup Body \cup {"end of function", "begin"}
  BY <1>1 DEF Inner, Body
<1> QED
  BY <1>1, <1>2, <1>4, <1>5, PlainStep

\* Arguments.
LEMMA ArgumentsNames ==
  ASSUME SInv, CInv', Arguments \/ MoreArguments
  PROVE  SInv'
<1>1. /\ ctl # <<>> /\ Top \in {"arguments", "more"}
      /\ \E r \in {<<>>, <<"more", "expr">>} : ctl' = Pop(ctl) \o r
      /\ UNCHANGED <<scopes, hist>> /\ decls' = decls
      /\ \/ (Lex(scopes) \/ Stay) /\ (err => err')
         \/ Expect(")")
  BY DEF Arguments, MoreArguments, Doing, Then, Return
<1>2. PICK r \in {<<>>, <<"more", "expr">>} : ctl' = Pop(ctl) \o r
  BY <1>1
<1>3. r \in Seq(Plains)
  <2>1. {"more", "expr"} \subseteq Plains
    BY DEF Plains
  <2> QED
    BY <1>2, <2>1, Ways
<1>4. (Lex(scopes) \/ Stay) /\ (err => err')
  BY <1>1, TextFacts, ExpectFacts
<1>5. From(decls', decls)
  BY <1>1, FromSame
<1>6. Top \notin Inner \cup Body \cup {"end of function", "begin"}
  BY <1>1 DEF Inner, Body
<1> QED
  BY <1>1, <1>2, <1>3, <1>4, <1>5, <1>6, PlainStep

-----------------------------------------------------------------------------
(* The parts of a declaration *)

\* One declaration more, that is there already or has no name.
LEMMA FromAppend ==
  ASSUME NEW ds, NEW a, IsSeq(a), From(a, ds), NEW d,
         d.name = "none" \/ \E k \in 1..Len(ds) : d.name = ds[k].name /\ d.at = ds[k].at
  PROVE  From(Append(a, d), ds) /\ IsSeq(Append(a, d))
<1> DEFINE b == Append(a, d)
<1>1. /\ IsSeq(b) /\ Len(a) \in Nat /\ Len(b) = Len(a) + 1
      /\ \A i \in 1..Len(a) : b[i] = a[i]
      /\ b[Len(a) + 1] = d
  BY AppendFacts
<1> HIDE DEF b
<1>2. ASSUME NEW q \in 1..Len(b)
      PROVE  b[q].name = "none" \/ \E k \in 1..Len(ds) : b[q].name = ds[k].name /\ b[q].at = ds[k].at
  <2>1. CASE q = Len(a) + 1
    BY <1>1, <2>1
  <2>2. CASE q # Len(a) + 1
    <3>1. q \in 1..Len(a)
      BY <1>1, <2>2
    <3>2. b[q] = a[q]
      BY <1>1, <3>1
    <3> QED
      BY <3>1, <3>2 DEF From
  <2> QED
    BY <2>1, <2>2
<1> QED
  BY <1>1, <1>2 DEF From, b

\* The first of them.
LEMMA FromSub ==
  ASSUME NEW ds, IsSeq(ds), NEW n \in 0..Len(ds)
  PROVE  From(SubSeq(ds, 1, n), ds) /\ IsSeq(SubSeq(ds, 1, n))
<1> DEFINE b == SubSeq(ds, 1, n)
<1>1. IsSeq(b) /\ Len(b) = n /\ \A i \in 1..n : b[i] = ds[i]
  BY SubSeqFacts
<1>2. Len(ds) \in Nat
  BY SeqFacts
<1> HIDE DEF b
<1>3. \A q \in 1..n : q \in 1..Len(ds)
  BY <1>2
<1> QED
  BY <1>1, <1>3 DEF From, b

\* What becomes of the declarations held.
LEMMA FromParts ==
  ASSUME SInv, Len(decls) >= 1
  PROVE  /\ D \in AllDecls
         /\ \A d : d.name = "none" \/ (d.name = D.name /\ d.at = D.at)
                     => From(Append(Pop(decls), d), decls)
         /\ From(Append(decls, NoDecl), decls)
         /\ Len(decls) >= 2 =>
              /\ Outer \in AllDecls
              /\ \A d : d.name = Outer.name /\ d.at = Outer.at
                     => /\ From(Append(SubSeq(decls, 1, Len(decls) - 2), d), decls)
                        /\ From(Append(SubSeq(decls, 1, Len(decls) - 2), d) \o <<NoDecl>>, decls)
<1>1. /\ decls \in Seq(AllDecls) /\ Len(decls) \in Nat /\ IsSeq(decls)
  BY TextFacts
<1>2. D \in AllDecls /\ (Len(decls) >= 2 => Outer \in AllDecls)
  BY <1>1, DeclsFacts
<1>3. NoDecl.name = "none"
  BY DEF NoDecl
<1>4. From(Pop(decls), decls) /\ IsSeq(Pop(decls))
  <2>1. Len(decls) - 1 \in 0..Len(decls)
    BY <1>1
  <2> QED
    BY <1>1, <2>1, FromSub DEF Pop
<1>5. ASSUME NEW d, d.name = "none" \/ (d.name = D.name /\ d.at = D.at)
      PROVE  From(Append(Pop(decls), d), decls)
  <2>1. Len(decls) \in 1..Len(decls)
    BY <1>1
  <2>2. d.name = "none" \/ \E k \in 1..Len(decls) : d.name = decls[k].name /\ d.at = decls[k].at
    BY <1>5, <2>1 DEF D
  <2> QED
    BY <1>4, <2>2, FromAppend
<1>6. From(Append(decls, NoDecl), decls)
  BY <1>1, <1>3, FromSame, FromAppend
<1>7. ASSUME Len(decls) >= 2, NEW d, d.name = Outer.name /\ d.at = Outer.at
      PROVE  /\ From(Append(SubSeq(decls, 1, Len(decls) - 2), d), decls)
             /\ From(Append(SubSeq(decls, 1, Len(decls) - 2), d) \o <<NoDecl>>, decls)
  <2> DEFINE a == SubSeq(decls, 1, Len(decls) - 2)
             b == Append(a, d)
  <2>1. From(a, decls) /\ IsSeq(a)
    <3>1. Len(decls) - 2 \in 0..Len(decls)
      BY <1>1, <1>7
    <3> QED
      BY <1>1, <3>1, FromSub
  <2>2. Len(decls) - 1 \in 1..Len(decls)
    BY <1>1, <1>7
  <2>3. \E k \in 1..Len(decls) : d.name = decls[k].name /\ d.at = decls[k].at
    BY <1>7, <2>2 DEF Outer
  <2> HIDE DEF a
  <2>4. From(b, decls) /\ IsSeq(b)
    BY <2>1, <2>3, FromAppend
  <2> HIDE DEF b
  <2>5. From(Append(b, NoDecl), decls)
    BY <1>3, <2>4, FromAppend
  <2>6. b \o <<NoDecl>> = Append(b, NoDecl)
    BY <2>4, Joined
  <2> QED
    BY <2>4, <2>5, <2>6 DEF a, b
<1> QED
  BY <1>2, <1>5, <1>6, <1>7

\* A part of a declaration goes on.
LEMMA InnerStep ==
  ASSUME SInv, CInv', ctl # <<>>, Top \in Inner,
         ctl' = ctl \/ \E r \in Seq(Inner) : ctl' = Pop(ctl) \o r,
         UNCHANGED <<scopes, hist>>, From(decls', decls), err => err',
         Lex(scopes) \/ Stay,
         Good /\ ~err' /\ ~Lex(scopes) /\ AfterClose(hist, pos) => Waits(ctl', tok)
  PROVE  SInv'
<1>1. Top # "begin" /\ Top # "end of function"
  BY DEF Inner
<1>2. IsSeq(ctl) /\ Above(ctl) /\ pos \in Nat
  BY <1>1, Active, TextFacts
<1>3. Above(ctl') /\ ~Ends(ctl')
  <2>1. CASE ctl' = ctl
    BY <1>1, <1>2, <2>1 DEF Ends, Top
  <2>2. CASE \E r \in Seq(Inner) : ctl' = Pop(ctl) \o r
    <3>1. PICK r \in Seq(Inner) : ctl' = Pop(ctl) \o r
      BY <2>2
    <3>2. IsSeq(r) /\ \A i \in 1..Len(r) : r[i] \in Inner
      BY DEF IsSeq
    <3> QED
      BY <1>2, <3>1, <3>2, AboveInner DEF Top
  <2> QED
    BY <2>1, <2>2
<1>4. ~Ends(ctl)
  BY <1>1 DEF Ends, Top
<1>5. Stay => ~Lex(scopes)
  <2>1. Lex(scopes) => pos' = pos + 1
    BY TextFacts, LexFacts
  <2>2. Stay => pos' = pos
    BY DEF Stay
  <2> QED
    BY <1>2, <2>1, <2>2
<1> QED
  BY <1>3, <1>4, <1>5, FromStep

\* The short ways of going on.
LEMMA InnerWays ==
  /\ <<>> \in Seq(Inner)
  /\ \A a \in Inner : <<a>> \in Seq(Inner)
  /\ \A a, b \in Inner : <<a, b>> \in Seq(Inner)
  /\ \A a, b, x \in Inner : <<a, b, x>> \in Seq(Inner)
<1> HIDE DEF Inner
<1>1. <<>> \in Seq(Inner)
  OBVIOUS
<1>2. \A a \in Inner : <<a>> \in Seq(Inner)
  OBVIOUS
<1>3. \A a, b \in Inner : <<a, b>> \in Seq(Inner)
  OBVIOUS
<1>4. \A a, b, x \in Inner : <<a, b, x>> \in Seq(Inner)
  OBVIOUS
<1> QED
  BY <1>1, <1>2, <1>3, <1>4

\* Under a part of a declaration that is over.
LEMMA UnderPart ==
  ASSUME SInv, ctl # <<>>, Top \in Inner
  PROVE  /\ Len(decls) >= 1 /\ Len(decls) \in Nat
         /\ Top \in {"param", "(void)"} => Len(decls) >= 2
         /\ ctl' = Pop(ctl) \o <<>> => /\ ctl' = Pop(ctl) /\ ctl'[Len(ctl')] = ctl[Len(ctl) - 1]
                                       /\ Follows(ctl'[Len(ctl')], Top)
<1>1. Top # "begin" /\ Top # "unit"
  BY DEF Inner
<1>2. Stack(ctl) /\ IsSeq(ctl) /\ Len(decls) = Decls(ctl) /\ Decls(ctl) \in Nat
  BY <1>1, Active, TextFacts
<1>3. /\ Top \in DeclMarks \cup {"declarator", "suffix", "params", "declspec"} => Decls(ctl) >= 1
      /\ Top \in {"param", "(void)"} => Decls(ctl) >= 2
  BY <1>2, DeclsThere DEF Top
<1>4. Top \in DeclMarks \cup {"declarator", "suffix", "params", "declspec"}
  BY DEF Inner, DeclMarks
<1>5. /\ Pop(ctl)[Len(Pop(ctl))] = ctl[Len(ctl) - 1] /\ Follows(ctl[Len(ctl) - 1], Top)
      /\ IsSeq(Pop(ctl))
  BY <1>1, <1>2, StackTop DEF Top, Stack
<1>6. Pop(ctl) \o <<>> = Pop(ctl)
  BY <1>5, OneMore
<1> QED
  BY <1>2, <1>3, <1>4, <1>5, <1>6

\* A specifier, or a star.
LEMMA SpecWordNames ==
  ASSUME SInv, CInv', SpecWord \/ Star
  PROVE  SInv'
<1>1. /\ ctl # <<>> /\ Top \in {"declspec", "declarator"} /\ ctl' = ctl
      /\ UNCHANGED <<scopes, hist>> /\ Lex(scopes) /\ err' = err
      /\ \/ SetD([D EXCEPT !.td = @ \/ tok.k = "typedef",
                           !.saw = @ \cup ({tok.k} \cap TypeWords)])
         \/ SetD([D EXCEPT !.type = Type("ptr")])
  <2>1. CASE SpecWord
    BY <2>1, Zenon DEF SpecWord, Doing
  <2>2. CASE Star
    BY <2>2, Zenon DEF Star, Doing
  <2> QED
    BY <2>1, <2>2
<1>2. Top \in Inner
  BY <1>1 DEF Inner
<1>3. Len(decls) >= 1
  BY <1>1, <1>2, UnderPart
<1>4. D \in AllDecls /\ \A d : d.name = D.name /\ d.at = D.at => From(Append(Pop(decls), d), decls)
  BY <1>3, FromParts
<1>5. From(decls', decls)
  <2>1. CASE SetD([D EXCEPT !.td = @ \/ tok.k = "typedef",
                            !.saw = @ \cup ({tok.k} \cap TypeWords)])
    <3> DEFINE d == [D EXCEPT !.td = @ \/ tok.k = "typedef",
                              !.saw = @ \cup ({tok.k} \cap TypeWords)]
    <3>1. d.name = D.name /\ d.at = D.at
      BY <1>4 DEF AllDecls
    <3>2. decls' = Append(Pop(decls), d)
      BY <2>1 DEF SetD
    <3> HIDE DEF d
    <3> QED
      BY <1>4, <3>1, <3>2
  <2>2. CASE SetD([D EXCEPT !.type = Type("ptr")])
    <3> DEFINE d == [D EXCEPT !.type = Type("ptr")]
    <3>1. d.name = D.name /\ d.at = D.at
      BY <1>4 DEF AllDecls
    <3>2. decls' = Append(Pop(decls), d)
      BY <2>2 DEF SetD
    <3> HIDE DEF d
    <3> QED
      BY <1>4, <3>1, <3>2
  <2> QED
    BY <1>1, <2>1, <2>2
<1> QED
  BY <1>1, <1>2, <1>5, InnerStep

\* The specifiers end.
LEMMA SpecEndNames ==
  ASSUME SInv, CInv', SpecName \/ SpecEnd
  PROVE  SInv'
<1>1. /\ ctl # <<>> /\ Top = "declspec" /\ ctl' = Pop(ctl) \o <<>>
      /\ UNCHANGED <<scopes, hist>> /\ (Lex(scopes) \/ Stay) /\ err' = err
      /\ \E y : SetD([D EXCEPT !.type = y])
  <2>1. CASE SpecName
    BY <2>1, Zenon DEF SpecName, Doing, Return, Then
  <2>2. CASE SpecEnd
    BY <2>2, Zenon DEF SpecEnd, Doing, Return, Then
  <2> QED
    BY <2>1, <2>2
<1>2. Top \in Inner
  BY <1>1 DEF Inner
<1>3. Len(decls) >= 1 /\ ctl' = Pop(ctl) /\ Follows(ctl'[Len(ctl')], Top)
  BY <1>1, <1>2, UnderPart
<1>4. D \in AllDecls /\ \A d : d.name = D.name /\ d.at = D.at => From(Append(Pop(decls), d), decls)
  BY <1>3, FromParts
<1>5. From(decls', decls)
  <2>1. PICK y : SetD([D EXCEPT !.type = y])
    BY <1>1
  <2> DEFINE d == [D EXCEPT !.type = y]
  <2>2. d.name = D.name /\ d.at = D.at
    BY <1>4 DEF AllDecls
  <2>3. decls' = Append(Pop(decls), d)
    BY <2>1 DEF SetD
  <2> HIDE DEF d
  <2> QED
    BY <1>4, <2>2, <2>3
<1>6. ASSUME Good, AfterClose(hist, pos) PROVE Waits(ctl', tok)
  <2>1. Waits(ctl, tok)
    BY <1>6 DEF Good, GoodAt
  <2>2. tok.k \in DeclWords
    BY <1>1, <2>1 DEF Waits, Top
  <2>3. ctl'[Len(ctl')] \in {"declarator", "(void)"}
    BY <1>1, <1>3 DEF Follows
  <2> QED
    BY <2>2, <2>3 DEF Waits
<1>7. \E r \in Seq(Inner) : ctl' = Pop(ctl) \o r
  BY <1>1, InnerWays
<1> QED
  BY <1>1, <1>2, <1>5, <1>6, <1>7, InnerStep

\* The name that is declared: it is no type, and no block ended just before it.
LEMMA DeclNameNames ==
  ASSUME SInv, CInv', DeclName
  PROVE  SInv'
<1>1. /\ ctl # <<>> /\ Top = "declarator" /\ ctl' = Pop(ctl) \o <<"suffix">>
      /\ UNCHANGED <<scopes, hist>> /\ Lex(scopes) /\ err' = err /\ tok.k = "ident"
      /\ decls' = Append(Pop(decls), [D EXCEPT !.name = tok.n, !.at = pos])
  BY Zenon DEF DeclName, Doing, Then, SetD
<1>2. Top \in Inner /\ Top # "begin"
  BY <1>1 DEF Inner
<1>3. Len(decls) >= 1 /\ D \in AllDecls
  BY <1>1, <1>2, UnderPart, FromParts
<1>4. /\ pos \in Nat /\ IsSeq(ctl) /\ Above(ctl) /\ tok.n \in Names /\ History(hist)
      /\ IsSeq(decls) /\ decls # <<>> /\ Len(decls) \in Nat
      /\ \A q \in 1..Len(decls) : decls[q].at \in Nat
  <2>1. decls # <<>>
    BY <1>3, SeqFacts
  <2> QED
    BY <1>1, <1>2, <2>1, TextFacts, Active DEF Kinds
<1> DEFINE d == [D EXCEPT !.name = tok.n, !.at = pos]
<1>5. d.name = tok.n /\ d.at = pos
  BY <1>3 DEF AllDecls
<1>6. Above(ctl') /\ ~Ends(ctl')
  <2> DEFINE r == <<"suffix">>
  <2>1. IsSeq(r) /\ \A i \in 1..Len(r) : r[i] \in Inner
    <3>1. "suffix" \in Inner
      BY DEF Inner
    <3>2. r \in Seq(Inner)
      BY <3>1, InnerWays
    <3> HIDE DEF r
    <3> QED
      BY <3>2 DEF IsSeq
  <2> HIDE DEF r
  <2>2. ctl' = Pop(ctl) \o r
    BY <1>1 DEF r
  <2> QED
    BY <1>1, <1>2, <1>4, <2>1, <2>2, AboveInner DEF Top
<1>7. ~Ends(ctl)
  BY <1>1 DEF Ends, Top
<1>8. ASSUME Good PROVE DeclsGood(decls', scopes, hist, pos + 1)
  <2>1. /\ AfterClose(hist, pos) => Waits(ctl, tok)
        /\ AfterClose(hist, pos) \/ Spelled(tok, scopes)
        /\ OldClose(hist, pos) /\ DeclsGood(decls, scopes, hist, pos)
    BY <1>8 DEF Good, GoodAt
  <2>2. ~AfterClose(hist, pos)
    <3>1. tok.k \notin DeclWords
      BY <1>1 DEF DeclWords
    <3> QED
      BY <1>1, <2>1, <3>1 DEF Waits, Top
  <2>3. Lookup(scopes, tok.n).k # "typedef"
    BY <1>1, <1>4, <2>1, <2>2, NamesAssumption DEF Spelled
  <2>4. DeclGood(d, scopes, hist, pos + 1)
    <3>1. pos < pos + 1
      BY <1>4
    <3>2. Closes(hist) => hist[Len(hist)].at + 1 <= pos
      BY <2>1 DEF OldClose
    <3> QED
      BY <1>5, <2>3, <3>1, <3>2 DEF DeclGood
  <2>5. DeclsGood(decls, scopes, hist, pos + 1)
    BY <1>4, <2>1, DeclsLater
  <2> HIDE DEF d
  <2>6. /\ Len(decls') = Len(decls) /\ decls'[Len(decls)] = d
        /\ \A i \in 1..(Len(decls) - 1) : decls'[i] = decls[i]
    <3>1. decls' = Replaced(decls, d)
      BY <1>1 DEF Replaced, Butlast, Pop, d
    <3> QED
      BY <1>4, <3>1, ReplaceFacts
  <2>7. ASSUME NEW q \in 1..Len(decls') PROVE DeclGood(decls'[q], scopes, hist, pos + 1)
    <3>1. CASE q = Len(decls)
      BY <2>4, <2>6, <3>1
    <3>2. CASE q # Len(decls)
      <4>1. q \in 1..(Len(decls) - 1) /\ q \in 1..Len(decls)
        BY <1>4, <2>6, <3>2
      <4> QED
        BY <2>5, <2>6, <4>1 DEF DeclsGood
    <3> QED
      BY <3>1, <3>2
  <2> QED
    BY <2>7 DEF DeclsGood
<1> QED
  BY <1>1, <1>6, <1>7, <1>8, LexStep

\* No name, or no suffix.
LEMMA NoNameNames ==
  ASSUME SInv, CInv', NoName \/ FuncSuffix \/ NoSuffix
  PROVE  SInv'
<1>1. /\ ctl # <<>> /\ Top \in {"declarator", "suffix"}
      /\ UNCHANGED <<scopes, hist>> /\ decls' = decls /\ (err => err')
      /\ \/ ctl' = Pop(ctl) \o <<"suffix">> /\ err' = TRUE /\ Stay
         \/ ctl' = Pop(ctl) \o <<"params">> /\ Lex(scopes)
         \/ ctl' = Pop(ctl) \o <<>> /\ Stay /\ Top = "suffix"
  <2>1. CASE NoName
    BY <2>1, Zenon DEF NoName, Doing, Then
  <2>2. CASE FuncSuffix
    BY <2>2, Zenon DEF FuncSuffix, Doing, Then
  <2>3. CASE NoSuffix
    BY <2>3, Zenon DEF NoSuffix, Doing, Return, Then
  <2> QED
    BY <2>1, <2>2, <2>3
<1>2. Top \in Inner
  BY <1>1 DEF Inner
<1>3. \E r \in Seq(Inner) : ctl' = Pop(ctl) \o r
  <2>1. "suffix" \in Inner /\ "params" \in Inner
    BY DEF Inner
  <2>2. <<>> \in Seq(Inner) /\ <<"suffix">> \in Seq(Inner) /\ <<"params">> \in Seq(Inner)
    BY <2>1, InnerWays
  <2> QED
    BY <1>1, <2>2
<1>4. ASSUME ~err', ~Lex(scopes) PROVE Waits(ctl', tok)
  <2>1. ctl' = Pop(ctl) \o <<>> /\ Top = "suffix"
    BY <1>1, <1>4
  <2>2. Follows(ctl'[Len(ctl')], Top)
    BY <1>1, <1>2, <2>1, UnderPart
  <2>3. ctl'[Len(ctl')] \in DeclMarks
    BY <2>1, <2>2 DEF Follows
  <2> QED
    BY <2>3 DEF Waits, DeclMarks
<1>5. From(decls', decls)
  BY <1>1, FromSame
<1>6. Lex(scopes) \/ Stay
  BY <1>1
<1> QED
  BY <1>1, <1>2, <1>3, <1>4, <1>5, <1>6, InnerStep

\* A list of parameters starts, and maybe ends.
LEMMA ParamsNames ==
  ASSUME SInv, CInv', EmptyParams \/ VoidParam \/ FirstParam
  PROVE  SInv'
<1>1. /\ ctl # <<>> /\ Top = "params" /\ UNCHANGED <<scopes, hist>> /\ err' = err
      /\ \/ /\ ctl' = Pop(ctl) \o <<>> /\ Lex(scopes)
            /\ decls' = Append(Pop(decls), [D EXCEPT !.type = Func(<<>>)])
         \/ /\ ctl' = Pop(ctl) \o <<"(void)", "declspec">> /\ Stay
            /\ decls' = Append(decls, NoDecl)
         \/ /\ ctl' = Pop(ctl) \o <<"param", "declarator", "declspec">> /\ Stay
            /\ decls' = Append(decls, NoDecl)
  <2>1. CASE EmptyParams
    BY <2>1, Zenon DEF EmptyParams, Doing, Return, Then, SetD
  <2>2. CASE VoidParam
    BY <2>2, Zenon DEF VoidParam, Doing, Then
  <2>3. CASE FirstParam
    BY <2>3, Zenon DEF FirstParam, Doing, Then
  <2> QED
    BY <2>1, <2>2, <2>3
<1>2. Top \in Inner
  BY <1>1 DEF Inner
<1>3. \E r \in Seq(Inner) : ctl' = Pop(ctl) \o r
  <2>1. {"(void)", "declspec", "param", "declarator"} \subseteq Inner
    BY DEF Inner
  <2>2. /\ <<>> \in Seq(Inner) /\ <<"(void)", "declspec">> \in Seq(Inner)
        /\ <<"param", "declarator", "declspec">> \in Seq(Inner)
    BY <2>1, InnerWays
  <2> QED
    BY <1>1, <2>2
<1>4. /\ D \in AllDecls /\ From(Append(decls, NoDecl), decls)
      /\ \A d : d.name = D.name /\ d.at = D.at => From(Append(Pop(decls), d), decls)
  <2>1. Len(decls) >= 1
    BY <1>1, <1>2, UnderPart
  <2> QED
    BY <2>1, FromParts
<1>5. From(decls', decls)
  <2> DEFINE d == [D EXCEPT !.type = Func(<<>>)]
  <2>1. d.name = D.name /\ d.at = D.at
    BY <1>4 DEF AllDecls
  <2> HIDE DEF d
  <2>2. From(Append(Pop(decls), d), decls)
    BY <1>4, <2>1
  <2> QED
    BY <1>1, <1>4, <2>2 DEF d
<1>6. Good => ~AfterClose(hist, pos)
  BY <1>1 DEF Good, GoodAt, Waits, Top
<1>7. Lex(scopes) \/ Stay
  BY <1>1
<1> QED
  BY <1>1, <1>2, <1>3, <1>5, <1>6, <1>7, InnerStep

\* A parameter is parsed.
LEMMA ParamNames ==
  ASSUME SInv, CInv', VoidParams \/ Param
  PROVE  SInv'
<1>1. /\ ctl # <<>> /\ Top \in {"(void)", "param"} /\ UNCHANGED <<scopes, hist>>
      /\ \/ /\ ctl' = Pop(ctl) \o <<>> /\ Lex(scopes) /\ err' = err
            /\ SetOuter([Outer EXCEPT !.type = Func(<<>>)])
         \/ /\ ctl' = Pop(ctl) \o <<"param", "declarator", "declspec">> /\ Stay /\ err' = TRUE
            /\ decls' = Append(Pop(decls), NoDecl)
         \/ /\ ctl' = Pop(ctl) \o <<"param", "declarator", "declspec">> /\ Lex(scopes) /\ err' = err
            /\ \E y : decls' = Append(SubSeq(decls, 1, Len(decls) - 2), [Outer EXCEPT !.ps = y])
                               \o <<NoDecl>>
         \/ /\ ctl' = Pop(ctl) \o <<>> /\ Expect(")")
            /\ \E y : SetOuter([Outer EXCEPT !.type = y])
  <2>1. CASE VoidParams
    <3>1. ctl # <<>> /\ Top = "(void)" /\ UNCHANGED <<scopes, hist>>
      BY <2>1, Zenon DEF VoidParams, Doing
    <3>2. \/ /\ ctl' = Pop(ctl) \o <<>> /\ Lex(scopes) /\ err' = err
             /\ SetOuter([Outer EXCEPT !.type = Func(<<>>)])
          \/ /\ ctl' = Pop(ctl) \o <<"param", "declarator", "declspec">> /\ Stay /\ err' = TRUE
             /\ decls' = Append(Pop(decls), NoDecl)
      <4>1. CASE D.type.k = "void" /\ tok.k = ")"
        BY <2>1, <4>1, Zenon DEF VoidParams, Return, Then
      <4>2. CASE ~(D.type.k = "void" /\ tok.k = ")")
        BY <2>1, <4>2, Zenon DEF VoidParams, Then, SetD
      <4> QED
        BY <4>1, <4>2
    <3> QED
      BY <3>1, <3>2, Zenon
  <2>2. CASE Param
    <3>1. ctl # <<>> /\ Top = "param" /\ UNCHANGED <<scopes, hist>>
      BY <2>2, Zenon DEF Param, Doing
    <3> DEFINE ps == Append(Outer.ps, [n |-> D.name, at |-> D.at])
    <3>2. CASE tok.k = ","
      BY <2>2, <3>1, <3>2, Zenon DEF Param, Then
    <3>3. CASE tok.k # ","
      BY <2>2, <3>1, <3>3, Zenon DEF Param, Return, Then
    <3> QED
      BY <3>2, <3>3
  <2> QED
    BY <2>1, <2>2
<1>2. Top \in Inner
  BY <1>1 DEF Inner
<1>3. \E r \in Seq(Inner) : ctl' = Pop(ctl) \o r
  <2>1. {"param", "declarator", "declspec"} \subseteq Inner
    BY DEF Inner
  <2>2. <<>> \in Seq(Inner) /\ <<"param", "declarator", "declspec">> \in Seq(Inner)
    BY <2>1, InnerWays
  <2> QED
    BY <1>1, <2>2
<1>4. /\ D \in AllDecls /\ Outer \in AllDecls
      /\ \A d : d.name = "none" => From(Append(Pop(decls), d), decls)
      /\ \A d : d.name = Outer.name /\ d.at = Outer.at
           => /\ From(Append(SubSeq(decls, 1, Len(decls) - 2), d), decls)
              /\ From(Append(SubSeq(decls, 1, Len(decls) - 2), d) \o <<NoDecl>>, decls)
  <2>1. Len(decls) >= 1 /\ Len(decls) >= 2
    BY <1>1, <1>2, UnderPart
  <2> QED
    BY <2>1, FromParts
<1>5. (Lex(scopes) \/ Stay) /\ (err => err') /\ (~err' => Lex(scopes))
  BY <1>1, TextFacts, ExpectFacts
<1>6. From(decls', decls)
  <2>1. \A y : /\ [Outer EXCEPT !.type = y].name = Outer.name
               /\ [Outer EXCEPT !.type = y].at = Outer.at
               /\ [Outer EXCEPT !.ps = y].name = Outer.name
               /\ [Outer EXCEPT !.ps = y].at = Outer.at
    BY <1>4 DEF AllDecls
  <2>2. CASE \E y : SetOuter([Outer EXCEPT !.type = y])
    <3>1. PICK y : SetOuter([Outer EXCEPT !.type = y])
      BY <2>2
    <3> DEFINE d == [Outer EXCEPT !.type = y]
    <3>2. decls' = Append(SubSeq(decls, 1, Len(decls) - 2), d)
      BY <3>1 DEF SetOuter
    <3>3. d.name = Outer.name /\ d.at = Outer.at
      BY <2>1
    <3> HIDE DEF d
    <3> QED
      BY <1>4, <3>2, <3>3
  <2>3. CASE decls' = Append(Pop(decls), NoDecl)
    BY <1>4, <2>3 DEF NoDecl
  <2>4. CASE \E y : decls' = Append(SubSeq(decls, 1, Len(decls) - 2), [Outer EXCEPT !.ps = y])
                             \o <<NoDecl>>
    <3>1. PICK y : decls' = Append(SubSeq(decls, 1, Len(decls) - 2), [Outer EXCEPT !.ps = y])
                            \o <<NoDecl>>
      BY <2>4
    <3> DEFINE d == [Outer EXCEPT !.ps = y]
    <3>2. decls' = Append(SubSeq(decls, 1, Len(decls) - 2), d) \o <<NoDecl>>
      BY <3>1
    <3>3. d.name = Outer.name /\ d.at = Outer.at
      BY <2>1
    <3> HIDE DEF d
    <3> QED
      BY <1>4, <3>2, <3>3
  <2> QED
    BY <1>1, <2>2, <2>3, <2>4
<1> QED
  BY <1>1, <1>2, <1>3, <1>5, <1>6, InnerStep

\* The unit starts.
LEMMA BeginNames ==
  ASSUME SInv, CInv', Begin
  PROVE  SInv'
<1>1. /\ ctl # <<>> /\ Top = "begin" /\ ctl' = Pop(ctl) \o <<"unit">>
      /\ UNCHANGED <<scopes, hist>> /\ Lex(scopes) /\ decls' = decls /\ err' = err
  BY Zenon DEF Begin, Doing, Then
<1>2. IsSeq(ctl) /\ Above(ctl)
  <2>1. ctl = <<"begin">>
    <3> SUFFICES ASSUME ctl # <<"begin">> PROVE FALSE
      OBVIOUS
    <3>1. Stack(ctl)
      BY TextFacts DEF CInv, CountsInv
    <3>2. Len(ctl) = 1 \/ (Len(ctl) > 1 /\ Len(ctl) \in Nat)
      <4>1. Len(ctl) \in Nat /\ Len(ctl) # 0
        BY <1>1, <3>1, SeqFacts DEF Stack
      <4>2. \A n \in Nat : n # 0 => n = 1 \/ n > 1
        OBVIOUS
      <4> QED
        BY <4>1, <4>2, Zenon
    <3>3. CASE Len(ctl) = 1
      BY <1>1, <3>1, <3>3 DEF Stack, Top
    <3>4. CASE Len(ctl) > 1 /\ Len(ctl) \in Nat
      <4>1. Len(ctl) \in 2..Len(ctl)
        BY <3>4
      <4>2. Follows(ctl[Len(ctl) - 1], ctl[Len(ctl)])
        BY <3>1, <4>1 DEF Stack
      <4> QED
        BY <1>1, <4>2, Zenon DEF Follows, Top
    <3> QED
      BY <3>2, <3>3, <3>4
  <2>2. <<"begin">> \in Seq({"begin"})
    OBVIOUS
  <2> QED
    BY <2>1, <2>2, TextFacts DEF IsSeq
<1>3. Top \notin Inner \cup Body /\ Top # "end of function"
  BY <1>1 DEF Inner, Body
<1>4. Above(ctl') /\ Calm(ctl')
  <2> DEFINE r == <<"unit">>
  <2>1. IsSeq(r) /\ \A i \in 1..Len(r) : Plain(r[i])
    <3>1. "unit" \in Plains
      BY DEF Plains
    <3>2. r \in Seq(Plains)
      BY <3>1, Ways
    <3> HIDE DEF r
    <3> QED
      BY <3>2, PlainFacts
  <2> HIDE DEF r
  <2>2. ctl' = Pop(ctl) \o r
    BY <1>1 DEF r
  <2> QED
    BY <1>1, <1>2, <1>3, <2>1, <2>2, AboveGoes DEF Top
<1>5. ~Ends(ctl) /\ ~Ends(ctl') /\ Waits(ctl', tok)
  BY <1>3, <1>4 DEF Ends, Calm, Waits, Inner, Top
<1>6. From(decls', decls)
  BY <1>1, FromSame
<1> QED
  BY <1>1, <1>4, <1>5, <1>6, FromStep

\* How a declaration starts.
LEMMA StartedAs ==
  ASSUME NEW c, IsSeq(c), NEW x, NEW a, NEW b
  PROVE  (c \o <<x>>) \o <<a, b>> = c \o <<x, a, b>>
<1>1. c \o <<x>> = Append(c, x) /\ c \o <<x, a, b>> = Append(Append(Append(c, x), a), b)
  <2>1. c \o <<x>> = Append(c, x)
    BY Joined
  <2>2. c \o <<x, a, b>> = Append(Append(Append(c, x), a), b)
    BY Joined
  <2> QED
    BY <2>1, <2>2
<1>2. IsSeq(Append(c, x))
  BY AppendFacts
<1>3. Append(c, x) \o <<a, b>> = Append(Append(Append(c, x), a), b)
  BY <1>2, Joined
<1> QED
  BY <1>1, <1>3

\* A declaration starts, or a statement.
LEMMA StartNames ==
  ASSUME SInv, CInv', ExternalDecl \/ LocalDecl \/ BlockStatement
  PROVE  SInv'
<1>1. /\ ctl # <<>> /\ Top \in {"unit", "block"} /\ UNCHANGED <<scopes, hist>> /\ Stay /\ err' = err
      /\ \/ /\ ctl' = ctl \o <<"external", "declarator", "declspec">> /\ Top = "unit"
            /\ tok.k \in DeclWords /\ decls' = Append(decls, NoDecl)
         \/ /\ ctl' = ctl \o <<"local", "declarator", "declspec">>
            /\ tok.k \in DeclWords /\ decls' = Append(decls, NoDecl)
         \/ ctl' = ctl \o <<"statement">> /\ decls' = decls
  <2>0. IsSeq(ctl)
    <3> SUFFICES ASSUME ctl # <<"begin">> PROVE IsSeq(ctl)
      <4>1. <<"begin">> \in Seq({"begin"})
        OBVIOUS
      <4> QED
        BY <4>1 DEF IsSeq
    <3> QED
      BY TextFacts DEF CInv, CountsInv, Stack
  <2>1. CASE ExternalDecl
    <3>2. ctl' = (ctl \o <<"external">>) \o <<"declarator", "declspec">>
      BY <2>1, Zenon DEF ExternalDecl, StartDecl
    <3>4. ctl' = ctl \o <<"external", "declarator", "declspec">>
      BY <2>0, <3>2, StartedAs
    <3> QED
      BY <2>1, <3>4, Zenon DEF ExternalDecl, StartDecl, Doing
  <2>2. CASE LocalDecl
    <3>2. ctl' = (ctl \o <<"local">>) \o <<"declarator", "declspec">>
      BY <2>2, Zenon DEF LocalDecl, StartDecl
    <3>4. ctl' = ctl \o <<"local", "declarator", "declspec">>
      BY <2>0, <3>2, StartedAs
    <3> QED
      BY <2>2, <3>4, Zenon DEF LocalDecl, StartDecl, Doing
  <2>3. CASE BlockStatement
    <3>1. ctl \o <<"statement">> = Append(ctl, "statement")
      BY <2>0, Joined
    <3> QED
      BY <2>3, <3>1, Zenon DEF BlockStatement, Doing
  <2> QED
    BY <2>1, <2>2, <2>3
<1>2. IsSeq(ctl) /\ Above(ctl) /\ ctl[Len(ctl)] = Top /\ IsSeq(decls)
  BY <1>1, Active, TextFacts DEF Top
<1>3. PICK r : /\ r \in {<<"external", "declarator", "declspec">>, <<"local", "declarator", "declspec">>,
                         <<"statement">>}
               /\ ctl' = ctl \o r
               /\ r = <<"external", "declarator", "declspec">> => Top = "unit"
  <2>1. <<"external", "declarator", "declspec">> # <<"statement">>
        /\ <<"external", "declarator", "declspec">> # <<"local", "declarator", "declspec">>
    OBVIOUS
  <2> QED
    BY <1>1, <2>1
<1>4. /\ IsSeq(r) /\ Len(r) \in {1, 3} /\ r[1] \in {"external", "local", "statement"}
      /\ r[Len(r)] \in {"declspec", "statement"} /\ (r[1] = "external" => Top = "unit")
      /\ Len(r) = 1 => r[1] = "statement"
      /\ Len(r) = 3 => r[2] = "declarator" /\ r[3] = "declspec"
  <2>1. IsSeq(r)
    <3>1. /\ <<"external", "declarator", "declspec">> \in Seq({"external", "declarator", "declspec"})
          /\ <<"local", "declarator", "declspec">> \in Seq({"local", "declarator", "declspec"})
          /\ <<"statement">> \in Seq({"statement"})
      OBVIOUS
    <3> QED
      BY <1>3, <3>1, Zenon DEF IsSeq
  <2> QED
    BY <1>3, <2>1
<1>5. Above(r) /\ r # <<>>
  <2>1. r # <<>>
    BY <1>4, SeqFacts
  <2>2. CASE Len(r) = 1
    BY <1>4, <2>2 DEF Above
  <2>3. CASE Len(r) = 3
    <3>1. r[2] \in Inner /\ r[3] \in Inner
      BY <1>4, <2>3 DEF Inner
    <3>2. \A i, j \in 1..3 : i < j => j = 2 \/ j = 3
      OBVIOUS
    <3>3. \A i, j \in 1..3 : i < j => r[j] \in Inner
      BY <3>1, <3>2
    <3>4. \A i \in 2..3 : r[i] \in Inner /\ i - 1 \in 1..2
      BY <3>1
    <3>5. r[1] # "end of function" /\ r[2] # "end of function"
      BY <1>4, <2>3
    <3>6. \A i \in 2..3 : Fine(r[i - 1], r[i])
      <4>1. "external" \notin Inner
        BY DEF Inner
      <4>2. \A i \in 1..2 : r[i] # "end of function"
        <5>1. \A i \in 1..2 : i = 1 \/ i = 2
          OBVIOUS
        <5> QED
          BY <3>5, <5>1
      <4> QED
        BY <3>4, <4>1, <4>2 DEF Fine
    <3> QED
      BY <2>3, <3>3, <3>6 DEF Above
  <2> QED
    BY <1>4, <2>1, <2>2, <2>3
<1>6. Above(ctl') /\ ~Ends(ctl') /\ (ctl'[Len(ctl')] # "declspec" => ctl'[Len(ctl')] = "statement")
  <2>1. Top \notin Parts \cup {"end of function"}
    BY <1>1 DEF Parts, Inner
  <2>2. ctl'[Len(ctl')] = r[Len(r)]
    BY <1>2, <1>3, <1>4, <1>5, JoinedLast
  <2>3. Above(ctl')
    BY <1>1, <1>2, <1>3, <1>4, <1>5, <2>1, AbovePush
  <2> QED
    BY <1>4, <2>2, <2>3 DEF Ends
<1>7. From(decls', decls)
  BY <1>1, <1>2, FromSame, FromAppend DEF NoDecl
<1>8. ~Ends(ctl)
  BY <1>1 DEF Ends, Top
<1>9. Waits(ctl', tok)
  <2>1. CASE tok.k \in DeclWords
    BY <1>6, <2>1 DEF Waits
  <2>2. CASE ctl' = ctl \o <<"statement">>
    <3> DEFINE q == <<"statement">>
    <3>1. IsSeq(q) /\ q # <<>> /\ q[Len(q)] = "statement"
      <4>1. q \in Seq({"statement"}) /\ q # <<>> /\ q[Len(q)] = "statement"
        OBVIOUS
      <4> QED
        BY <4>1 DEF IsSeq
    <3> HIDE DEF q
    <3>2. ctl'[Len(ctl')] = "statement"
      <4>1. ctl' = ctl \o q
        BY <2>2 DEF q
      <4> QED
        BY <1>2, <3>1, <4>1, JoinedLast
    <3> QED
      BY <3>2 DEF Waits
  <2> QED
    BY <1>1, <2>1, <2>2
<1> QED
  BY <1>1, <1>6, <1>7, <1>8, <1>9, FromStep

-----------------------------------------------------------------------------
(* The steps that declare a name *)

\* A lookup where the scopes say the same of the name.
LEMMA SameLookup ==
  ASSUME NEW s \in Seq(AllScopes), NEW t \in Seq(AllScopes), NEW m,
         \A i : i \in 1..Len(s) /\ m \in DOMAIN s[i] <=> i \in 1..Len(t) /\ m \in DOMAIN t[i],
         \A i \in 1..Len(s) : m \in DOMAIN s[i] => t[i][m] = s[i][m]
  PROVE  Lookup(t, m) = Lookup(s, m)
<1> DEFINE S == {i \in DOMAIN s : m \in DOMAIN s[i]}
           T == {i \in DOMAIN t : m \in DOMAIN t[i]}
<1>1. DOMAIN s = 1..Len(s) /\ DOMAIN t = 1..Len(t) /\ Len(s) \in Nat
  OBVIOUS
<1>2. S = T
  <2>1. \A i : i \in S <=> i \in T
    BY <1>1
  <2> HIDE DEF S, T
  <2> QED
    BY <2>1, SameSet
<1>3. S \in SUBSET (1..Len(s))
  BY <1>1
<1>4. CASE S = {}
  BY <1>2, <1>4 DEF Lookup
<1>5. CASE S # {}
  <2>1. Lookup(s, m) = s[Max(S)][m] /\ Lookup(t, m) = t[Max(S)][m]
    BY <1>2, <1>5 DEF Lookup
  <2>2. Max(S) \in S
    <3> HIDE DEF S
    <3> QED
      BY <1>1, <1>3, <1>5, MaxFacts
  <2> QED
    BY <1>1, <2>1, <2>2
<1> QED
  BY <1>4, <1>5

\* What is found after a name is declared.
LEMMA LookupBind ==
  ASSUME NEW s \in Seq(AllScopes), s # <<>>, NEW n \in Names, NEW x \in Syms
  PROVE  /\ Lookup(Bind(s, n, x), n) = x
         /\ \A m : m # n => Lookup(Bind(s, n, x), m) = Lookup(s, m)
<1> DEFINE B == Bind(s, n, x)
           L == Len(s)
<1>1. /\ B \in Seq(AllScopes) /\ Len(B) = L /\ L \in Nat \ {0}
      /\ \A i \in 1..(L - 1) : B[i] = s[i]
      /\ \A m : /\ m \in DOMAIN B[L] <=> m \in DOMAIN s[L] \/ m = n
                /\ m \in DOMAIN s[L] /\ m # n => B[L][m] = s[L][m]
      /\ B[L][n] = x
  BY BindFacts
<1> HIDE DEF B, L
<1>2. \A i : i \in 1..L <=> i \in 1..(L - 1) \/ i = L
  BY <1>1
<1>3. Lookup(B, n) = x
  <2>1. L \in 1..Len(B) /\ n \in DOMAIN B[L] /\ \A k \in 1..Len(B) : k <= L
    BY <1>1
  <2>2. Lookup(B, n) = B[L][n]
    BY <1>1, <2>1, LookupFacts
  <2> QED
    BY <1>1, <2>2
<1>4. ASSUME NEW m, m # n PROVE Lookup(B, m) = Lookup(s, m)
  <2>1. \A i \in 1..L : m \in DOMAIN s[i] <=> m \in DOMAIN B[i]
    BY <1>1, <1>2, <1>4
  <2>2. \A i \in 1..L : m \in DOMAIN s[i] => B[i][m] = s[i][m]
    BY <1>1, <1>2, <1>4
  <2>3. Len(s) = L /\ Len(B) = L
    BY <1>1 DEF L
  <2> QED
    BY <1>1, <2>1, <2>2, <2>3, SameLookup
<1> QED
  BY <1>3, <1>4 DEF B

\* What is found where a scope opens.
LEMMA LookupPush ==
  ASSUME NEW s \in Seq(AllScopes), NEW m
  PROVE  Lookup(Append(s, <<>>), m) = Lookup(s, m)
<1> DEFINE t == Append(s, <<>>)
<1>1. t \in Seq(AllScopes)
  BY NoneTypes
<1>2. /\ Len(s) \in Nat /\ Len(t) = Len(s) + 1 /\ t[Len(s) + 1] = <<>>
      /\ \A i \in 1..Len(s) : t[i] = s[i]
  <2>1. IsSeq(s)
    BY DEF IsSeq
  <2> QED
    BY <2>1, AppendFacts
<1> HIDE DEF t
<1>3. m \notin DOMAIN t[Len(s) + 1]
  BY <1>2
<1>4. \A i : i \in 1..Len(t) <=> i \in 1..Len(s) \/ i = Len(s) + 1
  BY <1>2
<1>5. \A i : i \in 1..Len(s) /\ m \in DOMAIN s[i] <=> i \in 1..Len(t) /\ m \in DOMAIN t[i]
  BY <1>2, <1>3, <1>4
<1>6. \A i \in 1..Len(s) : m \in DOMAIN s[i] => t[i][m] = s[i][m]
  BY <1>2
<1> QED
  BY <1>1, <1>5, <1>6, SameLookup DEF t

\* What was read before a name was declared, no type before or after.
LEMMA SpelledBind ==
  ASSUME NEW s \in Seq(AllScopes), s # <<>>, NEW n \in Names, NEW x \in Syms, NEW t, Spelled(t, s),
         Lookup(s, n).k # "typedef", x.k # "typedef"
  PROVE  Spelled(t, Bind(s, n, x))
<1>1. /\ Lookup(Bind(s, n, x), n) = x
      /\ \A m : m # n => Lookup(Bind(s, n, x), m) = Lookup(s, m)
  BY LookupBind
<1>2. CASE t.n = n
  BY <1>1, <1>2 DEF Spelled
<1>3. CASE t.n # n
  BY <1>1, <1>3 DEF Spelled
<1> QED
  BY <1>2, <1>3

\* A declaration in the text.
LEMMA DefFacts ==
  ASSUME NEW n \in Names, NEW i \in Nat, NEW b \in BOOLEAN
  PROVE  Defining(Def(n, i, b), n) /\ Def(n, i, b).at = i /\ Def(n, i, b).td = b
<1>1. Def(n, i, b).ev = "def" /\ Def(n, i, b).n = n /\ Def(n, i, b).at = i /\ Def(n, i, b).td = b
  BY DEF Def
<1>2. Def(n, i, b) \in Events
  BY Zenon DEF Def, Events, MaybeNames
<1> QED
  BY <1>1, <1>2 DEF Defining

\* The text with one more event.
LEMMA HistoryMore ==
  ASSUME NEW h, History(h), NEW e, NEW n, Defining(e, n) \/ Opening(e) \/ Closing(e)
  PROVE  /\ Longer(h, Append(h, e))
         /\ Closes(Append(h, e)) <=> Closing(e)
         /\ Closing(e) => ~Opening(e) /\ ~Defining(e, n)
         /\ Append(h, e)[Len(Append(h, e))] = e
<1>0. e \in Events /\ (e.ev # "def" => e.n = "none")
  BY Zenon DEF Defining, Opening, Closing
<1>1. Grows(h, e, Append(h, e), Depth(h, Len(h)) + Step(e))
  BY <1>0 DEF Grows
<1>2. /\ History(Append(h, e)) /\ Len(Append(h, e)) = Len(h) + 1 /\ Len(h) \in Nat
      /\ Append(h, e)[Len(h) + 1] = e /\ \A i \in 1..Len(h) : Append(h, e)[i] = h[i]
  BY <1>1, OneEvent
<1>3. Longer(h, Append(h, e)) /\ Append(h, e) # <<>>
  BY <1>2, HistoryFacts, SeqFacts DEF Longer
<1>4. Closing(e) => ~Opening(e) /\ ~Defining(e, n)
  BY Zenon DEF Defining, Opening, Closing
<1>5. Append(h, e)[Len(Append(h, e))] = e
  BY <1>2
<1>6. Closes(Append(h, e)) <=> Closing(e)
  <2>1. Closes(Append(h, e)) <=> e.ev = "}"
    BY <1>3, <1>5, Zenon DEF Closes
  <2>2. e.ev = "}" <=> Closing(e)
    BY <1>0, Zenon DEF Closing
  <2> QED
    BY <2>1, <2>2, Zenon
<1> QED
  BY <1>3, <1>4, <1>5, <1>6

\* A name is declared, and all is well.
LEMMA NewDef ==
  ASSUME NEW s, NEW h, Fits(s, h), NEW n \in Names, NEW e, Defining(e, n), NEW x \in Syms,
         Matches(x, e), NEW c, ~Ends(c), NEW t, Spelled(t, Bind(s, n, x)), NEW p
  PROVE  GoodAt(c, t, p, <<>>, Bind(s, n, x), Append(h, e))
<1>1. Fits(Cur(c, Bind(s, n, x)), Append(h, e))
  BY FitsDef DEF Cur
<1>2. ~Closes(Append(h, e))
  BY FitsFacts, HistoryMore
<1>3. OldClose(Append(h, e), p) /\ ~AfterClose(Append(h, e), p)
  BY <1>2 DEF OldClose, AfterClose
<1>4. DeclsGood(<<>>, Bind(s, n, x), Append(h, e), p)
  BY DEF DeclsGood
<1> QED
  BY <1>1, <1>3, <1>4 DEF GoodAt

\* A step that declares a name.
LEMMA DeclareStep ==
  ASSUME SInv, CInv', Above(ctl'), ~Ends(ctl), ~Ends(ctl'), NEW q, Lex(q) \/ Stay, err => err',
         decls' = <<>>, NEW n \in Names, NEW e, Defining(e, n), NEW x \in Syms,
         scopes' = Bind(scopes, n, x), hist' = Append(hist, e),
         Good /\ ~err' /\ ~Twice(hist') => Matches(x, e) /\ Spelled(tok', scopes')
  PROVE  SInv'
<1>1. Longer(hist, hist')
  BY TextFacts, HistoryMore
<1>2. ASSUME ~err', ~Twice(hist'), Good PROVE Good'
  <2>1. Fits(scopes, hist)
    BY <1>2 DEF Good, GoodAt, Cur
  <2>2. GoodAt(ctl', tok', pos', <<>>, Bind(scopes, n, x), Append(hist, e))
    BY <1>2, <2>1, NewDef
  <2> QED
    BY <2>2 DEF Good
<1> QED
  BY <1>1, <1>2, StepKeeps

\* A declaration is over, and how the calls go on.
LEMMA DeclCalls ==
  ASSUME SInv, ctl # <<>>, Top \in {"external", "local", "expr"}, NEW r \in Seq(Plains),
         ctl' = Pop(ctl) \o r
  PROVE  Above(ctl') /\ ~Ends(ctl) /\ ~Ends(ctl')
<1>1. IsSeq(r) /\ \A i \in 1..Len(r) : Plain(r[i])
  BY PlainFacts
<1>2. IsSeq(ctl) /\ Above(ctl)
  BY Active, TextFacts
<1>3. Top \notin Inner \cup Body
  BY DEF Inner, Body
<1> QED
  BY <1>1, <1>2, <1>3, AboveGoes DEF Top, Ends, Calm

\* The declaration that is over: the only one held.
LEMMA DeclThere ==
  ASSUME SInv, ctl # <<>>, Top \in {"external", "local"}
  PROVE  /\ D \in AllDecls /\ Len(decls) = 1 /\ Pop(decls) = <<>> /\ decls[1] = D
         /\ scopes \in Seq(AllScopes) /\ scopes # <<>> /\ Len(scopes) >= 1
         /\ Good => DeclGood(D, scopes, hist, pos)
         /\ D.name = "none" \/ D.name \in Names
         /\ Sym("typedef", D.type, D.at) \in Syms /\ Sym("var", D.type, D.at) \in Syms
         /\ FileSym \in Syms /\ D.at \in Nat /\ D.td \in BOOLEAN /\ D.type \in Types
<1>1. Len(decls) = 1 /\ Pop(decls) = <<>> /\ BInv /\ CInv
  BY DeclsHeld, TextFacts
<1>2. decls[1] = D
  BY <1>1 DEF D
<1>3. D \in AllDecls /\ scopes \in Seq(AllScopes) /\ Len(scopes) >= 1
  BY <1>1, DeclFacts
<1>4. scopes # <<>>
  BY <1>3
<1>5. Good => DeclGood(D, scopes, hist, pos)
  <2>1. 1 \in 1..Len(decls)
    BY <1>1
  <2> QED
    BY <1>2, <2>1 DEF Good, GoodAt, DeclsGood
<1>6. /\ D.type \in Types /\ D.name \in MaybeNames /\ D.at \in Nat
      /\ Sym("typedef", D.type, D.at) \in Syms /\ Sym("var", D.type, D.at) \in Syms
      /\ FileSym \in Syms
  BY <1>3, SymFacts
<1>7. D.td \in BOOLEAN
  BY <1>3 DEF AllDecls
<1> QED
  BY <1>1, <1>2, <1>3, <1>4, <1>5, <1>6, <1>7 DEF MaybeNames

\* No block ended just before the token after a declaration that has a name.
LEMMA DeclFresh ==
  ASSUME SInv, Good, ctl # <<>>, Top \in {"external", "local"}, D.name # "none"
  PROVE  Lookup(scopes, D.name).k # "typedef" /\ ~AfterClose(hist, pos) /\ Spelled(tok, scopes)
<1>1. /\ Lookup(scopes, D.name).k # "typedef" /\ D.at < pos /\ D.at \in Nat
      /\ Closes(hist) => hist[Len(hist)].at + 1 <= D.at
  BY DeclThere DEF DeclGood
<1>2. ~AfterClose(hist, pos)
  <2>1. Closes(hist) => hist[Len(hist)].at \in Nat
    BY ClosePlace, TextFacts
  <2>2. pos \in Nat
    BY TextFacts
  <2>3. Closes(hist) => hist[Len(hist)].at + 1 # pos
    BY <1>1, <2>1, <2>2
  <2> QED
    BY <2>3 DEF AfterClose
<1> QED
  BY <1>1, <1>2 DEF Good, GoodAt

\* A typedef.
LEMMA TypedefNames ==
  ASSUME SInv, CInv', Typedef
  PROVE  SInv'
<1>1. /\ ctl # <<>> /\ Top \in {"external", "local"} /\ ctl' = Pop(ctl) \o <<>>
      /\ decls' = Pop(decls) /\ D.td
      /\ \/ /\ scopes' = Bind(scopes, D.name, Sym("typedef", D.type, D.at)) /\ hist' = Note(D)
            /\ Lex(scopes') /\ err' = err
         \/ err' = TRUE /\ Stay /\ UNCHANGED <<scopes, hist>>
  <2>1. ctl # <<>> /\ Top \in {"external", "local"} /\ ctl' = Pop(ctl) \o <<>>
        /\ decls' = Pop(decls) /\ D.td
    BY Zenon DEF Typedef, Doing, Return, Then
  <2>2. \/ /\ scopes' = Bind(scopes, D.name, Sym("typedef", D.type, D.at)) /\ hist' = Note(D)
           /\ Lex(scopes') /\ err' = err
        \/ err' = TRUE /\ Stay /\ UNCHANGED <<scopes, hist>>
    BY Zenon DEF Typedef, TypedefScopes
  <2> QED
    BY <2>1, <2>2, Zenon
<1>2. /\ D.name = "none" \/ D.name \in Names
      /\ Sym("typedef", D.type, D.at) \in Syms /\ decls' = <<>> /\ D.at \in Nat /\ D.td \in BOOLEAN
  BY <1>1, DeclThere
<1>3. Above(ctl') /\ ~Ends(ctl) /\ ~Ends(ctl')
  BY <1>1, Ways, DeclCalls
<1>4. CASE UNCHANGED <<scopes, hist>> /\ (Stay \/ Lex(scopes)) /\ (err => err')
  <2>1. From(decls', decls)
    BY <1>2, FromSame
  <2>2. Top \notin Inner \cup Body \cup {"end of function", "begin"}
    BY <1>1 DEF Inner, Body
  <2> QED
    BY <1>1, <1>4, <2>1, <2>2, Ways, PlainStep
<1>5. CASE /\ D.name \in Names
           /\ scopes' = Bind(scopes, D.name, Sym("typedef", D.type, D.at)) /\ hist' = Note(D)
           /\ Lex(scopes') /\ err' = err
  <2> DEFINE e == Def(D.name, D.at, D.td)
             x == Sym("typedef", D.type, D.at)
  <2>1. Defining(e, D.name) /\ e.at = D.at /\ e.td = D.td
    BY <1>2, <1>5, DefFacts
  <2>2. Matches(x, e)
    <3> HIDE DEF e
    <3> QED
      BY <1>1, <2>1 DEF Matches, Sym
  <2>3. hist' = Append(hist, e)
    BY <1>5, NamesAssumption DEF Note
  <2>4. Spelled(tok', scopes')
    BY <1>5, TextFacts, LexFacts
  <2>5. x \in Syms /\ scopes' = Bind(scopes, D.name, x) /\ decls' = <<>>
    BY <1>2, <1>5
  <2> HIDE DEF e, x
  <2>6. \E q : Lex(q)
    BY <1>5
  <2> QED
    BY <1>3, <1>5, <2>1, <2>2, <2>3, <2>4, <2>5, <2>6, DeclareStep
<1>6. CASE /\ D.name = "none"
           /\ scopes' = Bind(scopes, D.name, Sym("typedef", D.type, D.at)) /\ hist' = Note(D)
           /\ Lex(scopes') /\ err' = err
  <2>1. scopes' = scopes /\ hist' = hist
    BY <1>6 DEF Bind, Note
  <2> QED
    BY <1>4, <1>6, <2>1
<1> QED
  BY <1>1, <1>2, <1>4, <1>5, <1>6

\* A name in an expression, that may be declared by it.
LEMMA NameNames ==
  ASSUME SInv, CInv', Name
  PROVE  SInv'
<1>1. /\ ctl # <<>> /\ Top = "expr" /\ ctl' = Pop(ctl) \o <<"postfix">>
      /\ decls' = decls /\ err' = err /\ Lex(scopes) /\ tok.k = "ident"
      /\ IF Lookup(scopes, tok.n) = NoSym
           THEN scopes' = Implicit /\ hist' = Append(hist, Def(tok.n, pos, FALSE))
           ELSE UNCHANGED <<scopes, hist>>
  <2>1. /\ ctl # <<>> /\ Top = "expr" /\ ctl' = Pop(ctl) \o <<"postfix">>
        /\ decls' = decls /\ err' = err /\ Lex(scopes) /\ tok.k = "ident"
    BY Zenon DEF Name, Doing, Then
  <2>2. CASE Lookup(scopes, tok.n) = NoSym
    BY <2>1, <2>2, Zenon DEF Name
  <2>3. CASE Lookup(scopes, tok.n) # NoSym
    BY <2>1, <2>3, Zenon DEF Name
  <2> QED
    BY <2>1, <2>2, <2>3
<1>2. <<"postfix">> \in Seq(Plains)
  <2>1. "postfix" \in Plains
    BY DEF Plains
  <2> QED
    BY <2>1, Ways
<1>3. Above(ctl') /\ ~Ends(ctl) /\ ~Ends(ctl')
  BY <1>1, <1>2, DeclCalls
<1>4. Top \notin Inner \cup Body \cup {"end of function", "begin"} /\ Top \notin Parts
  BY <1>1 DEF Inner, Body, Parts
<1>5. /\ pos \in Nat /\ tok.n \in Names /\ decls = <<>> /\ scopes \in Seq(AllScopes)
      /\ input \in Inputs /\ Len(scopes) = 1 + Opens(ctl) /\ Opens(ctl) \in Nat
  BY <1>1, <1>4, TextFacts, DeclsHeld, Active DEF Kinds
<1>6. CASE UNCHANGED <<scopes, hist>>
  <2>1. From(decls', decls)
    BY <1>1, FromSame
  <2> QED
    BY <1>1, <1>2, <1>4, <1>6, <2>1, PlainStep
<1>7. CASE /\ Lookup(scopes, tok.n) = NoSym /\ scopes' = Implicit
           /\ hist' = Append(hist, Def(tok.n, pos, FALSE))
  <2> DEFINE e == Def(tok.n, pos, FALSE)
             x == Sym("func", Func(<<>>), pos)
  <2>1. Defining(e, tok.n) /\ e.at = pos /\ e.td = FALSE
    BY <1>5, DefFacts
  <2>2. x \in Syms /\ x.k = "func" /\ x.at = pos
    BY <1>5, NoneTypes DEF Sym, Syms
  <2>3. hist' = Append(hist, e) /\ scopes' = Bind(scopes, tok.n, x)
    BY <1>7 DEF Implicit
  <2> HIDE DEF e, x
  <2>4. Matches(x, e)
    BY <2>1, <2>2 DEF Matches
  <2>5. scopes # <<>>
    BY <1>5
  <2>6. Spelled(tok', scopes')
    <3>1. Spelled(tok', scopes)
      BY <1>1, <1>5, LexFacts
    <3>2. Lookup(scopes, tok.n).k # "typedef"
      BY <1>7 DEF NoSym, Sym
    <3> QED
      BY <1>5, <2>2, <2>3, <2>5, <3>1, <3>2, SpelledBind
  <2>7. decls' = <<>> /\ (err => err')
    BY <1>1, <1>5
  <2> QED
    BY <1>1, <1>3, <1>5, <2>1, <2>2, <2>3, <2>4, <2>6, <2>7, DeclareStep
<1> QED
  BY <1>1, <1>6, <1>7

\* A variable of a block.
LEMMA LocalNames ==
  ASSUME SInv, CInv', Local
  PROVE  SInv'
<1>1. /\ ctl # <<>> /\ Top = "local" /\ decls' = Pop(decls) /\ err' = err /\ ~D.td
      /\ scopes' = Bind(scopes, D.name, Sym("var", D.type, D.at)) /\ hist' = Note(D)
      /\ \/ ctl' = Pop(ctl) \o <<";", "expr">> /\ Lex(scopes')
         \/ ctl' = Pop(ctl) \o <<";">> /\ Stay
  <2>1. /\ ctl # <<>> /\ Top = "local" /\ decls' = Pop(decls) /\ err' = err /\ ~D.td
        /\ scopes' = Bind(scopes, D.name, Sym("var", D.type, D.at)) /\ hist' = Note(D)
    BY Zenon DEF Local, Doing
  <2>2. CASE tok.k = "="
    BY <2>1, <2>2, Zenon DEF Local, Then
  <2>3. CASE tok.k # "="
    BY <2>1, <2>3, Zenon DEF Local, Then
  <2> QED
    BY <2>2, <2>3
<1>2. PICK r \in Seq(Plains) : ctl' = Pop(ctl) \o r
  <2>1. ";" \in Plains /\ "expr" \in Plains
    BY DEF Plains
  <2>2. <<";", "expr">> \in Seq(Plains) /\ <<";">> \in Seq(Plains)
    BY <2>1, Ways
  <2> QED
    BY <1>1, <2>2
<1>3. Above(ctl') /\ ~Ends(ctl) /\ ~Ends(ctl')
  BY <1>1, <1>2, DeclCalls
<1>4. /\ D.name = "none" \/ D.name \in Names
      /\ Sym("var", D.type, D.at) \in Syms /\ decls' = <<>> /\ D.at \in Nat /\ D.td \in BOOLEAN
      /\ scopes \in Seq(AllScopes) /\ scopes # <<>>
  BY <1>1, DeclThere
<1>5. CASE D.name = "none"
  <2>1. scopes' = scopes /\ hist' = hist
    BY <1>1, <1>5 DEF Bind, Note
  <2>2. From(decls', decls)
    BY <1>4, FromSame
  <2>3. Top \notin Inner \cup Body \cup {"end of function", "begin"}
    BY <1>1 DEF Inner, Body
  <2>4. (Lex(scopes) \/ Stay) /\ (err => err')
    BY <1>1, <2>1
  <2> QED
    BY <1>1, <1>2, <2>1, <2>2, <2>3, <2>4, PlainStep
<1>6. CASE D.name \in Names
  <2> DEFINE e == Def(D.name, D.at, D.td)
             x == Sym("var", D.type, D.at)
  <2>1. Defining(e, D.name) /\ e.at = D.at /\ e.td = D.td
    BY <1>4, <1>6, DefFacts
  <2>2. x \in Syms /\ x.k = "var" /\ x.at = D.at
    BY <1>4 DEF Sym
  <2>3. hist' = Append(hist, e) /\ scopes' = Bind(scopes, D.name, x)
    BY <1>1, <1>6, NamesAssumption DEF Note
  <2> HIDE DEF e, x
  <2>4. Matches(x, e)
    BY <1>1, <2>1, <2>2 DEF Matches
  <2>5. Good => Spelled(tok', scopes')
    <3>1. CASE Lex(scopes')
      BY <3>1, TextFacts, LexFacts
    <3>2. CASE Stay
      <4>1. tok' = tok
        BY <3>2 DEF Stay
      <4>2. Good => Lookup(scopes, D.name).k # "typedef" /\ Spelled(tok, scopes)
        BY <1>1, <1>6, NamesAssumption, DeclFresh
      <4> QED
        BY <1>4, <1>6, <2>2, <2>3, <4>1, <4>2, SpelledBind
    <3> QED
      BY <1>1, <3>1, <3>2
  <2>6. \E q : Lex(q) \/ Stay
    BY <1>1
  <2>7. err => err'
    BY <1>1
  <2> QED
    BY <1>3, <1>4, <1>6, <2>1, <2>2, <2>3, <2>4, <2>5, <2>6, <2>7, DeclareStep
<1> QED
  BY <1>4, <1>5, <1>6

\* A name that the file's scope has was declared in the file before.
LEMMA FileTwice ==
  ASSUME Fits(scopes, hist), Len(scopes) = 1, NEW n \in Names, LookupCurrent(scopes, n) # NoSym,
         NEW e, Defining(e, n)
  PROVE  Twice(Append(hist, e))
<1> DEFINE N == Len(hist)
           g == Append(hist, e)
<1>1. /\ History(hist) /\ N \in Nat /\ Depth(hist, N) = 0
      /\ ScopeFits(scopes[1], hist, 1)
  BY FitsFacts
<1>2. n \in DOMAIN scopes[1]
  BY DEF LookupCurrent
<1>3. PICK i : i \in At(hist, n, 1)
  BY <1>1, <1>2 DEF ScopeFits
<1>4. i \in 1..N /\ hist[i].n = n /\ Depth(hist, i) = 0
  BY <1>3 DEF At
<1>5. hist[i].ev = "def"
  BY <1>1, <1>4, NamesAssumption DEF History
<1>6. e \in Events /\ e.ev = "def" /\ e.n = n
  BY DEF Defining
<1>7. Step(e) = 0
  BY <1>6, Zenon, StepFacts
<1>8. Grows(hist, e, g, 0)
  <2>1. Depth(hist, N) + Step(e) = 0
    BY <1>1, <1>7
  <2> QED
    BY <1>1, <1>6, <2>1 DEF Grows
<1>9. /\ Len(g) = N + 1 /\ g[N + 1] = e /\ g[i] = hist[i]
      /\ Depth(g, i) = 0 /\ Depth(g, N + 1) = 0
  <2>1. i \in 0..N
    BY <1>1, <1>4
  <2> QED
    BY <1>4, <1>8, <2>1, OneEvent
<1> HIDE DEF g, N
<1>10. i \in 1..Len(g) /\ N + 1 \in 1..Len(g) /\ i # N + 1
  BY <1>1, <1>4, <1>9
<1> QED
  BY <1>4, <1>5, <1>6, <1>9, <1>10 DEF Twice, g

\* The symbol of a declaration in the file: a new one, or a second for its name.
LEMMA FileSymbol ==
  ASSUME SInv, ctl # <<>>, Top = "external", ~D.td, D.name \in Names, NEW e,
         e = Def(D.name, D.at, D.td)
  PROVE  /\ Good /\ ~Twice(Append(hist, e)) =>
              Matches(FileSym, e) /\ FileSym.k # "typedef" /\ FileSym.type = D.type
         /\ Defining(e, D.name)
<1>1. /\ D.at \in Nat /\ D.td \in BOOLEAN /\ D.type \in Types
  BY DeclThere
<1>2. Defining(e, D.name) /\ e.at = D.at /\ e.td = D.td
  BY <1>1, DefFacts
<1>3. ASSUME Good, ~Twice(Append(hist, e)) PROVE LookupCurrent(scopes, D.name) = NoSym
  <2>1. ~Ends(ctl)
    BY DEF Ends, Top
  <2>2. Fits(scopes, hist)
    BY <1>3, <2>1 DEF Good, GoodAt, Cur
  <2>3. Len(scopes) = 1
    BY TextFacts, DeclsHeld
  <2> QED
    BY <1>2, <1>3, <2>2, <2>3, FileTwice
<1>4. ASSUME LookupCurrent(scopes, D.name) = NoSym
      PROVE  Matches(FileSym, e) /\ FileSym.k # "typedef" /\ FileSym.type = D.type
  <2> DEFINE k == IF D.type.k = "func" THEN "func" ELSE "var"
  <2>1. FileSym = Sym(k, D.type, D.at)
    BY <1>4 DEF FileSym
  <2>2. k \in {"func", "var"}
    OBVIOUS
  <2> HIDE DEF k
  <2>3. FileSym.k \in {"func", "var"} /\ FileSym.at = D.at /\ FileSym.type = D.type
    BY <2>1, <2>2 DEF Sym
  <2> QED
    BY <1>2, <2>3 DEF Matches
<1> QED
  BY <1>2, <1>3, <1>4

\* A variable or a function of the file.
LEMMA DeclareNames ==
  ASSUME SInv, CInv', Declare
  PROVE  SInv'
<1>1. /\ ctl # <<>> /\ Top = "external" /\ decls' = Pop(decls) /\ ~D.td /\ D.name # "none"
      /\ ctl' = Pop(ctl) \o <<>> /\ Expect(";")
      /\ scopes' = Bind(scopes, D.name, FileSym) /\ hist' = Note(D)
  BY Zenon DEF Declare, Doing, Return, Then
<1>2. /\ D.name \in Names /\ FileSym \in Syms /\ decls' = <<>>
      /\ scopes \in Seq(AllScopes) /\ scopes # <<>>
  BY <1>1, DeclThere
<1>3. Above(ctl') /\ ~Ends(ctl) /\ ~Ends(ctl')
  BY <1>1, Ways, DeclCalls
<1>4. (Lex(scopes) \/ Stay) /\ (err => err') /\ (~err' => Lex(scopes))
  BY <1>1, TextFacts, ExpectFacts
<1> DEFINE e == Def(D.name, D.at, D.td)
           x == FileSym
<1>5. hist' = Append(hist, e) /\ scopes' = Bind(scopes, D.name, x)
  BY <1>1 DEF Note
<1>6. /\ Good /\ ~Twice(hist') => Matches(x, e) /\ x.k # "typedef"
      /\ Defining(e, D.name) /\ x \in Syms
  BY <1>1, <1>2, <1>5, FileSymbol
<1> HIDE DEF e, x
<1>7. Good /\ ~err' /\ ~Twice(hist') => Spelled(tok', scopes')
  <2> SUFFICES ASSUME Good, ~err', ~Twice(hist') PROVE Spelled(tok', scopes')
    OBVIOUS
  <2>1. Spelled(tok', scopes)
    BY <1>4, TextFacts, LexFacts
  <2>2. Lookup(scopes, D.name).k # "typedef"
    BY <1>1, DeclFresh
  <2> QED
    BY <1>2, <1>5, <1>6, <2>1, <2>2, SpelledBind
<1>8. Good /\ ~err' /\ ~Twice(hist') => Matches(x, e) /\ Spelled(tok', scopes')
  BY <1>6, <1>7
<1> QED
  BY <1>2, <1>3, <1>4, <1>5, <1>6, <1>8, DeclareStep

-----------------------------------------------------------------------------
(* The steps that open and close scopes *)

\* More and more text.
LEMMA LongerStill ==
  ASSUME NEW h, NEW g, NEW f, History(h), Longer(h, g), Longer(g, f)
  PROVE  Longer(h, f)
<1>1. Len(h) \in Nat /\ Len(g) \in Nat /\ Len(f) \in Nat
  BY HistoryFacts DEF Longer
<1>2. \A i \in 1..Len(h) : i \in 1..Len(g)
  BY <1>1 DEF Longer
<1>3. Len(h) <= Len(f)
  BY <1>1 DEF Longer
<1> QED
  BY <1>2, <1>3 DEF Longer

\* The text with a list of parameters.
LEMMA ParamsLonger ==
  ASSUME NEW h, History(h), h # <<>>, ~Closes(h), NEW ps \in Params
  PROVE  Longer(h, h \o ParamDefs(ps)) /\ ~Closes(h \o ParamDefs(ps))
<1> DEFINE g == h \o ParamDefs(ps)
           N == Len(h)
           P == Len(ps)
<1>1. DefsAfter(h, ps, g, N, P)
  BY ManyDefs
<1>2. /\ History(g) /\ Len(g) = N + P /\ N \in Nat /\ P \in Nat
      /\ \A i \in 1..N : g[i] = h[i]
      /\ \A i \in 1..P : g[N + i] = ParamDefs(ps)[i]
  BY <1>1 DEF DefsAfter
<1>3. N # 0
  BY HistoryFacts, SeqFacts
<1>4. \A i \in 1..P : ParamDefs(ps)[i].ev = "def"
  BY ParamDefsFacts
<1> HIDE DEF g, N, P
<1>5. Longer(h, g)
  BY <1>2 DEF Longer, N
<1>6. CASE P = 0
  <2>1. g[Len(g)] = h[N]
    BY <1>2, <1>3, <1>6
  <2> QED
    BY <1>5, <2>1, Zenon DEF Closes, g, N
<1>7. CASE P # 0
  <2>1. P \in 1..P /\ Len(g) = N + P
    BY <1>2, <1>7
  <2>2. g[Len(g)].ev = "def"
    BY <1>2, <1>4, <2>1
  <2> QED
    BY <1>5, <2>2, Zenon DEF Closes, g
<1> QED
  BY <1>6, <1>7

\* A brace of the text.
LEMMA BraceFields ==
  ASSUME NEW b, NEW p
  PROVE  [Brace(b) EXCEPT !.at = p] = [ev |-> b, n |-> "none", at |-> p, td |-> FALSE]
<1> DEFINE r == Brace(b)
           f == FALSE
           z == "none"
           o == 0
<1>1. r = [ev |-> b, n |-> z, at |-> o, td |-> f]
  BY DEF Brace
<1> HIDE DEF r, f, z, o
<1>2. [r EXCEPT !.at = p] = [ev |-> b, n |-> z, at |-> p, td |-> f]
  BY <1>1
<1> QED
  BY <1>2, Zenon DEF r, f, z

\* The braces of the text.
LEMMA BraceFacts ==
  /\ Opening(Brace("{"))
  /\ \A p \in Nat : /\ Closing([Brace("}") EXCEPT !.at = p])
                    /\ [Brace("}") EXCEPT !.at = p].at = p
<1> DEFINE R(b, p) == [ev |-> b, n |-> "none", at |-> p, td |-> FALSE]
<1>1. ASSUME NEW b \in {"{", "}", "def"}, NEW p \in Nat
      PROVE  R(b, p) \in Events /\ R(b, p).ev = b /\ R(b, p).n = "none" /\ R(b, p).at = p
  <2>1. R(b, p) \in Events
    BY Zenon DEF Events, MaybeNames
  <2>2. R(b, p).ev = b /\ R(b, p).n = "none" /\ R(b, p).at = p
    BY Zenon
  <2> QED
    BY <2>1, <2>2, Zenon
<1>2. 0 \in Nat /\ "{" \in {"{", "}", "def"} /\ "}" \in {"{", "}", "def"}
  BY Zenon
<1>3. Opening(Brace("{"))
  <2> DEFINE r == Brace("{")
  <2>1. r = R("{", 0)
    BY Zenon DEF Brace
  <2> HIDE DEF R, r
  <2>2. r \in Events /\ r.ev = "{" /\ r.n = "none"
    BY <1>1, <1>2, <2>1, Zenon
  <2> QED
    BY <2>2, Zenon DEF Opening, r
<1>4. ASSUME NEW p \in Nat
      PROVE  /\ Closing([Brace("}") EXCEPT !.at = p])
             /\ [Brace("}") EXCEPT !.at = p].at = p
  <2> DEFINE r == [Brace("}") EXCEPT !.at = p]
  <2>1. r = R("}", p)
    BY BraceFields, Zenon
  <2> HIDE DEF R, r
  <2>2. r \in Events /\ r.ev = "}" /\ r.n = "none" /\ r.at = p
    BY <1>1, <1>2, <2>1, Zenon
  <2> QED
    BY <2>2, Zenon DEF Closing, r
<1> QED
  BY <1>3, <1>4, Zenon

\* A function's body begins.
LEMMA DefineNames ==
  ASSUME SInv, CInv', Define
  PROVE  SInv'
<1> DEFINE e == Def(D.name, D.at, D.td)
           o == Brace("{")
           ps == D.type.ps
<1>1. /\ ctl # <<>> /\ Top = "external" /\ decls' = Pop(decls) /\ ~D.td /\ D.name # "none"
      /\ ctl' = Pop(ctl) \o <<"end of function", "compound">> /\ Stay /\ err' = err
      /\ scopes' = Append(Bind(scopes, D.name, FileSym), ParamScope(FileSym.type.ps))
      /\ hist' = Note(D) \o <<o>> \o ParamDefs(ps)
  BY Zenon DEF Define, Doing, Then, ParamDefs
<1>2. tok.n = "none"
  <2>1. tok.k = "{"
    BY Zenon DEF Define, IsDefinition
  <2>2. tok.k # "ident" /\ tok.k # "typename"
    BY <2>1, Zenon
  <2> QED
    BY <2>2, TextFacts DEF Kinds
<1>3. /\ D.name \in Names /\ FileSym \in Syms /\ decls' = <<>> /\ D.type \in Types
      /\ scopes \in Seq(AllScopes) /\ scopes # <<>>
  BY <1>1, DeclThere
<1>4. ps \in Params
  BY <1>3 DEF Types
<1>5. /\ Good /\ ~Twice(Append(hist, e)) => Matches(FileSym, e) /\ FileSym.type = D.type
      /\ Defining(e, D.name)
  BY <1>1, <1>3, FileSymbol
<1>6. Opening(o)
  BY BraceFacts
<1>7. Note(D) = Append(hist, e)
  BY <1>1 DEF Note
<1> DEFINE B == Bind(scopes, D.name, FileSym)
           g == Append(hist, e)
           f == Append(g, o)
<1> HIDE DEF e, o
<1>8. Longer(hist, g)
  BY <1>5, TextFacts, HistoryMore
<1>9. Longer(g, f) /\ ~Closes(f) /\ f # <<>>
  <2>1. History(g)
    BY <1>8 DEF Longer
  <2>2. Longer(g, f) /\ (Closes(f) <=> Closing(o)) /\ (Closing(o) => ~Opening(o))
    BY <1>6, <2>1, HistoryMore
  <2>3. Len(f) # 0
    <3>1. IsSeq(g) /\ Len(g) \in Nat
      BY <2>1, HistoryFacts
    <3>2. Len(f) = Len(g) + 1
      BY <3>1, AppendFacts
    <3> QED
      BY <3>1, <3>2
  <2> QED
    BY <1>6, <2>2, <2>3
<1>10. hist' = f \o ParamDefs(ps)
  <2>1. IsSeq(g)
    BY <1>8, HistoryFacts DEF Longer
  <2>2. g \o <<o>> = Append(g, o)
    BY <2>1, Joined
  <2> QED
    BY <1>1, <1>7, <2>2
<1> HIDE DEF ps, g, f
<1>11. Longer(f, hist') /\ ~Closes(hist')
  <2>1. History(f)
    BY <1>9 DEF Longer
  <2> QED
    BY <1>4, <1>9, <1>10, <2>1, ParamsLonger
<1>12. Longer(hist, hist') /\ Longer(g, hist') /\ History(g)
  <2>1. History(g) /\ History(hist)
    BY <1>8, TextFacts DEF Longer
  <2>2. Longer(g, hist')
    BY <1>9, <1>11, <2>1, LongerStill
  <2> QED
    BY <1>8, <2>1, <2>2, LongerStill
<1>13. Above(ctl') /\ ~Ends(ctl) /\ ~Ends(ctl')
  <2> DEFINE r == <<"end of function", "compound">>
  <2>1. IsSeq(ctl) /\ Above(ctl)
    BY <1>1, Active, TextFacts
  <2>2. /\ IsSeq(r) /\ r # <<>> /\ r[1] = "end of function" /\ r[Len(r)] = "compound"
        /\ Len(r) = 2 /\ r[2] = "compound"
    <3>1. r \in Seq({"end of function", "compound"})
      OBVIOUS
    <3>2. r # <<>> /\ r[1] = "end of function" /\ r[Len(r)] = "compound" /\ Len(r) = 2
          /\ r[2] = "compound"
      OBVIOUS
    <3> QED
      BY <3>1, <3>2 DEF IsSeq
  <2> HIDE DEF r
  <2>3. Above(r)
    <3>1. \A i \in 1..2 : i = 1 \/ i = 2
      OBVIOUS
    <3>2. \A i \in 1..2 : r[i] \notin Parts
      BY <2>2, <3>1 DEF Parts, Inner
    <3>3. \A i \in 2..2 : i = 2 /\ i - 1 = 1
      OBVIOUS
    <3>4. Fine("end of function", "compound")
      BY DEF Fine, Parts, Inner, Body
    <3> QED
      BY <2>2, <3>2, <3>3, <3>4 DEF Above
  <2>4. /\ IsSeq(Pop(ctl)) /\ Above(Pop(ctl))
        /\ Pop(ctl) # <<>> => Pop(ctl)[Len(Pop(ctl))] \notin Parts \cup {"end of function"}
    <3>1. <<>> \in Seq(Plains)
      BY Ways
    <3>2. Pop(ctl) \o <<>> = Pop(ctl) /\ IsSeq(Pop(ctl)) /\ Above(Pop(ctl))
      BY <1>1, <2>1, AboveUnder, OneMore
    <3>3. Pop(ctl) # <<>> => Pop(ctl)[Len(Pop(ctl))] \notin Parts
      <4> SUFFICES ASSUME Pop(ctl) # <<>> PROVE Pop(ctl)[Len(Pop(ctl))] \notin Parts
        OBVIOUS
      <4>1. /\ Len(Pop(ctl)) = Len(ctl) - 1 /\ Len(ctl) \in Nat \ {0}
            /\ \A i \in 1..(Len(ctl) - 1) : Pop(ctl)[i] = ctl[i] /\ ctl[i] \notin Parts
        <5>1. Top \notin Inner
          BY <1>1 DEF Inner
        <5> QED
          BY <1>1, <2>1, <5>1, AboveUnder DEF Top
      <4>2. Len(Pop(ctl)) # 0
        BY <3>2, SeqFacts
      <4>3. Len(ctl) - 1 \in 1..(Len(ctl) - 1)
        BY <4>1, <4>2
      <4> QED
        BY <4>1, <4>3
    <3>4. Calm(Pop(ctl))
      <4>1. Top \notin Inner \cup Body
        BY <1>1 DEF Inner, Body
      <4>2. IsSeq(<<>>) /\ \A i \in 1..Len(<<>>) : Plain(<<>>[i])
        BY <3>1, PlainFacts
      <4> QED
        BY <1>1, <2>1, <3>2, <4>1, <4>2, AboveGoes DEF Top
    <3> QED
      BY <3>2, <3>3, <3>4 DEF Calm
  <2>5. ctl' = Pop(ctl) \o r
    BY <1>1 DEF r
  <2>6. Pop(ctl) # <<>> => Fine(Pop(ctl)[Len(Pop(ctl))], r[1])
    BY <2>2, <2>4 DEF Fine
  <2>7. Above(ctl')
    BY <2>2, <2>3, <2>4, <2>5, <2>6, AboveJoin
  <2>8. ctl'[Len(ctl')] = "compound"
    BY <2>2, <2>4, <2>5, JoinedLast
  <2> QED
    BY <1>1, <2>7, <2>8 DEF Ends, Top
<1>14. ASSUME Good, ~Twice(hist') PROVE Good'
  <2>1. ~Twice(g)
    BY <1>12, <1>14, TwiceStays
  <2>2. Matches(FileSym, e) /\ FileSym.type.ps = ps
    BY <1>5, <1>14, <2>1 DEF g, ps
  <2>3. Fits(scopes, hist)
    BY <1>13, <1>14 DEF Good, GoodAt, Cur
  <2>4. Fits(B, g)
    BY <1>3, <1>5, <2>2, <2>3, FitsDef DEF g
  <2>5. B \in Seq(AllScopes)
    BY <2>4 DEF Fits
  <2> HIDE DEF B
  <2>6. Fits(Append(B, <<>>), f)
    BY <1>6, <2>4, FitsOpen DEF f
  <2>7. Fits(Append(B, ParamScope(ps)), hist')
    BY <1>4, <1>10, <2>5, <2>6, FitsParams
  <2>8. scopes' = Append(B, ParamScope(ps))
    BY <1>1, <2>2 DEF B
  <2>9. Spelled(tok', scopes') /\ DeclsGood(decls', scopes', hist', pos')
    <3>1. tok' = tok
      BY <1>1, Zenon DEF Stay
    <3>2. Spelled(tok', scopes')
      BY <1>2, <3>1, Zenon DEF Spelled
    <3>3. \A q \in 1..Len(<<>>) : FALSE
      OBVIOUS
    <3>4. DeclsGood(<<>>, scopes', hist', pos')
      BY <3>3, Zenon DEF DeclsGood
    <3> QED
      BY <1>3, <3>2, <3>4, Zenon
  <2> QED
    BY <1>11, <1>13, <2>7, <2>8, <2>9 DEF Good, GoodAt, Cur, OldClose, AfterClose
<1> QED
  BY <1>1, <1>12, <1>13, <1>14, StepKeeps

\* What is under the call at the top.
LEMMA UnderTop ==
  ASSUME SInv, ctl # <<>>, Top # "begin", Top \notin Inner
  PROVE  /\ IsSeq(Pop(ctl)) /\ Above(Pop(ctl)) /\ Pop(ctl) \o <<>> = Pop(ctl)
         /\ Pop(ctl) # <<>> => /\ Pop(ctl)[Len(Pop(ctl))] \notin Parts
                               /\ Fine(Pop(ctl)[Len(Pop(ctl))], Top)
<1>1. IsSeq(ctl) /\ Above(ctl)
  BY Active, TextFacts
<1>2. <<>> \in Seq(Plains)
  BY Ways
<1>3. IsSeq(<<>>)
  BY <1>2, PlainFacts
<1>4. /\ IsSeq(Pop(ctl)) /\ Above(Pop(ctl)) /\ Len(Pop(ctl)) = Len(ctl) - 1
      /\ Len(ctl) \in Nat \ {0}
      /\ \A i \in 1..(Len(ctl) - 1) : Pop(ctl)[i] = ctl[i] /\ ctl[i] \notin Parts
      /\ Len(ctl) > 1 => Fine(ctl[Len(ctl) - 1], ctl[Len(ctl)])
  BY <1>1, AboveUnder DEF Top
<1>5. Pop(ctl) \o <<>> = Pop(ctl)
  BY <1>3, <1>4, OneMore
<1>6. ASSUME Pop(ctl) # <<>>
      PROVE  /\ Pop(ctl)[Len(Pop(ctl))] \notin Parts
             /\ Fine(Pop(ctl)[Len(Pop(ctl))], Top)
  <2>1. Len(Pop(ctl)) # 0
    BY <1>4, <1>6, SeqFacts
  <2>2. Len(ctl) - 1 \in 1..(Len(ctl) - 1) /\ Len(ctl) > 1
    BY <1>4, <2>1
  <2> QED
    BY <1>4, <2>2 DEF Top
<1> QED
  BY <1>4, <1>5, <1>6

\* A block begins.
LEMMA EnterBlockNames ==
  ASSUME SInv, CInv', EnterBlock
  PROVE  SInv'
<1> DEFINE r == <<"block">>
           o == Brace("{")
<1>1. /\ ctl # <<>> /\ Top = "compound" /\ ctl' = Pop(ctl) \o r /\ Expect("{")
      /\ decls' = decls /\ scopes' = Append(scopes, <<>>) /\ hist' = Append(hist, o)
  BY Zenon DEF EnterBlock, Push, Doing, Then
<1>2. /\ History(hist) /\ pos \in Nat /\ input \in Inputs /\ CInv /\ scopes \in Seq(AllScopes)
  BY TextFacts
<1>3. /\ Lex(scopes) \/ Stay
      /\ (err => err') /\ (~err' => Lex(scopes))
  BY <1>1, <1>2, ExpectFacts
<1>4. Top # "begin" /\ Top \notin Parts
  BY <1>1 DEF Parts, Inner
<1>5. decls = <<>>
  BY <1>1, <1>4, DeclsHeld, TextFacts
<1>6. Opening(o)
  BY BraceFacts
<1>7. IsSeq(r) /\ r # <<>> /\ r[1] = "block" /\ r[Len(r)] = "block" /\ Above(r)
  <2>1. "block" \in Plains
    BY DEF Plains
  <2>2. r \in Seq(Plains)
    BY <2>1, Ways
  <2>3. r # <<>> /\ r[1] = "block" /\ r[Len(r)] = "block" /\ Len(r) \in Nat
    OBVIOUS
  <2> HIDE DEF r
  <2>4. IsSeq(r) /\ \A i \in 1..Len(r) : Plain(r[i])
    BY <2>2, PlainFacts
  <2> QED
    BY <2>3, <2>4, AboveSelf
<1> HIDE DEF r, o
<1>8. /\ IsSeq(Pop(ctl)) /\ Above(Pop(ctl))
      /\ Pop(ctl) # <<>> => Pop(ctl)[Len(Pop(ctl))] \notin Parts
  BY <1>1, <1>4, UnderTop DEF Parts
<1>9. Above(ctl')
  <2>1. Pop(ctl) # <<>> => Fine(Pop(ctl)[Len(Pop(ctl))], r[1])
    BY <1>7, <1>8 DEF Fine, Body
  <2> QED
    BY <1>1, <1>7, <1>8, <2>1, AboveJoin
<1>10. ctl'[Len(ctl')] = "block" /\ ~Ends(ctl) /\ ~Ends(ctl')
  <2>1. ctl'[Len(ctl')] = "block"
    BY <1>1, <1>7, <1>8, JoinedLast
  <2> QED
    BY <1>1, <2>1 DEF Ends, Top
<1>11. Longer(hist, hist') /\ ~Closes(hist')
  <2>1. /\ Longer(hist, hist') /\ (Closes(hist') <=> Closing(o)) /\ (Closing(o) => ~Opening(o))
    BY <1>1, <1>2, <1>6, HistoryMore
  <2> QED
    BY <1>6, <2>1
<1>12. ASSUME Good, ~err' PROVE Good'
  <2>1. Fits(scopes, hist)
    BY <1>10, <1>12 DEF Good, GoodAt, Cur
  <2>2. Fits(scopes', hist')
    BY <1>1, <1>6, <2>1, FitsOpen
  <2>3. Spelled(tok', scopes)
    BY <1>2, <1>3, <1>12, LexFacts
  <2>4. Spelled(tok', scopes')
    BY <1>1, <1>2, <2>3, LookupPush DEF Spelled
  <2>5. DeclsGood(decls', scopes', hist', pos')
    <3>1. \A q \in 1..Len(<<>>) : FALSE
      OBVIOUS
    <3>2. DeclsGood(<<>>, scopes', hist', pos')
      BY <3>1, Zenon DEF DeclsGood
    <3> QED
      BY <1>1, <1>5, <3>2
  <2> QED
    BY <1>10, <1>11, <2>2, <2>4, <2>5 DEF Good, GoodAt, Cur, OldClose, AfterClose
<1> QED
  BY <1>3, <1>9, <1>11, <1>12, StepKeeps

\* A function ends, after its body.
LEMMA EndFunctionNames ==
  ASSUME SInv, CInv', EndFunction
  PROVE  SInv'
<1>1. /\ ctl # <<>> /\ Top = "end of function" /\ ctl' = Pop(ctl) \o <<>> /\ Stay
      /\ decls' = decls /\ err' = err /\ hist' = hist /\ scopes' = Pop(scopes)
  BY Zenon DEF EndFunction, ScopesAfterFunction, Doing, Return, Then
<1>2. Top # "begin" /\ Top \notin Parts /\ Top \notin Body
  BY <1>1 DEF Parts, Inner, Body
<1>3. decls = <<>>
  BY <1>1, <1>2, DeclsHeld, TextFacts
<1>4. /\ ctl' = Pop(ctl) /\ Above(ctl')
      /\ ctl' # <<>> => ctl'[Len(ctl')] \notin Parts /\ ctl'[Len(ctl')] # "end of function"
  BY <1>1, <1>2, UnderTop DEF Parts, Fine
<1>5. Ends(ctl) /\ ~Ends(ctl') /\ Waits(ctl', tok)
  BY <1>1, <1>4 DEF Ends, Waits, Top, Parts, Inner
<1>6. Longer(hist, hist')
  BY <1>1, TextFacts
<1>7. pos' = pos /\ tok' = tok
  BY <1>1, Zenon DEF Stay
<1>8. ASSUME Good PROVE Good'
  <2>1. Fits(Pop(scopes), hist) /\ AfterClose(hist, pos) /\ OldClose(hist, pos)
    BY <1>5, <1>8 DEF Good, GoodAt, Cur
  <2>2. Fits(Cur(ctl', scopes'), hist')
    BY <1>1, <1>5, <2>1 DEF Cur
  <2>3. DeclsGood(decls', scopes', hist', pos')
    <3>1. \A q \in 1..Len(<<>>) : FALSE
      OBVIOUS
    <3>2. DeclsGood(<<>>, scopes', hist', pos')
      BY <3>1, Zenon DEF DeclsGood
    <3> QED
      BY <1>1, <1>3, <3>2
  <2> QED
    BY <1>1, <1>5, <1>7, <2>1, <2>2, <2>3 DEF Good, GoodAt
<1> QED
  BY <1>1, <1>4, <1>6, <1>8, StepKeeps

\* As many scopes are open as a block closes.
LEMMA ScopesToClose ==
  ASSUME BInv, ctl # <<>>, Top = "block"
  PROVE  /\ Len(scopes) \in Nat /\ Len(scopes) >= 2
         /\ ctl[Len(ctl) - 1] = Pop(ctl)[Len(Pop(ctl))] /\ Pop(ctl) # <<>>
         /\ Ends(Pop(ctl)) => Len(scopes) >= 3
<1> DEFINE b == Pop(ctl)
<1>1. Top # "begin" /\ ctl[Len(ctl)] # "unit" /\ ctl[Len(ctl)] = "block"
  BY DEF Top
<1>2. /\ Stack(ctl) /\ Len(scopes) = 1 + Opens(ctl) /\ Opens(ctl) \in Nat
  BY <1>1, Active DEF BInv
<1>3. Opens1("block") = 1 /\ Opens1("end of function") = 1
  BY Marks
<1>4. Stack(b) /\ b # <<>> /\ Opens(b) = Opens(ctl) - 1 /\ b[Len(b)] = ctl[Len(ctl) - 1]
  BY <1>1, <1>2, <1>3, HoldsLess DEF Holds
<1>5. Opens(b) \in Nat
  BY <1>4, Held DEF Stack
<1> HIDE DEF b
<1>6. ASSUME Ends(b) PROVE Opens(b) >= 1
  <2>1. b[Len(b)] = "end of function" /\ b[Len(b)] # "unit"
    BY <1>6 DEF Ends
  <2>2. Stack(Pop(b)) /\ Opens(Pop(b)) = Opens(b) - 1
    BY <1>3, <1>4, <2>1, HoldsLess DEF Holds
  <2>3. Opens(Pop(b)) \in Nat
    BY <2>2, Held DEF Stack
  <2> QED
    BY <1>5, <2>2, <2>3
<1>7. Len(scopes) = Opens(b) + 2
  BY <1>2, <1>4, <1>5
<1>8. Ends(b) => Len(scopes) >= 3
  BY <1>5, <1>6, <1>7
<1> QED
  BY <1>4, <1>5, <1>7, <1>8 DEF b

\* One block closed, and two.
LEMMA Repeated ==
  ASSUME NEW s, IsSeq(s), NEW e
  PROVE  /\ s \o [i \in 1..1 |-> e] = Append(s, e)
         /\ s \o [i \in 1..2 |-> e] = Append(Append(s, e), e)
<1>1. [i \in 1..1 |-> e] = <<e>>
  OBVIOUS
<1>2. [i \in 1..2 |-> e] = <<e, e>>
  OBVIOUS
<1>3. s \o <<e>> = Append(s, e)
  BY Joined
<1>4. s \o <<e, e>> = Append(Append(s, e), e)
  BY Joined
<1> QED
  BY <1>1, <1>2, <1>3, <1>4, Zenon

\* The text with a block closed.
LEMMA ClosedBy ==
  ASSUME NEW h, History(h), NEW e, Closing(e)
  PROVE  /\ Longer(h, Append(h, e)) /\ History(Append(h, e)) /\ Closes(Append(h, e))
         /\ Append(h, e)[Len(Append(h, e))] = e
<1>1. /\ Longer(h, Append(h, e)) /\ (Closes(Append(h, e)) <=> Closing(e))
      /\ Append(h, e)[Len(Append(h, e))] = e
  BY HistoryMore
<1> QED
  BY <1>1 DEF Longer

\* One scope less.
LEMMA PopLess ==
  ASSUME NEW s \in Seq(AllScopes), Len(s) >= 2
  PROVE  Len(Pop(s)) = Len(s) - 1 /\ Len(s) \in Nat
<1>1. IsSeq(s) /\ Len(s) \in Nat /\ Len(s) - 1 \in 0..Len(s)
  BY DEF IsSeq
<1> QED
  BY <1>1, SubSeqFacts DEF Pop

\* A block ends, and with it maybe a function.
LEMMA LeaveBlockNames ==
  ASSUME SInv, CInv', LeaveBlock
  PROVE  SInv'
<1> DEFINE e == [Brace("}") EXCEPT !.at = pos]
           b == Pop(ctl)
           g == Append(hist, e)
<1>1. /\ ctl # <<>> /\ Top = "block" /\ ctl' = b \o <<>> /\ Expect("}")
      /\ decls' = decls /\ scopes' = Pop(scopes)
      /\ hist' = hist \o [i \in 1..(IF ctl[Len(ctl) - 1] = "end of function" THEN 2 ELSE 1) |-> e]
  BY Zenon DEF LeaveBlock, Doing, Return, Then
<1>2. /\ History(hist) /\ pos \in Nat /\ input \in Inputs /\ CInv /\ BInv
      /\ scopes \in Seq(AllScopes)
  BY TextFacts
<1>3. /\ Lex(scopes) \/ Stay
      /\ (err => err') /\ (~err' => Lex(scopes))
  BY <1>1, <1>2, ExpectFacts
<1>4. Top # "begin" /\ Top \notin Parts
  BY <1>1 DEF Parts, Inner
<1>5. decls = <<>>
  BY <1>1, <1>4, <1>2, DeclsHeld
<1>6. Closing(e) /\ e.at = pos
  BY <1>2, BraceFacts, Zenon
<1> HIDE DEF e
<1>7. /\ Len(scopes) \in Nat /\ Len(scopes) >= 2
      /\ ctl[Len(ctl) - 1] = b[Len(b)] /\ b # <<>>
      /\ Ends(b) => Len(scopes) >= 3
  BY <1>1, <1>2, ScopesToClose
<1>8. /\ ctl' = b /\ Above(b) /\ b[Len(b)] \notin Parts
  BY <1>1, <1>4, <1>7, UnderTop DEF Parts
<1> HIDE DEF b
<1>9. /\ Ends(b) => hist' = Append(g, e)
      /\ ~Ends(b) => hist' = g
  <2>1. IsSeq(hist)
    BY <1>2, HistoryFacts
  <2>2. hist \o [i \in 1..1 |-> e] = g /\ hist \o [i \in 1..2 |-> e] = Append(g, e)
    BY <2>1, Repeated
  <2> HIDE DEF g
  <2>3. CASE Ends(b)
    BY <1>1, <1>7, <2>2, <2>3, Zenon DEF Ends
  <2>4. CASE ~Ends(b)
    BY <1>1, <1>7, <2>2, <2>4, Zenon DEF Ends
  <2> QED
    BY <2>3, <2>4
<1>10. /\ Longer(hist, g) /\ History(g) /\ Closes(g) /\ g[Len(g)] = e
       /\ Longer(g, Append(g, e)) /\ Closes(Append(g, e)) /\ Append(g, e)[Len(Append(g, e))] = e
  <2>1. /\ Longer(hist, g) /\ History(g) /\ Closes(g) /\ g[Len(g)] = e
    BY <1>2, <1>6, ClosedBy
  <2> HIDE DEF g
  <2> QED
    BY <1>6, <2>1, ClosedBy
<1>11. Longer(hist, hist') /\ Closes(hist') /\ hist'[Len(hist')] = e
  <2> HIDE DEF g
  <2>1. Longer(hist, Append(g, e))
    BY <1>2, <1>10, LongerStill
  <2> QED
    BY <1>9, <1>10, <2>1
<1>12. ~Ends(ctl)
  BY <1>1 DEF Ends, Top
<1>13. ASSUME Good, ~err' PROVE Good'
  <2>1. Fits(scopes, hist)
    BY <1>12, <1>13 DEF Good, GoodAt, Cur
  <2>2. Fits(Pop(scopes), g)
    BY <1>6, <1>7, <2>1, FitsClose
  <2>3. Fits(Cur(ctl', scopes'), hist')
    <3>1. CASE Ends(b)
      <4>1. Len(Pop(scopes)) >= 2
        BY <1>2, <1>7, <3>1, PopLess
      <4>2. Fits(Pop(Pop(scopes)), Append(g, e))
        <5> HIDE DEF g
        <5> QED
          BY <1>6, <2>2, <4>1, FitsClose
      <4> QED
        BY <1>1, <1>8, <1>9, <3>1, <4>2 DEF Cur
    <3>2. CASE ~Ends(b)
      BY <1>1, <1>8, <1>9, <2>2, <3>2 DEF Cur
    <3> QED
      BY <3>1, <3>2
  <2>4. pos' = pos + 1
    BY <1>2, <1>3, <1>13, LexFacts
  <2>5. OldClose(hist', pos') /\ AfterClose(hist', pos')
    <3>1. hist'[Len(hist')].at + 1 = pos' /\ pos' <= pos'
      BY <1>2, <1>6, <1>11, <2>4
    <3> QED
      BY <1>11, <3>1 DEF OldClose, AfterClose
  <2>6. Waits(ctl', tok')
    BY <1>8 DEF Waits, Parts, Inner
  <2>7. DeclsGood(decls', scopes', hist', pos')
    <3>1. \A q \in 1..Len(<<>>) : FALSE
      OBVIOUS
    <3>2. DeclsGood(<<>>, scopes', hist', pos')
      BY <3>1, Zenon DEF DeclsGood
    <3> QED
      BY <1>1, <1>5, <3>2
  <2> QED
    BY <2>3, <2>5, <2>6, <2>7 DEF Good, GoodAt
<1> QED
  BY <1>3, <1>8, <1>11, <1>13, StepKeeps

-----------------------------------------------------------------------------
(* The text is right at every step *)

\* The text starts empty.
LEMMA InitNames ==
  ASSUME Init
  PROVE  SInv
<1>1. /\ input \in Inputs /\ pos = 0 /\ tok = [k |-> "none", n |-> "none"]
      /\ ctl = <<"begin">> /\ decls = <<>> /\ scopes = << <<>> >> /\ hist = <<>>
  BY Zenon DEF Init
<1>2. tok.n = "none" /\ tok.k # "ident"
  BY <1>1
<1>3. Kinds(tok) /\ Spelled(tok, scopes)
  BY <1>2 DEF Kinds, Spelled
<1>4. Len(<<>>) = 0 /\ \A i \in 1..Len(<<>>) : FALSE
  OBVIOUS
<1>5. History(hist)
  <2>1. <<>> \in Seq(Events)
    OBVIOUS
  <2> QED
    BY <1>1, <1>4, <2>1, Zenon DEF History
<1>6. Len(ctl) = 1 /\ \A i \in 1..Len(ctl) : ctl[i] = "begin"
  BY <1>1
<1>7. Above(ctl)
  <2>1. \A i \in 1..Len(ctl) : Plain(ctl[i])
    BY <1>6 DEF Plain, Parts, Inner
  <2>2. Len(ctl) \in Nat
    BY <1>6
  <2> QED
    BY <2>1, <2>2, AboveSelf
<1>8. ~Ends(ctl) /\ ~Closes(hist)
  <2>1. ctl[Len(ctl)] = "begin"
    BY <1>1
  <2>2. ~Ends(ctl)
    BY <2>1 DEF Ends
  <2>3. ~Closes(hist)
    BY <1>1, Zenon DEF Closes
  <2> QED
    BY <2>2, <2>3
<1>9. Fits(scopes, hist)
  <2>1. scopes \in Seq(AllScopes) /\ Len(scopes) = 1 /\ scopes[1] = <<>>
    BY <1>1, NoneTypes
  <2>2. Depth(hist, 0) = 0 /\ Len(hist) = 0
    <3>1. Many(hist, 1, 0, "{") = 0 /\ Many(hist, 1, 0, "}") = 0
      <4>1. 1 \in Int /\ 0 \in Int /\ 0 < 1
        OBVIOUS
      <4> QED
        BY <4>1, ManyFacts, Zenon
    <3>2. Depth(hist, 0) = 0 - 0
      BY <3>1, Zenon DEF Depth, Between
    <3> QED
      BY <1>1, <3>2
  <2>3. \A i \in 0..Len(hist) : Depth(hist, i) >= 0
    <3>1. \A i \in 0..0 : i = 0
      OBVIOUS
    <3> QED
      BY <2>2, <3>1
  <2>4. \A l \in 1..Len(scopes) : ScopeFits(scopes[l], hist, l)
    <3>1. ASSUME NEW l PROVE ScopeFits(<<>>, hist, l)
      <4>1. \A n : At(hist, n, l) = {}
        BY <1>4, <2>2 DEF At
      <4> QED
        BY <1>4, <4>1 DEF ScopeFits, Last
    <3>2. \A l \in 1..1 : l = 1
      OBVIOUS
    <3> QED
      BY <2>1, <3>1, <3>2
  <2> QED
    BY <1>5, <2>1, <2>2, <2>3, <2>4 DEF Fits
<1>10. DeclsGood(decls, scopes, hist, pos)
  BY <1>1, <1>4, Zenon DEF DeclsGood
<1>11. Good
  BY <1>3, <1>8, <1>9, <1>10 DEF Good, GoodAt, Cur, OldClose, AfterClose
<1> QED
  BY <1>1, <1>3, <1>5, <1>7, <1>11, InitInv DEF SInv, BInv

\* The parser that is done stays as it is.
LEMMA IdleNames ==
  ASSUME SInv, UNCHANGED vars
  PROVE  SInv'
<1>1. CInv'
  BY TextFacts, IdleInv
<1>2. /\ ctl' = ctl /\ decls' = decls /\ scopes' = scopes /\ hist' = hist /\ err' = err
      /\ Stay /\ tok' = tok /\ pos' = pos
  BY Zenon DEF vars, parser, Stay
<1>3. Longer(hist, hist') /\ Above(ctl')
  BY <1>2, TextFacts
<1>4. Good => Good'
  BY <1>2 DEF Good
<1> QED
  BY <1>1, <1>2, <1>3, <1>4, StepKeeps

\* Every step of the parser.
LEMMA ParseNames ==
  ASSUME SInv, Parse
  PROVE  SInv'
<1>0. CInv'
  BY TextFacts, ParseInv
<1>1. CASE Begin \/ UnitEnd \/ ExternalDecl \/ SpecWord \/ SpecName \/ SpecEnd
  BY <1>0, <1>1, BeginNames, UnitEndNames, StartNames, SpecWordNames, SpecEndNames
<1>2. CASE Star \/ DeclName \/ NoName \/ FuncSuffix \/ NoSuffix
  BY <1>0, <1>2, SpecWordNames, DeclNameNames, NoNameNames
<1>3. CASE EmptyParams \/ VoidParam \/ FirstParam \/ VoidParams \/ Param
  BY <1>0, <1>3, ParamsNames, ParamNames
<1>4. CASE Typedef \/ NamelessDecl \/ Define \/ Declare \/ EndFunction
  BY <1>0, <1>4, TypedefNames, UnitEndNames, DefineNames, DeclareNames, EndFunctionNames
<1>5. CASE EnterBlock \/ LocalDecl \/ BlockStatement \/ LeaveBlock \/ Local
  BY <1>0, <1>5, EnterBlockNames, StartNames, LeaveBlockNames, LocalNames
<1>6. CASE ExpectPunct \/ KeywordStatement \/ BlockOrExprStatement \/ OptionalWord
  BY <1>0, <1>6, PunctNames, KeywordNames, StatementNames
<1>7. CASE Number \/ Name \/ Paren \/ NoOperand
  BY <1>0, <1>7, OperandNames, NameNames
<1>8. CASE Postfix \/ Arguments \/ MoreArguments \/ CallDone
  BY <1>0, <1>8, OperandNames, ArgumentsNames, StatementNames
<1> QED
  BY <1>1, <1>2, <1>3, <1>4, <1>5, <1>6, <1>7, <1>8 DEF Parse

\* The scopes fit the text.
LEMMA NamesAgree == Spec => []SInv
<1>1. Init => SInv
  BY InitNames
<1>2. SInv /\ [Next]_vars => SInv'
  BY ParseNames, IdleNames DEF Next, Done
<1> QED
  BY <1>1, <1>2, PTL DEF Spec

\* The terms of Scopes and those of the invariant.
LEMMA SameTerms ==
  ASSUME SInv
  PROVE  /\ AfterBrace <=> AfterClose(hist, pos)
         /\ Valid => ~err /\ ~Twice(hist) /\ ~Redeclared
<1>1. AfterBrace <=> AfterClose(hist, pos)
  BY Zenon DEF AfterBrace, AfterClose, Closes
<1>2. Twice(hist) => Redeclared
  <2>1. /\ \A i : AtFile(i) <=> Depth(hist, i) = 0
        /\ DOMAIN hist = 1..Len(hist)
    BY TextFacts, DepthOf
  <2> QED
    BY <2>1 DEF Twice, Redeclared
<1> QED
  BY <1>1, <1>2 DEF Valid

\* For every text: the lexer says a name is a type, one token before the parser
\* gets to it, where C says it is one; but for the token after a "}".
THEOREM TypedefsAreCurrent == Spec => []TypedefsCurrent
<1>1. ASSUME SInv PROVE TypedefsCurrent
  <2> SUFFICES ASSUME tok.n # "none", ~AfterBrace, Valid
               PROVE  tok.k = "typename" <=> Meaning(tok.n).td
    BY DEF TypedefsCurrent
  <2>1. Good /\ ~AfterClose(hist, pos) /\ ~Redeclared
    BY <1>1, SameTerms DEF SInv
  <2>2. Spelled(tok, scopes) /\ Fits(scopes, hist)
    BY <2>1 DEF Good, GoodAt, Cur
  <2>3. tok.n \in Names
    BY <1>1, TextFacts DEF CInv, TypesInv, MaybeNames
  <2>4. Agrees(Lookup(scopes, tok.n), Meaning(tok.n))
    BY <2>1, <2>2, <2>3, Resolved
  <2> QED
    BY <2>2, <2>4 DEF Spelled, Agrees
<1>2. SInv => TypedefsCurrent
  BY <1>1
<1> QED
  BY NamesAgree, <1>2, PTL

\* For every text: of all the declarations of a name, in blocks that are open or
\* closed, the symbol table gives an expression the one that C means.
THEOREM NamesAreResolved == Spec => []NamesResolved
<1>1. ASSUME SInv PROVE NamesResolved
  <2> SUFFICES ASSUME Doing("expr"), tok.k = "ident", Valid
               PROVE  Lookup(scopes, tok.n).at = Meaning(tok.n).at
    BY DEF NamesResolved
  <2>1. Good /\ ~Redeclared
    BY <1>1, SameTerms DEF SInv
  <2>2. Fits(scopes, hist)
    <3>1. ~Ends(ctl)
      BY DEF Doing, Ends, Top
    <3> QED
      BY <2>1, <3>1 DEF Good, GoodAt, Cur
  <2>3. tok.n \in Names
    BY <1>1, TextFacts DEF Kinds
  <2>4. Agrees(Lookup(scopes, tok.n), Meaning(tok.n))
    BY <2>1, <2>2, <2>3, Resolved
  <2> QED
    BY <2>4 DEF Agrees
<1>2. SInv => NamesResolved
  BY <1>1
<1> QED
  BY NamesAgree, <1>2, PTL

=============================================================================
