----------------------- MODULE FrameRefinementProofs -----------------------
(***************************************************************************)
(* Compiling a body and running it is one of the executions C allows for   *)
(* it (Implements), for every body that names no global and declares       *)
(* nothing inside an if or a while.  The runs show that without the two    *)
(* conditions it is not.                                                   *)
(*                                                                         *)
(* Three things have to be known.  Along the code, what it does for the    *)
(* item it belongs to (Chain, in FrameProofs).  Across it, that a jump     *)
(* goes to the item C goes to from there, which C finds by counting the    *)
(* items that open and end statements and the parser by its labels         *)
(* (Structured).  And that the slots in scope are apart and above SP, so   *)
(* that a step changes no variable but the one it is about (ScopesOK, with *)
(* FrameInv).                                                              *)
(***************************************************************************)
EXTENDS FrameProofs

-----------------------------------------------------------------------------
(* The structure of a body *)

\* The items that open and end an if or a while.
OpenKinds == {"if", "while"}
CloseKinds == {"fi", "od"}
Before(p, i, kinds) == {j \in 1..(i - 1) : j \in DOMAIN p /\ p[j].k \in kinds}
\* how many ifs and whiles are open at item i
NestIn(p, i) == Cardinality(Before(p, i, OpenKinds)) - Cardinality(Before(p, i, CloseKinds))

\* Deeper than i from behind i to n.
Within(p, i, n) == \A k \in (i + 1)..n : NestIn(p, k) >= NestIn(p, i) + 1
\* Item j ends the if or while i; item e is its else, up to n there is none.
Closed(p, i, j) ==
  /\ i \in 1..Len(p) /\ j \in (i + 1)..Len(p) /\ p[j].k \in CloseKinds
  /\ NestIn(p, j) = NestIn(p, i) + 1 /\ Within(p, i, j)
NoElse(p, i, n) ==
  \A k \in (i + 1)..n : ~(p[k].k = "else" /\ NestIn(p, k) = NestIn(p, i) + 1)
ElseAt(p, i, e) ==
  /\ e \in (i + 1)..Len(p) /\ p[e].k = "else" /\ NestIn(p, e) = NestIn(p, i) + 1
  /\ NoElse(p, i, e - 1)

\* Where C goes from item i when the test fails, from the end of a loop, and
\* from the end of the then branch.
PastLoop(p, i, a) == \E j : Closed(p, i, j) /\ a = j + 1
PastThen(p, i, a) ==
  \E j : /\ Closed(p, i, j)
         /\ \/ NoElse(p, i, j) /\ a = j
            \/ \E e : ElseAt(p, i, e) /\ e < j /\ a = e + 1
BackTo(p, i, a) == Closed(p, a, i) /\ p[a].k = "while"
PastElse(p, i, a) ==
  /\ a \in (i + 1)..Len(p) /\ p[a].k = "fi" /\ NestIn(p, a) = NestIn(p, i)
  /\ \A k \in i..a : NestIn(p, k) >= NestIn(p, i)

\* Jump x goes to label y as C goes from item to item.
JumpOK(p, x, y) ==
  /\ x.at \in 1..Len(p) /\ y.in = x.in
  /\ \/ p[x.at].k = "while" /\ x.op = "jz" /\ PastLoop(p, x.at, y.at)
     \/ p[x.at].k = "if" /\ x.op = "jz" /\ PastThen(p, x.at, y.at)
     \/ p[x.at].k = "od" /\ x.op = "jp" /\ BackTo(p, x.at, y.at)
     \/ p[x.at].k = "else" /\ x.op = "jp" /\ PastElse(p, x.at, y.at)
     \/ p[x.at].k = "fi" /\ x.op = "jp" /\ y.at = x.at

\* One item more or less before.
LEMMA NestStep ==
  ASSUME NEW p, IsSeq(p), NEW i \in 1..Len(p)
  PROVE  /\ NestIn(p, i) \in Int
         /\ NestIn(p, i + 1) = NestIn(p, i) + (IF p[i].k \in OpenKinds THEN 1 ELSE 0)
                                            - (IF p[i].k \in CloseKinds THEN 1 ELSE 0)
<1>1. Len(p) \in Nat /\ DOMAIN p = 1..Len(p)
  BY SeqFacts
<1>2. i \in Nat /\ i >= 1 /\ i \in DOMAIN p
  BY <1>1
<1>3. ASSUME NEW K
      PROVE  /\ Cardinality(Before(p, i, K)) \in Nat
             /\ Cardinality(Before(p, i + 1, K))
                  = Cardinality(Before(p, i, K)) + (IF p[i].k \in K THEN 1 ELSE 0)
  <2> DEFINE S == Before(p, i, K)
             T == Before(p, i + 1, K)
  <2>1. S \in SUBSET (1..(i - 1)) /\ i \notin S
    BY <1>2 DEF Before
  <2>2. IsFiniteSet(1..(i - 1))
    BY <1>2, FS_Interval
  <2>3. IsFiniteSet(S)
    BY <2>1, <2>2, FS_Subset
  <2>4. Cardinality(S) \in Nat
    BY <2>3, FS_CardinalityType
  <2>5. \A j : j \in 1..(i + 1 - 1) <=> j \in 1..(i - 1) \/ j = i
    BY <1>2
  <2>6. T = IF p[i].k \in K THEN S \cup {i} ELSE S
    BY <1>2, <2>5 DEF Before
  <2> HIDE DEF S, T
  <2>7. Cardinality(S \cup {i}) = Cardinality(S) + 1
    BY <2>1, <2>3, FS_AddElement
  <2>8. CASE p[i].k \in K
    BY <2>4, <2>6, <2>7, <2>8 DEF S, T
  <2>9. CASE p[i].k \notin K
    <3>1. T = S
      BY <2>6, <2>9
    <3>2. Cardinality(T) = Cardinality(S) + 0
      BY <2>4, <3>1
    <3> QED
      BY <2>4, <2>9, <3>2 DEF S, T
  <2> QED
    BY <2>8, <2>9
<1> DEFINE a == Cardinality(Before(p, i, OpenKinds))
           b == Cardinality(Before(p, i, CloseKinds))
           c == Cardinality(Before(p, i + 1, OpenKinds))
           d == Cardinality(Before(p, i + 1, CloseKinds))
           u == IF p[i].k \in OpenKinds THEN 1 ELSE 0
           w == IF p[i].k \in CloseKinds THEN 1 ELSE 0
<1>4. a \in Nat /\ b \in Nat /\ c = a + u /\ d = b + w /\ u \in Nat /\ w \in Nat
  BY <1>3
<1>5. NestIn(p, i) = a - b /\ NestIn(p, i + 1) = c - d
  BY DEF NestIn
<1> HIDE DEF a, b, c, d, u, w
<1>6. a - b \in Int /\ c - d = a - b + u - w
  BY <1>4
<1> QED
  BY <1>5, <1>6 DEF u, w

\* At the first item nothing is open.
LEMMA NestFirst ==
  ASSUME NEW p
  PROVE  NestIn(p, 1) = 0
<1>1. \A K : Before(p, 1, K) = {}
  BY DEF Before
<1>2. Cardinality({}) = 0
  BY FS_EmptySet
<1> QED
  BY <1>1, <1>2 DEF NestIn

\* What comes later does not matter.
LEMMA NestSame ==
  ASSUME NEW p, IsSeq(p), NEW it, NEW i \in 1..(Len(p) + 1)
  PROVE  NestIn(Append(p, it), i) = NestIn(p, i)
<1>1. /\ Len(p) \in Nat /\ DOMAIN p = 1..Len(p) /\ DOMAIN Append(p, it) = 1..(Len(p) + 1)
      /\ \A j \in 1..Len(p) : Append(p, it)[j] = p[j]
  BY AppendFacts
<1>2. \A j \in 1..(i - 1) : j \in 1..Len(p) /\ j \in 1..(Len(p) + 1)
  BY <1>1
<1>3. \A K : Before(Append(p, it), i, K) = Before(p, i, K)
  BY <1>1, <1>2 DEF Before
<1> QED
  BY <1>3 DEF NestIn

\* The nesting of an item is a number.
LEMMA NestType ==
  ASSUME NEW p, IsSeq(p), NEW i \in 1..(Len(p) + 1)
  PROVE  NestIn(p, i) \in Int
<1>1. Len(p) \in Nat
  BY SeqFacts
<1>2. CASE i \in 1..Len(p)
  BY <1>2, NestStep
<1>3. CASE i \notin 1..Len(p) /\ Len(p) = 0
  <2>1. i = 1
    BY <1>1, <1>3
  <2> QED
    BY <2>1, NestFirst
<1>4. CASE i \notin 1..Len(p) /\ Len(p) # 0
  <2> DEFINE n == Len(p)
  <2>1. i = n + 1 /\ n \in 1..n
    BY <1>1, <1>4
  <2> DEFINE u == IF p[n].k \in OpenKinds THEN 1 ELSE 0
             w == IF p[n].k \in CloseKinds THEN 1 ELSE 0
  <2>2. NestIn(p, n) \in Int /\ NestIn(p, n + 1) = NestIn(p, n) + u - w
    BY <2>1, NestStep
  <2>3. u \in Int /\ w \in Int
    OBVIOUS
  <2> HIDE DEF n, u, w
  <2> QED
    BY <2>1, <2>2, <2>3
<1> QED
  BY <1>2, <1>3, <1>4

\* Once an if or while is closed, it remains so.
LEMMA StructSame ==
  ASSUME NEW p, IsSeq(p), NEW it, NEW i \in 1..Len(p)
  PROVE  LET r == Append(p, it)
         IN /\ \A j : Closed(p, i, j) => Closed(r, i, j)
            /\ \A n \in 0..Len(p) : NoElse(p, i, n) => NoElse(r, i, n)
            /\ \A e : ElseAt(p, i, e) => ElseAt(r, i, e)
            /\ \A n \in 0..(Len(p) + 1) : Within(p, i, n) => Within(r, i, n)
<1> DEFINE r == Append(p, it)
           n == Len(p)
<1>1. /\ n \in Nat /\ Len(r) = n + 1 /\ \A j \in 1..n : r[j] = p[j]
  BY AppendFacts
<1>2. \A j \in 1..(n + 1) : NestIn(r, j) = NestIn(p, j)
  BY NestSame
<1> HIDE DEF r
<1>3. ASSUME NEW m \in 0..(n + 1), Within(p, i, m)
      PROVE  Within(r, i, m)
  <2>1. i \in 1..(n + 1) /\ \A k \in (i + 1)..m : k \in 1..(n + 1)
    BY <1>1
  <2> QED
    BY <1>2, <1>3, <2>1 DEF Within
<1>4. ASSUME NEW m \in 0..n, NoElse(p, i, m)
      PROVE  NoElse(r, i, m)
  <2>1. i \in 1..(n + 1) /\ \A k \in (i + 1)..m : k \in 1..n /\ k \in 1..(n + 1)
    BY <1>1
  <2> QED
    BY <1>1, <1>2, <1>4, <2>1 DEF NoElse
<1>5. ASSUME NEW j, Closed(p, i, j)
      PROVE  Closed(r, i, j)
  <2>1. j \in (i + 1)..n
    BY <1>5 DEF Closed
  <2>2. j \in 1..n /\ j \in 1..(n + 1) /\ j \in (i + 1)..(n + 1) /\ i \in 1..(n + 1) /\ j \in 0..(n + 1)
    BY <1>1, <2>1
  <2>3. Within(r, i, j)
    BY <1>3, <1>5, <2>2 DEF Closed
  <2> QED
    BY <1>1, <1>2, <1>5, <2>2, <2>3 DEF Closed
<1>6. ASSUME NEW e, ElseAt(p, i, e)
      PROVE  ElseAt(r, i, e)
  <2>1. e \in (i + 1)..n
    BY <1>6 DEF ElseAt
  <2>2. e \in 1..n /\ e \in 1..(n + 1) /\ e \in (i + 1)..(n + 1) /\ i \in 1..(n + 1) /\ e - 1 \in 0..n
    BY <1>1, <2>1
  <2>3. NoElse(r, i, e - 1)
    BY <1>4, <1>6, <2>2 DEF ElseAt
  <2> QED
    BY <1>1, <1>2, <1>6, <2>2, <2>3 DEF ElseAt
<1> QED
  BY <1>3, <1>4, <1>5, <1>6 DEF r, n

\* A jump that is right remains right.
LEMMA JumpSame ==
  ASSUME NEW p, IsSeq(p), NEW it, NEW x, NEW y, JumpOK(p, x, y)
  PROVE  JumpOK(Append(p, it), x, y)
<1> DEFINE r == Append(p, it)
           n == Len(p)
           i == x.at
<1>1. /\ n \in Nat /\ Len(r) = n + 1 /\ \A j \in 1..n : r[j] = p[j]
  BY AppendFacts
<1>2. \A j \in 1..(n + 1) : NestIn(r, j) = NestIn(p, j)
  BY NestSame
<1>3. /\ \A k \in 1..n : \A j : Closed(p, k, j) => Closed(r, k, j)
      /\ \A k \in 1..n : \A m \in 0..n : NoElse(p, k, m) => NoElse(r, k, m)
      /\ \A k \in 1..n : \A e : ElseAt(p, k, e) => ElseAt(r, k, e)
  BY StructSame
<1>4. i \in 1..n /\ i \in 1..(n + 1) /\ y.in = x.in
  <2>1. i \in 1..n /\ y.in = x.in
    BY DEF JumpOK
  <2> QED
    BY <1>1, <2>1
<1>5. \A k, j : Closed(p, k, j) => k \in 1..n /\ j \in 0..n
  <2>1. ASSUME NEW k, NEW j, Closed(p, k, j)
        PROVE  k \in 1..n /\ j \in 0..n
    <3>1. k \in 1..n /\ j \in (k + 1)..n
      BY <2>1 DEF Closed
    <3> QED
      BY <1>1, <3>1
  <2> QED
    BY <2>1
<1>6. r[i] = p[i]
  BY <1>1, <1>4
<1> HIDE DEF r, n
<1> DEFINE a == y.at
<1>7. PastLoop(p, i, a) => PastLoop(r, i, a)
  BY <1>3, <1>4 DEF PastLoop
<1>8. PastThen(p, i, a) => PastThen(r, i, a)
  <2> SUFFICES ASSUME PastThen(p, i, a)
               PROVE  PastThen(r, i, a)
    OBVIOUS
  <2>1. PICK j : /\ Closed(p, i, j)
                 /\ \/ NoElse(p, i, j) /\ a = j
                    \/ \E e : ElseAt(p, i, e) /\ e < j /\ a = e + 1
    BY DEF PastThen
  <2>2. j \in 0..n
    BY <1>5, <2>1
  <2> QED
    BY <1>3, <1>4, <2>1, <2>2 DEF PastThen
<1>9. BackTo(p, i, a) => BackTo(r, i, a)
  <2> SUFFICES ASSUME BackTo(p, i, a)
               PROVE  BackTo(r, i, a)
    OBVIOUS
  <2>1. a \in 1..n
    BY <1>5 DEF BackTo
  <2> QED
    BY <1>1, <1>3, <2>1 DEF BackTo
<1>10. PastElse(p, i, a) => PastElse(r, i, a)
  <2> SUFFICES ASSUME PastElse(p, i, a)
               PROVE  PastElse(r, i, a)
    OBVIOUS
  <2>1. /\ a \in (i + 1)..n /\ p[a].k = "fi" /\ NestIn(p, a) = NestIn(p, i)
        /\ \A k \in i..a : NestIn(p, k) >= NestIn(p, i)
    BY DEF PastElse, n
  <2>2. /\ a \in 1..n /\ a \in 1..(n + 1) /\ a \in (i + 1)..(n + 1)
        /\ \A k \in i..a : k \in 1..(n + 1)
    BY <1>1, <1>4, <2>1
  <2>3. r[a].k = "fi" /\ NestIn(r, a) = NestIn(r, i)
    BY <1>1, <1>2, <1>4, <2>1, <2>2
  <2>4. \A k \in i..a : NestIn(r, k) >= NestIn(r, i)
    BY <1>2, <1>4, <2>1, <2>2
  <2> QED
    BY <1>1, <2>2, <2>3, <2>4 DEF PastElse
<1>11. i \in 1..Len(r)
  BY <1>1, <1>4
<1> QED
  BY <1>6, <1>7, <1>8, <1>9, <1>10, <1>11 DEF JumpOK, r

-----------------------------------------------------------------------------
(* C's control flow *)

\* The least of a set of numbers, for CBody's Min.
LEMMA LeastIs ==
  ASSUME NEW S \in SUBSET Int, NEW x \in S, \A y \in S : x <= y
  PROVE  C!Min(S) = x
<1>1. \A y \in S : (\A z \in S : y <= z) => y = x
  OBVIOUS
<1> QED
  BY <1>1 DEF C!Min

\* The largest one, for CBody's Max.
LEMMA LargestIs ==
  ASSUME NEW S \in SUBSET Int, NEW x \in S, \A y \in S : x >= y
  PROVE  C!Max(S) = x
<1>1. \A y \in S : (\A z \in S : y >= z) => y = x
  OBVIOUS
<1> QED
  BY <1>1 DEF C!Max

\* CBody counts the open ifs and whiles in the same way.
LEMMA NestIs == ASSUME NEW i PROVE C!Nest(i) = NestIn(prog, i)
<1>1. \A S : C!Cardinality(S) = Cardinality(S)
  BY DEF C!Cardinality, Cardinality
<1>2. \A K : {j \in 1..(i - 1) : C!Is(j, K)} = Before(prog, i, K)
  BY DEF C!Is, Before
<1> QED
  BY <1>1, <1>2 DEF C!Nest, NestIn, OpenKinds, CloseKinds

\* Where an if or while ends, the first item is that closes what it opens.
LEMMA EndIs ==
  ASSUME IsSeq(prog), NEW i, NEW j, Closed(prog, i, j)
  PROVE  C!EndOf(i) = j
<1> DEFINE S == {k \in (i + 1)..Len(prog) : C!Is(k, {"fi", "od"}) /\ C!Nest(k) = C!Nest(i) + 1}
           n == Len(prog)
<1>1. /\ n \in Nat /\ DOMAIN prog = 1..n
      /\ i \in 1..n /\ j \in (i + 1)..n /\ prog[j].k \in {"fi", "od"}
      /\ NestIn(prog, j) = NestIn(prog, i) + 1
      /\ \A k \in (i + 1)..j : NestIn(prog, k) >= NestIn(prog, i) + 1
  BY SeqFacts DEF Closed, CloseKinds, Within
<1>2. C!EndOf(i) = C!Min(S)
  BY DEF C!EndOf
<1>3. \A k : k \in S <=> /\ k \in (i + 1)..n /\ prog[k].k \in {"fi", "od"}
                         /\ NestIn(prog, k) = NestIn(prog, i) + 1
  <2>1. \A k \in (i + 1)..n : k \in DOMAIN prog
    BY <1>1
  <2> QED
    BY <2>1, NestIs DEF C!Is
<1> HIDE DEF S, n
<1>4. j \in S
  BY <1>1, <1>3
<1>5. ASSUME NEW k \in S
      PROVE  j <= k
  <2>1. k \in (i + 1)..n /\ prog[k].k \in {"fi", "od"} /\ NestIn(prog, k) = NestIn(prog, i) + 1
    BY <1>3
  <2>2. k \in 1..n /\ k + 1 \in Int /\ i \in 1..(n + 1)
    BY <1>1, <2>1
  <2>3. NestIn(prog, i) \in Int
    BY <2>2, NestType DEF n
  <2>4. prog[k].k \in CloseKinds /\ prog[k].k \notin OpenKinds
    BY <2>1 DEF CloseKinds, OpenKinds
  <2>5. NestIn(prog, k + 1) = NestIn(prog, k) + 0 - 1
    BY <2>2, <2>4, NestStep DEF n
  <2>6. NestIn(prog, k + 1) = NestIn(prog, i)
    BY <2>1, <2>3, <2>5
  <2>7. k + 1 \notin (i + 1)..j
    BY <1>1, <2>3, <2>6
  <2> QED
    BY <1>1, <2>1, <2>2, <2>7
<1>6. S \in SUBSET Int
  BY <1>3
<1> QED
  BY <1>2, <1>4, <1>5, <1>6, LeastIs

\* Where a loop goes when its test fails.
LEMMA PastLoopIs ==
  ASSUME IsSeq(prog), NEW i, NEW a, PastLoop(prog, i, a), prog[i].k = "while"
  PROVE  C!AfterFalse(i) = a
<1>1. PICK j : Closed(prog, i, j) /\ a = j + 1
  BY DEF PastLoop
<1>2. C!EndOf(i) = j
  BY <1>1, EndIs
<1> QED
  BY <1>1, <1>2 DEF C!AfterFalse

\* Where an if goes when its test fails.
LEMMA PastThenIs ==
  ASSUME IsSeq(prog), NEW i, NEW a, PastThen(prog, i, a), prog[i].k = "if"
  PROVE  C!AfterFalse(i) = a
<1> DEFINE n == Len(prog)
           S == C!ElseOf(i)
<1>1. PICK j : /\ Closed(prog, i, j)
               /\ \/ NoElse(prog, i, j) /\ a = j
                  \/ \E e : ElseAt(prog, i, e) /\ e < j /\ a = e + 1
  BY DEF PastThen
<1>2. C!EndOf(i) = j
  BY <1>1, EndIs
<1>3. n \in Nat /\ DOMAIN prog = 1..n /\ i \in 1..n /\ j \in (i + 1)..n
  BY <1>1, SeqFacts DEF Closed
<1>4. \A k : k \in S <=> /\ k \in (i + 1)..j /\ prog[k].k = "else"
                         /\ NestIn(prog, k) = NestIn(prog, i) + 1
  <2>1. \A k \in (i + 1)..j : k \in DOMAIN prog
    BY <1>3
  <2> QED
    BY <1>2, <2>1, NestIs DEF C!Is, C!ElseOf
<1>5. C!AfterFalse(i) = IF S = {} THEN j ELSE C!Min(S) + 1
  BY <1>2 DEF C!AfterFalse
<1> HIDE DEF S, n
<1>6. CASE NoElse(prog, i, j) /\ a = j
  <2>1. S = {}
    BY <1>4, <1>6 DEF NoElse
  <2> QED
    BY <1>5, <1>6, <2>1
<1>7. CASE \E e : ElseAt(prog, i, e) /\ e < j /\ a = e + 1
  <2>1. PICK e : ElseAt(prog, i, e) /\ e < j /\ a = e + 1
    BY <1>7
  <2>2. e \in (i + 1)..n /\ e \in (i + 1)..j
    BY <1>3, <2>1 DEF ElseAt, n
  <2>3. e \in S
    BY <1>4, <2>1, <2>2 DEF ElseAt
  <2>4. ASSUME NEW k \in S
        PROVE  e <= k
    <3>1. k \in (i + 1)..j /\ prog[k].k = "else" /\ NestIn(prog, k) = NestIn(prog, i) + 1
      BY <1>4
    <3>2. k \notin (i + 1)..(e - 1)
      BY <2>1, <3>1 DEF ElseAt, NoElse
    <3> QED
      BY <1>3, <2>2, <3>1, <3>2
  <2>5. S \in SUBSET Int
    BY <1>4
  <2>6. C!Min(S) = e
    BY <2>3, <2>4, <2>5, LeastIs
  <2> QED
    BY <1>5, <2>1, <2>3, <2>6
<1> QED
  BY <1>1, <1>6, <1>7

\* Where the end of a loop goes.
LEMMA BackToIs ==
  ASSUME IsSeq(prog), NEW i, NEW a, BackTo(prog, i, a)
  PROVE  C!WhileOf(i) = a
<1> DEFINE S == {k \in 1..(i - 1) : C!Is(k, {"while"}) /\ C!Nest(k) = C!Nest(i) - 1}
           n == Len(prog)
<1>1. /\ n \in Nat /\ DOMAIN prog = 1..n
      /\ a \in 1..n /\ i \in (a + 1)..n /\ prog[a].k = "while"
      /\ NestIn(prog, i) = NestIn(prog, a) + 1
      /\ \A k \in (a + 1)..i : NestIn(prog, k) >= NestIn(prog, a) + 1
  BY SeqFacts DEF BackTo, Closed, Within
<1>2. C!WhileOf(i) = C!Max(S)
  BY DEF C!WhileOf
<1>3. \A k : k \in S <=> /\ k \in 1..(i - 1) /\ prog[k].k = "while"
                         /\ NestIn(prog, k) = NestIn(prog, i) - 1
  <2>1. \A k \in 1..(i - 1) : k \in DOMAIN prog
    BY <1>1
  <2> QED
    BY <2>1, NestIs DEF C!Is
<1> HIDE DEF S, n
<1>4. NestIn(prog, a) \in Int
  <2>1. a \in 1..(n + 1)
    BY <1>1
  <2> QED
    BY <2>1, NestType DEF n
<1>5. NestIn(prog, a) = NestIn(prog, i) - 1
  BY <1>1, <1>4
<1>6. a \in S
  <2>1. a \in 1..(i - 1)
    BY <1>1
  <2> QED
    BY <1>1, <1>3, <1>5, <2>1
<1>7. ASSUME NEW k \in S
      PROVE  a >= k
  <2>1. k \in 1..(i - 1) /\ NestIn(prog, k) = NestIn(prog, a)
    BY <1>3, <1>5
  <2>2. k \notin (a + 1)..i
    BY <1>1, <1>4, <2>1
  <2> QED
    BY <1>1, <2>1, <2>2
<1>8. S \in SUBSET Int
  BY <1>3
<1> QED
  BY <1>2, <1>6, <1>7, <1>8, LargestIs

\* Where the end of the then branch goes.
LEMMA PastElseIs ==
  ASSUME IsSeq(prog), NEW i \in 1..Len(prog), NEW a, PastElse(prog, i, a), prog[i].k = "else"
  PROVE  C!Min({k \in i..Len(prog) : C!Is(k, {"fi"}) /\ C!Nest(k) = C!Nest(i)}) = a
<1> DEFINE S == {k \in i..Len(prog) : C!Is(k, {"fi"}) /\ C!Nest(k) = C!Nest(i)}
           n == Len(prog)
<1>1. /\ n \in Nat /\ DOMAIN prog = 1..n /\ a \in (i + 1)..n /\ prog[a].k = "fi"
      /\ NestIn(prog, a) = NestIn(prog, i)
      /\ \A k \in i..a : NestIn(prog, k) >= NestIn(prog, i)
  BY SeqFacts DEF PastElse
<1>2. i \in 1..n
  OBVIOUS
<1>3. \A k : k \in S <=> k \in i..n /\ prog[k].k = "fi" /\ NestIn(prog, k) = NestIn(prog, i)
  <2>1. \A k \in i..n : k \in DOMAIN prog
    BY <1>1
  <2> QED
    BY <2>1, NestIs DEF C!Is
<1> HIDE DEF S, n
<1>4. a \in S
  BY <1>1, <1>2, <1>3
<1>5. NestIn(prog, i) \in Int
  <2>1. i \in 1..(n + 1)
    BY <1>1, <1>2
  <2> QED
    BY <2>1, NestType DEF n
<1>6. ASSUME NEW k \in S
      PROVE  a <= k
  <2>1. k \in i..n /\ prog[k].k = "fi" /\ NestIn(prog, k) = NestIn(prog, i)
    BY <1>3
  <2>2. k \in 1..n /\ prog[k].k \in CloseKinds /\ prog[k].k \notin OpenKinds
    BY <1>2, <2>1 DEF CloseKinds, OpenKinds
  <2>3. NestIn(prog, k + 1) = NestIn(prog, k) + 0 - 1
    BY <2>2, NestStep DEF n
  <2>4. k + 1 \notin i..a
    BY <1>1, <1>5, <2>1, <2>3
  <2> QED
    BY <1>1, <1>2, <2>1, <2>4
<1>7. S \in SUBSET Int
  BY <1>2, <1>3
<1>8. C!Min(S) = a
  BY <1>4, <1>6, <1>7, LeastIs
<1> QED
  BY <1>8 DEF S

-----------------------------------------------------------------------------
(* The open statements of the parser *)

\* What an open statement adds to the scopes, and to the open ifs and whiles.
Deep(f) == IF f.k = "block" THEN 1 ELSE 0
Bump(f) == IF f.k = "block" THEN 0 ELSE 1

\* L has, for each open statement and for what it holds, how many ifs and
\* whiles are open around it and how many scopes.
Nested(ct, L) ==
  /\ IsSeq(ct) /\ IsSeq(L) /\ Len(L) = Len(ct) + 1
  /\ L[1].lvl = 0 /\ L[1].dep = 2
  /\ \A q \in 1..(Len(ct) + 1) : L[q].lvl \in Nat /\ L[q].dep \in Nat
  /\ \A q \in 1..Len(ct) : /\ L[q + 1].lvl = L[q].lvl + Bump(ct[q])
                           /\ L[q + 1].dep = L[q].dep + Deep(ct[q])
  /\ \A q \in 1..Len(ct) : \A r \in (q + 1)..(Len(ct) + 1) :
       L[r].lvl >= L[q].lvl + Bump(ct[q]) /\ L[r].dep >= L[q].dep + Deep(ct[q])

\* What an open statement adds to the nesting and to the scopes.
LEMMA DeepFacts ==
  ASSUME NEW f
  PROVE  /\ Deep(f) \in Nat /\ Bump(f) \in Nat
         /\ f.k = "block" => Deep(f) = 1 /\ Bump(f) = 0
         /\ f.k # "block" => Deep(f) = 0 /\ Bump(f) = 1
BY DEF Deep, Bump

\* One more statement is open.
LEMMA NestedMore ==
  ASSUME NEW ct, NEW L, Nested(ct, L), NEW f, NEW z,
         z.lvl = L[Len(ct) + 1].lvl + Bump(f), z.dep = L[Len(ct) + 1].dep + Deep(f)
  PROVE  Nested(Append(ct, f), Append(L, z))
<1> DEFINE n == Len(ct)
           c == Append(ct, f)
           M == Append(L, z)
<1>1. /\ n \in Nat /\ IsSeq(c) /\ Len(c) = n + 1 /\ c[n + 1] = f
      /\ \A i \in 1..n : c[i] = ct[i]
  BY AppendFacts DEF Nested
<1>2. /\ IsSeq(M) /\ Len(M) = n + 2 /\ M[n + 2] = z
      /\ \A i \in 1..(n + 1) : M[i] = L[i]
  <2>1. Len(L) = n + 1 /\ IsSeq(L)
    BY DEF Nested
  <2>2. n + 1 + 1 = n + 2
    BY <1>1
  <2> QED
    BY <2>1, <2>2, AppendFacts
<1>3. /\ L[1].lvl = 0 /\ L[1].dep = 2
      /\ \A q \in 1..(n + 1) : L[q].lvl \in Nat /\ L[q].dep \in Nat
      /\ \A q \in 1..n : /\ L[q + 1].lvl = L[q].lvl + Bump(ct[q])
                         /\ L[q + 1].dep = L[q].dep + Deep(ct[q])
      /\ \A q \in 1..n : \A r \in (q + 1)..(n + 1) :
           L[r].lvl >= L[q].lvl + Bump(ct[q]) /\ L[r].dep >= L[q].dep + Deep(ct[q])
  BY DEF Nested
<1>4. z.lvl = L[n + 1].lvl + Bump(f) /\ z.dep = L[n + 1].dep + Deep(f)
  OBVIOUS
<1>5. \A g : Deep(g) \in Nat /\ Bump(g) \in Nat
  BY DeepFacts
<1> HIDE DEF n, c, M
<1>6. M[1].lvl = 0 /\ M[1].dep = 2
  <2>1. 1 \in 1..(n + 1)
    BY <1>1
  <2> QED
    BY <1>2, <1>3, <2>1
<1>7. n + 1 \in 1..(n + 1)
  BY <1>1
<1>8. L[n + 1].lvl \in Nat /\ L[n + 1].dep \in Nat
  BY <1>3, <1>7
<1>9. z.lvl \in Nat /\ z.dep \in Nat /\ z.lvl >= L[n + 1].lvl /\ z.dep >= L[n + 1].dep
  BY <1>4, <1>5, <1>8
<1>10. \A q \in 1..(n + 2) : M[q].lvl \in Nat /\ M[q].dep \in Nat
  <2>1. \A q \in 1..(n + 2) : q \in 1..(n + 1) \/ q = n + 2
    BY <1>1
  <2> QED
    BY <1>2, <1>3, <1>9, <2>1
<1>11. ASSUME NEW q \in 1..(n + 1)
       PROVE  /\ M[q + 1].lvl = M[q].lvl + Bump(c[q])
              /\ M[q + 1].dep = M[q].dep + Deep(c[q])
  <2>1. CASE q = n + 1
    <3>1. M[q] = L[n + 1] /\ M[q + 1] = z /\ c[q] = f
      BY <1>1, <1>2, <1>7, <2>1
    <3> QED
      BY <1>4, <3>1
  <2>2. CASE q # n + 1
    <3>1. q \in 1..n /\ q + 1 \in 1..(n + 1)
      BY <1>1, <2>2
    <3> QED
      BY <1>1, <1>2, <1>3, <3>1
  <2> QED
    BY <2>1, <2>2
<1>12. ASSUME NEW q \in 1..(n + 1), NEW r \in (q + 1)..(n + 2)
       PROVE  M[r].lvl >= M[q].lvl + Bump(c[q]) /\ M[r].dep >= M[q].dep + Deep(c[q])
  <2>1. CASE q = n + 1
    <3>1. r = n + 2
      BY <1>1, <2>1
    <3>2. M[q] = L[n + 1] /\ M[r] = z /\ c[q] = f
      BY <1>1, <1>2, <1>7, <2>1, <3>1
    <3>3. z.lvl >= z.lvl /\ z.dep >= z.dep
      BY <1>9
    <3> QED
      BY <1>4, <3>2, <3>3
  <2>2. CASE q # n + 1 /\ r = n + 2
    <3>1. q \in 1..n /\ n + 1 \in (q + 1)..(n + 1)
      BY <1>1, <2>2
    <3>2. L[n + 1].lvl >= L[q].lvl + Bump(ct[q]) /\ L[n + 1].dep >= L[q].dep + Deep(ct[q])
      BY <1>3, <3>1
    <3>3. M[q] = L[q] /\ M[r] = z /\ c[q] = ct[q]
      BY <1>1, <1>2, <2>2, <3>1
    <3>4. L[q].lvl \in Nat /\ L[q].dep \in Nat
      BY <1>3
    <3>5. z.lvl >= L[q].lvl + Bump(ct[q]) /\ z.dep >= L[q].dep + Deep(ct[q])
      <4>1. Bump(ct[q]) \in Nat /\ Deep(ct[q]) \in Nat
        BY <1>5
      <4>2. \A a, b, u, v \in Nat : a >= b /\ b >= u + v => a >= u + v
        OBVIOUS
      <4> QED
        BY <1>8, <1>9, <3>2, <3>4, <4>1, <4>2
    <3> QED
      BY <3>3, <3>5
  <2>3. CASE q # n + 1 /\ r # n + 2
    <3>0. q \in 1..n
      BY <1>1, <2>3
    <3>1. q \in 1..n /\ r \in (q + 1)..(n + 1) /\ r \in 1..(n + 1)
      BY <1>1, <2>3, <3>0
    <3> QED
      BY <1>1, <1>2, <1>3, <3>1
  <2> QED
    BY <2>1, <2>2, <2>3
<1>13. n + 1 + 1 = n + 2
  BY <1>1
<1> QED
  BY <1>1, <1>2, <1>6, <1>10, <1>11, <1>12, <1>13 DEF Nested, c, M

\* One statement less is open.
LEMMA NestedLess ==
  ASSUME NEW ct, NEW L, Nested(ct, L), ct # <<>>
  PROVE  Nested(Butlast(ct), Butlast(L))
<1> DEFINE n == Len(ct)
           c == Butlast(ct)
           M == Butlast(L)
<1>1. /\ n \in Nat \ {0} /\ IsSeq(c) /\ Len(c) = n - 1
      /\ \A i \in 1..(n - 1) : c[i] = ct[i]
  BY ButlastFacts DEF Nested
<1>2. IsSeq(M) /\ Len(M) = n /\ \A i \in 1..n : M[i] = L[i]
  <2>1. Len(L) = n + 1 /\ IsSeq(L)
    BY DEF Nested
  <2>2. n + 1 - 1 = n /\ n + 1 # 0
    BY <1>1
  <2>3. L # <<>>
    BY <2>1, <2>2, SeqFacts
  <2> QED
    BY <2>1, <2>2, <2>3, ButlastFacts
<1>3. /\ L[1].lvl = 0 /\ L[1].dep = 2
      /\ \A q \in 1..(n + 1) : L[q].lvl \in Nat /\ L[q].dep \in Nat
      /\ \A q \in 1..n : /\ L[q + 1].lvl = L[q].lvl + Bump(ct[q])
                         /\ L[q + 1].dep = L[q].dep + Deep(ct[q])
      /\ \A q \in 1..n : \A r \in (q + 1)..(n + 1) :
           L[r].lvl >= L[q].lvl + Bump(ct[q]) /\ L[r].dep >= L[q].dep + Deep(ct[q])
  BY DEF Nested
<1> HIDE DEF n, c, M
<1>4. /\ n - 1 + 1 = n /\ 1 \in 1..n
      /\ \A q \in 1..(n - 1) : q \in 1..n /\ q + 1 \in 1..n
      /\ \A q \in 1..n : q \in 1..(n + 1)
      /\ \A q \in 1..(n - 1) : \A r \in (q + 1)..n : r \in (q + 1)..(n + 1) /\ r \in 1..n
  BY <1>1
<1>5. /\ M[1].lvl = 0 /\ M[1].dep = 2
      /\ \A q \in 1..n : M[q].lvl \in Nat /\ M[q].dep \in Nat
  BY <1>2, <1>3, <1>4
<1>6. \A q \in 1..(n - 1) : /\ M[q + 1].lvl = M[q].lvl + Bump(c[q])
                            /\ M[q + 1].dep = M[q].dep + Deep(c[q])
  BY <1>1, <1>2, <1>3, <1>4
<1>7. ASSUME NEW q \in 1..(n - 1), NEW r \in (q + 1)..n
      PROVE  M[r].lvl >= M[q].lvl + Bump(c[q]) /\ M[r].dep >= M[q].dep + Deep(c[q])
  <2>1. q \in 1..n /\ r \in (q + 1)..(n + 1) /\ r \in 1..n
    BY <1>4
  <2>2. M[r] = L[r] /\ M[q] = L[q] /\ c[q] = ct[q]
    BY <1>1, <1>2, <2>1
  <2> QED
    BY <1>3, <2>1, <2>2
<1> QED
  BY <1>1, <1>2, <1>4, <1>5, <1>6, <1>7 DEF Nested, c, M

\* A range with its next number.
LEMMA UpToNext ==
  ASSUME NEW a \in Int, NEW b \in Int
  PROVE  \A k \in (a + 1)..(b + 1) : k \in (a + 1)..b \/ k = b + 1
OBVIOUS

\* Nothing of this depends on more than the kinds of the statements.
Alike(f, g) == f.k = g.k /\ f.l1 = g.l1 /\ f.l2 = g.l2
AllAlike(ct, cu) == IsSeq(cu) /\ Len(cu) = Len(ct) /\ \A q \in 1..Len(ct) : Alike(ct[q], cu[q])

\* Open statements that differ in nothing that counts.
LEMMA NestedAlike ==
  ASSUME NEW ct, NEW cu, NEW L, Nested(ct, L), AllAlike(ct, cu)
  PROVE  Nested(cu, L)
<1>1. \A q \in 1..Len(ct) : Bump(cu[q]) = Bump(ct[q]) /\ Deep(cu[q]) = Deep(ct[q])
  BY DEF AllAlike, Alike, Bump, Deep
<1> QED
  BY <1>1 DEF Nested, AllAlike

\* A statement only ends the declarations of its block.
LEMMA OpenedAlike ==
  ASSUME LInv, ctl # <<>>
  PROVE  AllAlike(ctl, Opened)
<1>1. IsSeq(ctl)
  BY DEF LInv, CtlOK
<1>2. CASE mode = "stmt"
  BY <1>1, <1>2 DEF AllAlike, Alike, Opened
<1>3. CASE mode # "stmt"
  <2> DEFINE n == Len(ctl)
             f == [Top EXCEPT !.decls = FALSE]
             c == Append(Below, f)
  <2>1. /\ IsSeq(c) /\ n \in Nat \ {0} /\ Len(c) = n
        /\ \A i \in 1..(n - 1) : c[i] = ctl[i]
        /\ c[n] = f
    <3>1. c = Replaced(ctl, f)
      BY DEF Replaced, Butlast, Below
    <3> HIDE DEF c, f
    <3> QED
      BY <1>1, <3>1, ReplaceFacts
  <2>2. Alike(Top, f)
    <3>1. f.k = Top.k /\ f.l1 = Top.l1 /\ f.l2 = Top.l2
      OBVIOUS
    <3> QED
      BY <3>1 DEF Alike
  <2>3. Opened = c
    BY <1>3 DEF Opened
  <2> HIDE DEF c, f
  <2>4. \A q \in 1..n : q \in 1..(n - 1) \/ q = n
    BY <2>1
  <2> HIDE DEF n
  <2>5. \A q \in 1..n : Alike(ctl[q], c[q])
    BY <2>1, <2>2, <2>4 DEF Alike, Top, n
  <2> QED
    BY <2>1, <2>3, <2>5 DEF AllAlike, n
<1> QED
  BY <1>2, <1>3

Inc(it) == (IF it.k \in OpenKinds THEN 1 ELSE 0) - (IF it.k \in CloseKinds THEN 1 ELSE 0)

\* The open if or while f: its item is g.at, and its else g.els.
Owns(p, f, g, l) ==
  /\ g.at \in 1..Len(p) /\ p[g.at].k = IF f.k = "while" THEN "while" ELSE "if"
  /\ NestIn(p, g.at) = l /\ Within(p, g.at, Len(p) + 1)
  /\ f.k = "then" => NoElse(p, g.at, Len(p))
  /\ f.k = "else" => ElseAt(p, g.at, g.els)
Owned(p, s, ct, L, G, m) ==
  \A q \in 1..m : ct[q].k # "block" =>
    Owns(p, ct[q], G[q], L[q].lvl) /\ G[q].in = SubSeq(s, 1, L[q].dep)
Stands(p, s, ct, L, G) ==
  /\ IsSeq(p) /\ L[Len(ct) + 1].lvl = NestIn(p, Len(p) + 1) /\ L[Len(ct) + 1].dep = Len(s)
  /\ IsSeq(G) /\ Len(G) = Len(ct) /\ Owned(p, s, ct, L, G, Len(ct))

\* The nesting behind one more item.
LEMMA NestGrows ==
  ASSUME NEW p, IsSeq(p), NEW it
  PROVE  /\ NestIn(p, Len(p) + 1) \in Int /\ Inc(it) \in Int
         /\ NestIn(Append(p, it), Len(p) + 1) = NestIn(p, Len(p) + 1)
         /\ NestIn(Append(p, it), Len(p) + 2) = NestIn(p, Len(p) + 1) + Inc(it)
<1> DEFINE r == Append(p, it)
           n == Len(p)
           u == IF it.k \in OpenKinds THEN 1 ELSE 0
           w == IF it.k \in CloseKinds THEN 1 ELSE 0
<1>1. n \in Nat /\ IsSeq(r) /\ Len(r) = n + 1 /\ r[n + 1] = it
  BY AppendFacts
<1>2. n + 1 \in 1..Len(r) /\ n + 1 \in 1..(n + 1) /\ n + 1 + 1 = n + 2
  BY <1>1
<1>3. NestIn(p, n + 1) \in Int /\ NestIn(r, n + 1) = NestIn(p, n + 1)
  BY <1>2, NestType, NestSame
<1>4. NestIn(r, n + 2) = NestIn(r, n + 1) + u - w
  <2> HIDE DEF r, n
  <2>1. NestIn(r, n + 1 + 1) = NestIn(r, n + 1) + (IF r[n + 1].k \in OpenKinds THEN 1 ELSE 0)
                                               - (IF r[n + 1].k \in CloseKinds THEN 1 ELSE 0)
    BY <1>1, <1>2, NestStep
  <2> QED
    BY <1>1, <1>2, <2>1
<1>5. u \in Int /\ w \in Int /\ Inc(it) = u - w
  BY DEF Inc
<1> HIDE DEF r, n, u, w
<1>6. NestIn(p, n + 1) + u - w = NestIn(p, n + 1) + (u - w) /\ u - w \in Int
  BY <1>3, <1>5
<1> QED
  BY <1>3, <1>4, <1>5, <1>6 DEF r, n

\* An open statement stays as it is while others open and close in it.
LEMMA OwnsSame ==
  ASSUME NEW p, IsSeq(p), NEW it, NEW f, NEW g, NEW l \in Nat, Owns(p, f, g, l),
         NestIn(p, Len(p) + 1) + Inc(it) >= l + 1,
         it.k = "else" => NestIn(p, Len(p) + 1) # l + 1
  PROVE  Owns(Append(p, it), f, g, l)
<1> DEFINE r == Append(p, it)
           n == Len(p)
           i == g.at
<1>1. /\ n \in Nat /\ Len(r) = n + 1 /\ \A j \in 1..n : r[j] = p[j]
      /\ r[n + 1] = it
  BY AppendFacts
<1>2. i \in 1..n /\ NestIn(p, i) = l /\ Within(p, i, n + 1)
  BY DEF Owns
<1>3. NestIn(r, n + 1) = NestIn(p, n + 1) /\ NestIn(r, n + 2) >= l + 1
  BY NestGrows
<1>4. i \in 1..(n + 1) /\ NestIn(r, i) = l
  <2>1. i \in 1..(n + 1)
    BY <1>1, <1>2
  <2> QED
    BY <1>2, <2>1, NestSame
<1>5. Within(r, i, n + 1) /\ (NoElse(p, i, n) => NoElse(r, i, n))
      /\ \A e : ElseAt(p, i, e) => ElseAt(r, i, e)
  <2>1. n + 1 \in 0..(n + 1) /\ n \in 0..n
    BY <1>1
  <2> QED
    BY <1>2, <2>1, StructSame
<1> HIDE DEF r, i
<1>6. Within(r, i, n + 2)
  <2>1. \A k \in (i + 1)..(n + 2) : k \in (i + 1)..(n + 1) \/ k = n + 2
    BY <1>1, <1>2
  <2> QED
    BY <1>3, <1>4, <1>5, <2>1 DEF Within
<1>7. NoElse(r, i, n) => NoElse(r, i, n + 1)
  <2>1. \A k \in (i + 1)..(n + 1) : k \in (i + 1)..n \/ k = n + 1
    BY <1>1, <1>2
  <2>2. ~(r[n + 1].k = "else" /\ NestIn(r, n + 1) = NestIn(r, i) + 1)
    BY <1>1, <1>3, <1>4
  <2> QED
    BY <2>1, <2>2 DEF NoElse
<1>8. i \in 1..Len(r) /\ Len(r) + 1 = n + 2
  BY <1>1, <1>4
<1>9. r[i] = p[i]
  BY <1>1, <1>2
<1> QED
  BY <1>1, <1>2, <1>4, <1>5, <1>6, <1>7, <1>8, <1>9 DEF Owns, r, n, i

\* The first m statements stay as they are.
LEMMA OwnedSame ==
  ASSUME NEW p, NEW s, NEW ct, NEW L, NEW G, Nested(ct, L), Stands(p, s, ct, L, G),
         NEW it, NEW m \in 0..Len(ct),
         NestIn(p, Len(p) + 1) + Inc(it) >= L[m + 1].lvl,
         it.k = "else" => NestIn(p, Len(p) + 1) > L[m + 1].lvl,
         NEW r, \A q \in 1..m : ct[q].k # "block" => SubSeq(r, 1, L[q].dep) = SubSeq(s, 1, L[q].dep)
  PROVE  Owned(Append(p, it), r, ct, L, G, m)
<1> SUFFICES ASSUME NEW q \in 1..m, ct[q].k # "block"
             PROVE  /\ Owns(Append(p, it), ct[q], G[q], L[q].lvl)
                    /\ G[q].in = SubSeq(r, 1, L[q].dep)
  BY DEF Owned
<1> DEFINE n == Len(ct)
           u == NestIn(p, Len(p) + 1)
           l == L[q].lvl
           h == L[m + 1].lvl
<1>1. n \in Nat /\ IsSeq(p)
  BY SeqFacts DEF Nested, Stands
<1>2. q \in 1..n /\ m + 1 \in (q + 1)..(n + 1) /\ q \in 1..(n + 1) /\ m + 1 \in 1..(n + 1)
  <2>1. m \in Nat /\ m <= n
    BY <1>1
  <2> QED
    BY <1>1, <2>1
<1>3. l \in Nat /\ h \in Nat /\ h >= l + 1
  <2>1. l \in Nat /\ h \in Nat /\ h >= l + Bump(ct[q])
    BY <1>2 DEF Nested
  <2> QED
    BY <2>1, DeepFacts
<1>4. u \in Int /\ Inc(it) \in Int
  BY <1>1, NestGrows
<1>5. Owns(p, ct[q], G[q], l) /\ G[q].in = SubSeq(s, 1, L[q].dep)
  BY <1>2 DEF Stands, Owned
<1>6. u + Inc(it) >= h /\ (it.k = "else" => u > h)
  OBVIOUS
<1> HIDE DEF l, h, u, n
<1>7. u + Inc(it) >= l + 1 /\ (it.k = "else" => u # l + 1)
  BY <1>3, <1>4, <1>6
<1>8. Owns(Append(p, it), ct[q], G[q], l)
  BY <1>1, <1>3, <1>5, <1>7, OwnsSame DEF u
<1> QED
  BY <1>5, <1>8 DEF l

\* An item inside the statements that are open.
LEMMA StandsOn ==
  ASSUME NEW p, NEW s, NEW ct, NEW L, NEW G, Nested(ct, L), Stands(p, s, ct, L, G),
         NEW it, it.k \notin OpenKinds \cup CloseKinds \cup {"else"}, NEW r, Len(r) = Len(s),
         r = s \/ \A q \in 1..Len(ct) : ct[q].k = "block"
  PROVE  Stands(Append(p, it), r, ct, L, G)
<1> DEFINE n == Len(ct)
<1>1. n \in Nat /\ IsSeq(p) /\ n \in 0..n
  <2>1. n \in Nat /\ IsSeq(p)
    BY SeqFacts DEF Nested, Stands
  <2> QED
    BY <2>1
<1>2. IsSeq(Append(p, it)) /\ Len(Append(p, it)) + 1 = Len(p) + 2
  <2>1. IsSeq(Append(p, it)) /\ Len(Append(p, it)) = Len(p) + 1 /\ Len(p) \in Nat
    BY <1>1, AppendFacts
  <2> QED
    BY <2>1
<1>3. Inc(it) = 0
  BY DEF Inc
<1>4. L[n + 1].lvl = NestIn(p, Len(p) + 1) /\ NestIn(p, Len(p) + 1) \in Int
      /\ NestIn(Append(p, it), Len(p) + 2) = NestIn(p, Len(p) + 1)
  BY <1>1, <1>3, NestGrows DEF Stands
<1>5. Owned(Append(p, it), r, ct, L, G, n)
  <2>1. NestIn(p, Len(p) + 1) + Inc(it) >= L[n + 1].lvl
    BY <1>3, <1>4
  <2> QED
    BY <1>1, <2>1, OwnedSame
<1> QED
  BY <1>2, <1>4, <1>5 DEF Stands

\* Nothing of this depends on more than the labels of the statements.
LEMMA StandsAlike ==
  ASSUME NEW p, NEW s, NEW ct, NEW cu, NEW L, NEW G, Stands(p, s, ct, L, G), AllAlike(ct, cu)
  PROVE  Stands(p, s, cu, L, G)
<1>1. \A q \in 1..Len(ct) : cu[q].k = ct[q].k
  BY DEF AllAlike, Alike
<1>2. Owned(p, s, cu, L, G, Len(ct))
  BY <1>1 DEF Stands, Owned, Owns
<1> QED
  BY <1>2 DEF Stands, AllAlike

\* Prefixes of a sequence that grows or shrinks.
LEMMA PrefixSame ==
  ASSUME NEW s, IsSeq(s), NEW d \in 0..Len(s)
  PROVE  /\ \A x : SubSeq(Append(s, x), 1, d) = SubSeq(s, 1, d)
         /\ SubSeq(s, 1, Len(s)) = s
         /\ \A n \in d..Len(s) : SubSeq(SubSeq(s, 1, n), 1, d) = SubSeq(s, 1, d)
<1>1. Len(s) \in Nat
  BY SeqFacts
<1>2. /\ IsSeq(SubSeq(s, 1, d)) /\ Len(SubSeq(s, 1, d)) = d
      /\ \A i \in 1..d : SubSeq(s, 1, d)[i] = s[i]
  BY SubSeqFacts
<1>3. ASSUME NEW x
      PROVE  SubSeq(Append(s, x), 1, d) = SubSeq(s, 1, d)
  <2> DEFINE r == Append(s, x)
  <2>1. IsSeq(r) /\ Len(r) = Len(s) + 1 /\ \A i \in 1..Len(s) : r[i] = s[i]
    BY AppendFacts
  <2> HIDE DEF r
  <2>2. d \in 0..Len(r) /\ \A i \in 1..d : i \in 1..Len(s)
    BY <1>1, <2>1
  <2>3. /\ IsSeq(SubSeq(r, 1, d)) /\ Len(SubSeq(r, 1, d)) = d
        /\ \A i \in 1..d : SubSeq(r, 1, d)[i] = r[i]
    BY <2>1, <2>2, SubSeqFacts
  <2>4. SubSeq(r, 1, d) = SubSeq(s, 1, d)
    BY <1>2, <2>1, <2>2, <2>3, IsSeqEqual
  <2> QED
    BY <2>4 DEF r
<1>4. SubSeq(s, 1, Len(s)) = s
  <2>1. Len(s) \in 0..Len(s)
    BY <1>1
  <2>2. /\ IsSeq(SubSeq(s, 1, Len(s))) /\ Len(SubSeq(s, 1, Len(s))) = Len(s)
        /\ \A i \in 1..Len(s) : SubSeq(s, 1, Len(s))[i] = s[i]
    BY <2>1, SubSeqFacts
  <2> QED
    BY <2>2, IsSeqEqual
<1>5. ASSUME NEW n \in d..Len(s)
      PROVE  SubSeq(SubSeq(s, 1, n), 1, d) = SubSeq(s, 1, d)
  <2> DEFINE r == SubSeq(s, 1, n)
  <2>1. n \in 0..Len(s)
    BY <1>1
  <2>2. IsSeq(r) /\ Len(r) = n /\ \A i \in 1..n : r[i] = s[i]
    BY <2>1, SubSeqFacts
  <2> HIDE DEF r
  <2>3. d \in 0..Len(r) /\ \A i \in 1..d : i \in 1..n
    BY <1>1, <2>1, <2>2
  <2>4. /\ IsSeq(SubSeq(r, 1, d)) /\ Len(SubSeq(r, 1, d)) = d
        /\ \A i \in 1..d : SubSeq(r, 1, d)[i] = r[i]
    BY <2>2, <2>3, SubSeqFacts
  <2>5. SubSeq(r, 1, d) = SubSeq(s, 1, d)
    BY <1>2, <2>2, <2>3, <2>4, IsSeqEqual
  <2> QED
    BY <2>5 DEF r
<1> QED
  BY <1>3, <1>4, <1>5

\* How deep the statements inside are.
LEMMA DepthFacts ==
  ASSUME NEW ct, NEW L, Nested(ct, L), NEW q \in 1..Len(ct)
  PROVE  /\ L[q].dep \in Nat /\ L[q].lvl \in Nat
         /\ \A r \in (q + 1)..(Len(ct) + 1) :
              /\ L[r].dep \in Nat /\ L[r].lvl \in Nat /\ L[r].dep >= L[q].dep
              /\ ct[q].k = "block" => L[r].dep >= L[q].dep + 1
              /\ ct[q].k # "block" => L[r].lvl >= L[q].lvl + 1
<1>1. Len(ct) \in Nat
  BY SeqFacts DEF Nested
<1>2. q \in 1..(Len(ct) + 1) /\ \A r \in (q + 1)..(Len(ct) + 1) : r \in 1..(Len(ct) + 1)
  BY <1>1
<1>3. L[q].dep \in Nat /\ L[q].lvl \in Nat
  BY <1>2 DEF Nested
<1>4. ASSUME NEW r \in (q + 1)..(Len(ct) + 1)
      PROVE  /\ L[r].dep \in Nat /\ L[r].lvl \in Nat /\ L[r].dep >= L[q].dep
             /\ ct[q].k = "block" => L[r].dep >= L[q].dep + 1
             /\ ct[q].k # "block" => L[r].lvl >= L[q].lvl + 1
  <2>1. L[r].dep \in Nat /\ L[r].lvl \in Nat
    BY <1>2 DEF Nested
  <2>2. L[r].lvl >= L[q].lvl + Bump(ct[q]) /\ L[r].dep >= L[q].dep + Deep(ct[q])
    BY DEF Nested
  <2>3. CASE ct[q].k = "block"
    <3>1. Deep(ct[q]) = 1 /\ Bump(ct[q]) = 0
      BY <2>3, DeepFacts
    <3> QED
      BY <1>3, <2>1, <2>2, <2>3, <3>1
  <2>4. CASE ct[q].k # "block"
    <3>1. Deep(ct[q]) = 0 /\ Bump(ct[q]) = 1
      BY <2>4, DeepFacts
    <3> QED
      BY <1>3, <2>1, <2>2, <2>4, <3>1
  <2> QED
    BY <2>3, <2>4
<1> QED
  BY <1>3, <1>4

\* Item it at i opens the statement f, and r are the scopes in it.
Opens(f, g, it, i, s, r) ==
  \/ f.k = "block" /\ it.k = "{" /\ r = Append(s, <<>>)
  \/ f.k = "while" /\ it.k = "while" /\ r = s /\ g.at = i /\ g.in = s
  \/ f.k = "then" /\ it.k = "if" /\ r = s /\ g.at = i /\ g.in = s
\* Item it closes it.
Closes(f, it, s, r) ==
  \/ f.k = "block" /\ it.k = "}" /\ r = SubSeq(s, 1, Len(s) - 1)
  \/ f.k # "block" /\ it.k \in CloseKinds /\ r = s

\* The item that opens a statement.
LEMMA OpensFacts ==
  ASSUME NEW f, NEW g, NEW it, NEW i, NEW s, NEW r, Opens(f, g, it, i, s, r)
  PROVE  /\ Inc(it) = Bump(f) /\ it.k # "else"
         /\ \/ f.k = "block" /\ Deep(f) = 1 /\ r = Append(s, <<>>)
            \/ f.k # "block" /\ Deep(f) = 0 /\ r = s
<1>1. CASE f.k = "block" /\ it.k = "{" /\ r = Append(s, <<>>)
  <2>1. it.k \notin OpenKinds /\ it.k \notin CloseKinds
    BY <1>1 DEF OpenKinds, CloseKinds
  <2>2. Bump(f) = 0 /\ Deep(f) = 1
    BY <1>1 DEF Bump, Deep
  <2>4. Inc(it) = 0
    BY <2>1 DEF Inc
  <2>3. it.k # "else"
    BY <1>1
  <2> QED
    BY <1>1, <2>2, <2>3, <2>4
<1>2. CASE f.k \in {"while", "then"} /\ it.k \in {"while", "if"} /\ r = s
  <2>1. it.k \in OpenKinds /\ it.k \notin CloseKinds /\ it.k # "else" /\ f.k # "block"
    BY <1>2 DEF OpenKinds, CloseKinds
  <2>2. Inc(it) = 1 /\ Bump(f) = 1 /\ Deep(f) = 0
    BY <2>1 DEF Inc, Bump, Deep
  <2> QED
    BY <1>2, <2>1, <2>2
<1>3. (f.k = "block" /\ it.k = "{" /\ r = Append(s, <<>>))
      \/ (f.k \in {"while", "then"} /\ it.k \in {"while", "if"} /\ r = s)
  BY DEF Opens
<1> QED
  BY <1>1, <1>2, <1>3

\* The item that ends one.
LEMMA ClosesFacts ==
  ASSUME NEW f, NEW it, NEW s, NEW r, Closes(f, it, s, r)
  PROVE  /\ Inc(it) = 0 - Bump(f) /\ it.k # "else"
         /\ \/ f.k = "block" /\ Deep(f) = 1 /\ r = SubSeq(s, 1, Len(s) - 1)
            \/ f.k # "block" /\ Deep(f) = 0 /\ r = s
<1>1. CASE f.k = "block" /\ it.k = "}" /\ r = SubSeq(s, 1, Len(s) - 1)
  <2>1. it.k \notin OpenKinds /\ it.k \notin CloseKinds
    BY <1>1 DEF OpenKinds, CloseKinds
  <2> QED
    BY <1>1, <2>1 DEF Inc, Bump, Deep
<1>2. CASE f.k # "block" /\ it.k \in CloseKinds /\ r = s
  <2>1. it.k \notin OpenKinds /\ it.k # "else"
    BY <1>2 DEF OpenKinds, CloseKinds
  <2> QED
    BY <1>2, <2>1 DEF Inc, Bump, Deep
<1> QED
  BY <1>1, <1>2 DEF Closes

\* A statement opens.
LEMMA StandsOpen ==
  ASSUME NEW p, NEW s, NEW ct, NEW L, NEW G, Nested(ct, L), Stands(p, s, ct, L, G), IsSeq(s),
         NEW it, NEW r, NEW f, NEW g, NEW z,
         z.lvl = L[Len(ct) + 1].lvl + Bump(f), z.dep = L[Len(ct) + 1].dep + Deep(f),
         Opens(f, g, it, Len(p) + 1, s, r)
  PROVE  Stands(Append(p, it), r, Append(ct, f), Append(L, z), Append(G, g))
<1> DEFINE n == Len(ct)
           c == Append(ct, f)
           M == Append(L, z)
           H == Append(G, g)
           w == Append(p, it)
           i == Len(p) + 1
<1>1. /\ n \in Nat /\ Len(c) = n + 1 /\ c[n + 1] = f /\ \A q \in 1..n : c[q] = ct[q]
  BY AppendFacts DEF Nested
<1>2. /\ Len(M) = n + 2 /\ M[n + 2] = z /\ \A q \in 1..(n + 1) : M[q] = L[q]
  <2>1. Len(L) = n + 1 /\ IsSeq(L)
    BY DEF Nested
  <2>2. n + 1 + 1 = n + 2
    BY <1>1
  <2> QED
    BY <2>1, <2>2, AppendFacts
<1>3. /\ IsSeq(H) /\ Len(H) = n + 1 /\ H[n + 1] = g /\ \A q \in 1..n : H[q] = G[q]
  BY AppendFacts DEF Stands
<1>4. /\ IsSeq(p) /\ IsSeq(w) /\ i \in Nat \ {0} /\ Len(w) = i /\ w[i] = it
  <2>1. IsSeq(p)
    BY DEF Stands
  <2>2. /\ IsSeq(w) /\ Len(p) \in Nat /\ Len(w) = i /\ w[i] = it
    BY <2>1, AppendFacts
  <2> QED
    BY <2>1, <2>2
<1> DEFINE u == NestIn(p, i)
<1>5. /\ u \in Int /\ NestIn(w, i) = u /\ NestIn(w, i + 1) = u + Bump(f)
      /\ L[n + 1].lvl = u /\ L[n + 1].dep = Len(s)
      /\ Inc(it) = Bump(f) /\ Bump(f) \in {0, 1}
  <2>1. Inc(it) = Bump(f)
    BY OpensFacts
  <2>2. /\ u \in Int /\ NestIn(w, i) = u /\ NestIn(w, Len(p) + 2) = u + Inc(it)
    BY <1>4, NestGrows
  <2>3. i + 1 = Len(p) + 2
    BY <1>4
  <2> HIDE DEF i, w
  <2> QED
    BY <2>1, <2>2, <2>3 DEF Stands, Bump, i
<1>6. /\ Len(r) = Len(s) + Deep(f) /\ IsSeq(r)
      /\ \A d \in 0..Len(s) : SubSeq(r, 1, d) = SubSeq(s, 1, d)
  <2>1. Len(s) \in Nat /\ Len(Append(s, <<>>)) = Len(s) + 1 /\ IsSeq(Append(s, <<>>))
    BY AppendFacts
  <2>2. \A d \in 0..Len(s) : SubSeq(Append(s, <<>>), 1, d) = SubSeq(s, 1, d)
    BY PrefixSame
  <2> QED
    <3>1. CASE Deep(f) = 1 /\ r = Append(s, <<>>)
      BY <2>1, <2>2, <3>1
    <3>2. CASE Deep(f) = 0 /\ r = s
      BY <2>1, <3>2
    <3> QED
      BY <3>1, <3>2, OpensFacts
<1> HIDE DEF c, M, H, w, u
<1>7. M[Len(c) + 1].lvl = NestIn(w, Len(w) + 1) /\ M[Len(c) + 1].dep = Len(r)
  <2>1. n + 1 + 1 = n + 2
    BY <1>1
  <2> QED
    BY <1>1, <1>2, <1>4, <1>5, <1>6, <2>1
<1>8. Owned(w, r, ct, L, G, n)
  <2>1. n \in 0..Len(ct)
    BY <1>1
  <2>2. u + Inc(it) >= L[n + 1].lvl
    BY <1>5
  <2>3. it.k # "else"
    BY DEF Opens
  <2>4. ASSUME NEW q \in 1..n
        PROVE  SubSeq(r, 1, L[q].dep) = SubSeq(s, 1, L[q].dep)
    <3>1. n + 1 \in (q + 1)..(n + 1)
      BY <1>1
    <3>2. L[q].dep \in Nat /\ L[n + 1].dep \in Nat /\ L[n + 1].dep >= L[q].dep
      BY <3>1, DepthFacts
    <3>3. L[q].dep \in 0..Len(s)
      BY <1>5, <3>2
    <3> QED
      BY <1>6, <3>3
  <2> QED
    BY <2>1, <2>2, <2>3, <2>4, OwnedSame DEF u, w
<1>9. f.k # "block" => Owns(w, f, g, L[n + 1].lvl) /\ g.in = SubSeq(r, 1, L[n + 1].dep)
  <2> SUFFICES ASSUME f.k # "block"
               PROVE  Owns(w, f, g, L[n + 1].lvl) /\ g.in = SubSeq(r, 1, L[n + 1].dep)
    OBVIOUS
  <2>1. /\ f.k \in {"while", "then"} /\ it.k = IF f.k = "while" THEN "while" ELSE "if"
        /\ r = s /\ g.at = i /\ g.in = s
    BY DEF Opens
  <2>2. g.in = SubSeq(r, 1, L[n + 1].dep)
    BY <1>5, <2>1, SeqFacts, PrefixSame
  <2> HIDE DEF i
  <2>3. Bump(f) = 1
    BY DEF Bump
  <2>4. Within(w, i, i + 1)
    <3>1. \A k \in (i + 1)..(i + 1) : k = i + 1
      BY <1>4
    <3> QED
      BY <1>5, <2>3, <3>1 DEF Within
  <2>5. NoElse(w, i, i)
    <3>1. (i + 1)..i = {}
      BY <1>4
    <3> QED
      BY <3>1 DEF NoElse
  <2>6. i \in 1..Len(w)
    BY <1>4
  <2> QED
    BY <1>4, <1>5, <2>1, <2>2, <2>4, <2>5, <2>6 DEF Owns
<1>10. Owned(w, r, c, M, H, n + 1)
  <2>1. \A q \in 1..(n + 1) : q \in 1..n \/ q = n + 1
    BY <1>1
  <2>2. \A q \in 1..n : q \in 1..(n + 1)
    BY <1>1
  <2>3. n + 1 \in 1..(n + 1)
    BY <1>1
  <2> QED
    BY <1>1, <1>2, <1>3, <1>8, <1>9, <2>1, <2>2, <2>3 DEF Owned
<1> QED
  BY <1>1, <1>3, <1>4, <1>7, <1>10 DEF Stands, c, M, H, w

\* A statement closes.
LEMMA StandsClose ==
  ASSUME NEW p, NEW s, NEW ct, NEW L, NEW G, Nested(ct, L), Stands(p, s, ct, L, G), IsSeq(s),
         NEW it, NEW r, ct # <<>>, Closes(ct[Len(ct)], it, s, r)
  PROVE  Stands(Append(p, it), r, Butlast(ct), Butlast(L), Butlast(G))
<1> DEFINE n == Len(ct)
           f == ct[n]
           c == Butlast(ct)
           M == Butlast(L)
           H == Butlast(G)
           w == Append(p, it)
           i == Len(p) + 1
           u == NestIn(p, i)
<1>1. /\ n \in Nat \ {0} /\ Len(c) = n - 1 /\ \A q \in 1..(n - 1) : c[q] = ct[q]
  BY ButlastFacts DEF Nested
<1>2. /\ Len(M) = n /\ \A q \in 1..n : M[q] = L[q]
  <2>1. Len(L) = n + 1 /\ IsSeq(L)
    BY DEF Nested
  <2>2. n + 1 - 1 = n /\ n + 1 # 0
    BY <1>1
  <2>3. L # <<>>
    BY <2>1, <2>2, SeqFacts
  <2> QED
    BY <2>1, <2>2, <2>3, ButlastFacts
<1>3. /\ IsSeq(H) /\ Len(H) = n - 1 /\ \A q \in 1..(n - 1) : H[q] = G[q]
  <2>1. Len(G) = n /\ IsSeq(G)
    BY DEF Stands
  <2>2. n # 0
    BY <1>1
  <2>3. G # <<>>
    BY <2>1, <2>2, SeqFacts
  <2> QED
    BY <2>1, <2>3, ButlastFacts
<1>4. /\ IsSeq(p) /\ IsSeq(w) /\ i \in Nat \ {0} /\ Len(w) = i
  <2>1. IsSeq(p)
    BY DEF Stands
  <2>2. /\ IsSeq(w) /\ Len(p) \in Nat /\ Len(w) = i
    BY <2>1, AppendFacts
  <2> QED
    BY <2>1, <2>2
<1>5. /\ u \in Int /\ NestIn(w, i + 1) = u + Inc(it)
      /\ L[n + 1].lvl = u /\ L[n + 1].dep = Len(s)
  <2>1. /\ u \in Int /\ NestIn(w, Len(p) + 2) = u + Inc(it)
    BY <1>4, NestGrows
  <2>2. i + 1 = Len(p) + 2
    BY <1>4
  <2> HIDE DEF i, w
  <2> QED
    BY <2>1, <2>2 DEF Stands, i
<1>6. n \in 1..n /\ n \in 1..(n + 1) /\ n - 1 \in 0..n /\ n - 1 + 1 = n
  BY <1>1
<1>7. /\ u = L[n].lvl + Bump(f) /\ Len(s) = L[n].dep + Deep(f)
      /\ L[n].lvl \in Nat /\ L[n].dep \in Nat
  BY <1>5, <1>6 DEF Nested
<1>8. Inc(it) = 0 - Bump(f) /\ (it.k # "else")
  BY ClosesFacts
<1>9. Len(r) = L[n].dep /\ \A d \in 0..L[n].dep : SubSeq(r, 1, d) = SubSeq(s, 1, d)
  <2>1. CASE f.k = "block"
    <3>1. Deep(f) = 1 /\ r = SubSeq(s, 1, Len(s) - 1)
      BY <2>1 DEF Deep, Closes
    <3>2. Len(s) - 1 = L[n].dep /\ L[n].dep \in 0..Len(s)
      BY <1>7, <3>1
    <3>3. Len(r) = L[n].dep
      BY <3>1, <3>2, SubSeqFacts
    <3>4. \A d \in 0..L[n].dep : d \in 0..Len(s) /\ L[n].dep \in d..Len(s)
      BY <1>7, <3>1, <3>2
    <3>5. \A d \in 0..L[n].dep : SubSeq(SubSeq(s, 1, L[n].dep), 1, d) = SubSeq(s, 1, d)
      BY <3>4, PrefixSame
    <3> QED
      BY <3>1, <3>2, <3>3, <3>5
  <2>2. CASE f.k # "block"
    <3>1. Deep(f) = 0 /\ r = s
      BY <2>2 DEF Deep, Closes
    <3> QED
      BY <1>7, <3>1
  <2> QED
    BY <2>1, <2>2
<1>10. Bump(f) \in {0, 1}
  BY DEF Bump
<1> HIDE DEF f, c, M, H, w, u, i
<1>11. NestIn(w, i + 1) = L[n].lvl
  BY <1>5, <1>7, <1>8, <1>10
<1>12. M[Len(c) + 1].lvl = NestIn(w, Len(w) + 1) /\ M[Len(c) + 1].dep = Len(r)
  BY <1>1, <1>2, <1>4, <1>6, <1>9, <1>11
<1>13. Owned(w, r, ct, L, G, n - 1)
  <2>1. u + Inc(it) >= L[n].lvl
    BY <1>5, <1>7, <1>8, <1>10
  <2>2. ASSUME NEW q \in 1..(n - 1)
        PROVE  SubSeq(r, 1, L[q].dep) = SubSeq(s, 1, L[q].dep)
    <3>1. q \in 1..n /\ n \in (q + 1)..(n + 1)
      BY <1>1
    <3>2. L[q].dep \in Nat /\ L[n].dep >= L[q].dep
      BY <3>1, DepthFacts
    <3>3. L[q].dep \in 0..L[n].dep
      BY <1>7, <3>2
    <3> QED
      BY <1>9, <3>3
  <2> QED
    BY <1>6, <1>8, <2>1, <2>2, OwnedSame DEF u, w, i
<1>14. Owned(w, r, c, M, H, n - 1)
  <2>1. \A q \in 1..(n - 1) : q \in 1..n
    BY <1>1
  <2> QED
    BY <1>1, <1>2, <1>3, <1>13, <2>1 DEF Owned
<1> QED
  BY <1>1, <1>3, <1>4, <1>12, <1>14 DEF Stands, c, M, H, w

\* The then branch ends and the else branch begins.
LEMMA StandsElse ==
  ASSUME NEW p, NEW s, NEW ct, NEW L, NEW G, Nested(ct, L), Stands(p, s, ct, L, G), IsSeq(s),
         NEW it, it.k = "else", ct # <<>>, ct[Len(ct)].k = "then", NEW f, f.k = "else",
         NEW g, g.at = G[Len(ct)].at, g.in = G[Len(ct)].in, g.els = Len(p) + 1
  PROVE  /\ Stands(Append(p, it), s, Replaced(ct, f), L, Replaced(G, g))
         /\ Nested(Replaced(ct, f), L)
<1> DEFINE n == Len(ct)
           c == Replaced(ct, f)
           H == Replaced(G, g)
           w == Append(p, it)
           i == Len(p) + 1
           u == NestIn(p, i)
           b == g.at
<1>1. /\ n \in Nat \ {0} /\ IsSeq(c) /\ Len(c) = n /\ \A q \in 1..(n - 1) : c[q] = ct[q]
      /\ c[n] = f
  BY ReplaceFacts DEF Nested
<1>2. /\ IsSeq(H) /\ Len(H) = n /\ H[n] = g /\ \A q \in 1..(n - 1) : H[q] = G[q]
  <2>1. Len(G) = n /\ IsSeq(G)
    BY DEF Stands
  <2>2. n # 0
    BY <1>1
  <2>3. G # <<>>
    BY <2>1, <2>2, SeqFacts
  <2> QED
    BY <2>1, <2>3, ReplaceFacts
<1>3. /\ IsSeq(p) /\ IsSeq(w) /\ i \in Nat \ {0} /\ Len(w) = i /\ w[i] = it
      /\ i - 1 = Len(p) /\ \A j \in 1..Len(p) : w[j] = p[j]
  <2>1. IsSeq(p)
    BY DEF Stands
  <2>2. /\ IsSeq(w) /\ Len(p) \in Nat /\ Len(w) = i /\ w[i] = it
        /\ \A j \in 1..Len(p) : w[j] = p[j]
    BY <2>1, AppendFacts
  <2> QED
    BY <2>1, <2>2
<1>4. /\ u \in Int /\ NestIn(w, i) = u /\ NestIn(w, i + 1) = u
      /\ L[n + 1].lvl = u /\ L[n + 1].dep = Len(s) /\ Inc(it) = 0
  <2>1. /\ u \in Int /\ NestIn(w, i) = u /\ NestIn(w, Len(p) + 2) = u + Inc(it)
    BY <1>3, NestGrows
  <2>2. i + 1 = Len(p) + 2
    BY <1>3
  <2>3. Inc(it) = 0
    BY DEF Inc, OpenKinds, CloseKinds
  <2> HIDE DEF i, w, u
  <2>4. u + Inc(it) = u
    BY <2>1, <2>3
  <2> QED
    BY <2>1, <2>2, <2>3, <2>4 DEF Stands, i, u
<1>5. n \in 1..n /\ n \in 1..(n + 1) /\ n - 1 \in 0..n /\ n - 1 + 1 = n /\ n + 1 \in (n + 1)..(n + 1)
  BY <1>1
<1>6. /\ u = L[n].lvl + 1 /\ L[n].lvl \in Nat
  <2>1. Bump(ct[n]) = 1
    BY DEF Bump
  <2>2. L[n + 1].lvl = L[n].lvl + Bump(ct[n]) /\ L[n].lvl \in Nat
    BY <1>5 DEF Nested
  <2> QED
    BY <1>4, <2>1, <2>2
<1>7. /\ Owns(p, ct[n], G[n], L[n].lvl) /\ G[n].in = SubSeq(s, 1, L[n].dep)
  BY <1>5 DEF Stands, Owned
<1>8. Owned(w, s, ct, L, G, n - 1)
  <2>1. u + Inc(it) >= L[n].lvl /\ u > L[n].lvl
    BY <1>4, <1>6
  <2> HIDE DEF n, i
  <2> QED
    BY <1>5, <2>1, OwnedSame DEF u, w, n, i
<1>9. /\ b \in 1..Len(p) /\ p[b].k = "if" /\ NestIn(p, b) = L[n].lvl
      /\ Within(p, b, i) /\ NoElse(p, b, Len(p))
  BY <1>7 DEF Owns
<1>10. b \in 1..Len(w) /\ b \in 1..i /\ i \in (b + 1)..Len(w) /\ i \in 0..(Len(p) + 1)
       /\ Len(p) \in 0..Len(p)
  BY <1>3, <1>9
<1>11. NestIn(w, b) = L[n].lvl /\ w[b].k = "if"
  BY <1>3, <1>9, <1>10, NestSame
<1>12. Within(w, b, i) /\ NoElse(w, b, i - 1)
  BY <1>3, <1>9, <1>10, StructSame
<1> HIDE DEF c, H, w, u, i, b
<1>13. Within(w, b, i + 1)
  <2>1. \A k \in (b + 1)..(i + 1) : k \in (b + 1)..i \/ k = i + 1
    <3>1. b \in Int /\ i \in Int
      BY <1>3, <1>9
    <3> QED
      BY <3>1, UpToNext
  <2>2. NestIn(w, i + 1) >= NestIn(w, b) + 1
    BY <1>4, <1>6, <1>11
  <2> QED
    BY <1>12, <2>1, <2>2 DEF Within
<1>14. ElseAt(w, b, i)
  BY <1>3, <1>4, <1>6, <1>10, <1>11, <1>12 DEF ElseAt
<1>15. Owns(w, f, g, L[n].lvl)
  <2>1. g.els = i /\ g.at = b
    BY DEF i, b
  <2> QED
    BY <1>3, <1>10, <1>11, <1>13, <1>14, <2>1 DEF Owns
<1>16. Owned(w, s, c, L, H, n)
  <2>1. \A q \in 1..n : q \in 1..(n - 1) \/ q = n
    BY <1>1
  <2>2. g.in = SubSeq(s, 1, L[n].dep)
    BY <1>7
  <2> QED
    BY <1>1, <1>2, <1>8, <1>15, <2>1, <2>2 DEF Owned
<1>17. Nested(c, L)
  <2>1. \A q \in 1..n : Bump(c[q]) = Bump(ct[q]) /\ Deep(c[q]) = Deep(ct[q])
    <3>1. \A q \in 1..n : q \in 1..(n - 1) \/ q = n
      BY <1>1
    <3>2. Bump(f) = Bump(ct[n]) /\ Deep(f) = Deep(ct[n])
      BY DEF Bump, Deep
    <3> QED
      BY <1>1, <3>1, <3>2
  <2> QED
    BY <1>1, <2>1 DEF Nested
<1>18. Stands(w, s, c, L, H)
  BY <1>1, <1>2, <1>3, <1>4, <1>16 DEF Stands
<1> QED
  BY <1>17, <1>18 DEF c, H, w

-----------------------------------------------------------------------------
(* Jumps and their labels *)

\* The jumps and the labels of the code.
Jumps(c) == {c[i] : i \in {j \in DOMAIN c : c[j].op \in {"jp", "jz"}}}
Marks(c) == {c[i] : i \in {j \in DOMAIN c : c[j].op = "label"}}
\* The piece u has no jumps but J and no labels but D.
Adds(u, J, D) == IsSeq(u) /\ Jumps(u) \subseteq J /\ Marks(u) \subseteq D
Instr(op, n, i, s) == [op |-> op, n |-> n, at |-> i, in |-> s]

\* The parts of a tagged instruction.
LEMMA InstrFacts ==
  ASSUME NEW op, NEW n, NEW i, NEW s
  PROVE  /\ Instr(op, n, i, s).op = op /\ Instr(op, n, i, s).n = n
         /\ Instr(op, n, i, s).at = i /\ Instr(op, n, i, s).in = s
BY DEF Instr

\* One instruction adds itself when it is a jump or a label.
LEMMA AddsOne ==
  ASSUME NEW op, NEW n, NEW i, NEW s
  PROVE  Adds(At(<<I(op, n)>>, i, s), IF op \in {"jp", "jz"} THEN {Instr(op, n, i, s)} ELSE {},
                                      IF op = "label" THEN {Instr(op, n, i, s)} ELSE {})
<1> DEFINE x == I(op, n)
           y == Instr(op, n, i, s)
           u == At(<<x>>, i, s)
<1>1. u = <<y>>
  BY DEF At, Instr, I
<1>2. y.op = op
  BY InstrFacts
<1> HIDE DEF u, y
<1>3. IsSeq(<<y>>) /\ DOMAIN <<y>> = {1} /\ <<y>>[1] = y
  BY OneSeq
<1>4. IsSeq(u) /\ DOMAIN u = {1} /\ u[1] = y
  BY <1>1, <1>3
<1>5. /\ Jumps(u) \subseteq IF op \in {"jp", "jz"} THEN {y} ELSE {}
      /\ Marks(u) \subseteq IF op = "label" THEN {y} ELSE {}
  BY <1>2, <1>4 DEF Jumps, Marks
<1> QED
  BY <1>4, <1>5 DEF Adds, u, y

\* A piece without jumps and labels adds none.
LEMMA AddsStraight ==
  ASSUME NEW t, Piece(t, {}, {}), NEW i, NEW s
  PROVE  Adds(At(t, i, s), {}, {})
<1> DEFINE u == At(t, i, s)
<1>1. Piece(u, {}, {})
  BY AtPiece
<1> HIDE DEF u
<1>2. \A j \in DOMAIN u : u[j].op # "label" /\ u[j].op \notin {"jp", "jz"}
  BY <1>1 DEF Piece, HasLabel, HasJump
<1>3. Jumps(u) = {} /\ Marks(u) = {}
  BY <1>2 DEF Jumps, Marks
<1> QED
  BY <1>1, <1>3 DEF Adds, Piece, u

\* Two pieces add what each adds.
LEMMA AddsJoin ==
  ASSUME NEW u, NEW v, NEW J, NEW K, NEW D, NEW E, Adds(u, J, D), Adds(v, K, E)
  PROVE  Adds(u \o v, J \cup K, D \cup E)
<1> DEFINE w == u \o v
           m == Len(u)
           n == Len(v)
<1>1. /\ IsSeq(w) /\ m \in Nat /\ n \in Nat /\ DOMAIN u = 1..m /\ DOMAIN v = 1..n
      /\ DOMAIN w = 1..(m + n)
      /\ \A i \in 1..m : w[i] = u[i]
      /\ \A i \in 1..n : w[m + i] = v[i]
  BY ConcatFacts DEF Adds
<1> HIDE DEF w, m, n
<1>2. ASSUME NEW i \in DOMAIN w
      PROVE  (\E j \in DOMAIN u : w[i] = u[j]) \/ (\E j \in DOMAIN v : w[i] = v[j])
  <2>1. CASE i \in 1..m
    BY <1>1, <2>1
  <2>2. CASE i \notin 1..m
    <3>1. i - m \in 1..n /\ m + (i - m) = i
      BY <1>1, <2>2
    <3> QED
      BY <1>1, <3>1
  <2> QED
    BY <2>1, <2>2
<1>3. Jumps(w) \subseteq Jumps(u) \cup Jumps(v)
  BY <1>2 DEF Jumps
<1>4. Marks(w) \subseteq Marks(u) \cup Marks(v)
  BY <1>2 DEF Marks
<1> QED
  BY <1>1, <1>3, <1>4 DEF Adds, w

\* Code that grows.
LEMMA CodeAdds ==
  ASSUME NEW c, IsSeq(c), NEW u, NEW J, NEW D, Adds(u, J, D)
  PROVE  /\ Jumps(c \o u) \subseteq Jumps(c) \cup J
         /\ Marks(c \o u) \subseteq Marks(c) \cup D
<1>1. Adds(c, Jumps(c), Marks(c))
  BY DEF Adds
<1>2. Adds(c \o u, Jumps(c) \cup J, Marks(c) \cup D)
  BY <1>1, AddsJoin
<1> QED
  BY <1>2 DEF Adds

\* The numbers in jumps and labels are those LInv speaks of.
LEMMA JumpsHave ==
  ASSUME NEW c
  PROVE  /\ \A x \in Jumps(c) : HasJump(c, x.n)
         /\ \A y \in Marks(c) : HasLabel(c, y.n)
BY DEF Jumps, Marks, HasJump, HasLabel

\* Jump x goes to a label that the open statement f still has to define, and
\* the one that has been defined behind the else, before the end of the if.
Pend(x, f, g) ==
  /\ x.in = g.in
  /\ \/ f.k = "while" /\ x.op = "jz" /\ x.at = g.at
     \/ f.k = "then" /\ x.op = "jz" /\ x.at = g.at /\ x.n = f.l1
     \/ f.k = "else" /\ x.op = "jp" /\ x.at = g.els
\* The test of an if waits at its else.
Waits(f, g, x, y) ==
  /\ f.k = "else" /\ x.n = f.l1 /\ x.op = "jz" /\ x.at = g.at
  /\ y.at = g.els + 1 /\ y.in = x.in
\* A jump out of the function belongs to a return.
LeavesAt(p, x) == x.op = "jp" /\ x.at \in DOMAIN p /\ p[x.at].k = "ret"

\* The jumps X and the labels Y.
Jumped(X, Y, p, ct, G) ==
  /\ \A x \in X : x.n = ExitLabel => LeavesAt(p, x)
  /\ \A x \in X : \A q \in 1..Len(ct) : x.n \in OwedBy(ct[q]) => Pend(x, ct[q], G[q])
  /\ \A x \in X : \A y \in Y : x.n = y.n /\ x.n # ExitLabel =>
       JumpOK(p, x, y) \/ \E q \in 1..Len(ct) : Waits(ct[q], G[q], x, y)
  /\ \A y \in Y : \A q \in 1..Len(ct) :
       ct[q].k = "while" /\ y.n = ct[q].l1 => y.at = G[q].at /\ y.in = G[q].in

\* More jumps J and labels D, while the first m of the statements ct stay open
\* and the others of cu are new; r is the program with the new item.
Matches(ct, cu, G, H, m) ==
  /\ Len(ct) \in Nat /\ Len(cu) \in Nat /\ m \in Nat /\ m <= Len(ct) /\ m <= Len(cu)
  /\ \A q \in 1..m : Alike(ct[q], cu[q]) /\ H[q] = G[q]
\* The conditions of the step: of the jumps, the labels and their pairs.
NewJumps(J, r, ct, m) ==
  /\ \A x \in J : x.n = ExitLabel => LeavesAt(r, x)
  /\ \A x \in J : \A q \in 1..m : x.n \notin OwedBy(ct[q])
NewMarks(D, ct, m) ==
  \A y \in D : \A q \in 1..m : ct[q].k = "while" => y.n # ct[q].l1
NewOwed(X, J, cu, H, m) ==
  \A x \in X \cup J : \A q \in (m + 1)..Len(cu) : x.n \in OwedBy(cu[q]) => Pend(x, cu[q], H[q])
NewPairs(X, J, Y, D, r, cu, H) ==
  \A x \in X \cup J : \A y \in Y \cup D :
    (x \in J \/ y \in D) /\ x.n = y.n /\ x.n # ExitLabel =>
      JumpOK(r, x, y) \/ \E q \in 1..Len(cu) : Waits(cu[q], H[q], x, y)
OldPairs(X, Y, r, ct, G, m) ==
  \A x \in X : \A y \in Y : \A q \in (m + 1)..Len(ct) :
    Waits(ct[q], G[q], x, y) => JumpOK(r, x, y)
NewLoops(Y, D, cu, H, m) ==
  \A y \in Y \cup D : \A q \in (m + 1)..Len(cu) :
    cu[q].k = "while" /\ y.n = cu[q].l1 => y.at = H[q].at /\ y.in = H[q].in

\* What is to be shown of a new item for its jumps and labels to be right.
LEMMA JumpedStep ==
  ASSUME NEW X, NEW Y, NEW p, IsSeq(p), NEW it, NEW ct, NEW cu, NEW G, NEW H,
         Jumped(X, Y, p, ct, G), NEW J, NEW D, NEW V, V \subseteq X \cup J,
         NEW W, W \subseteq Y \cup D, NEW m, Matches(ct, cu, G, H, m),
         NewJumps(J, Append(p, it), ct, m), NewOwed(X, J, cu, H, m),
         NewPairs(X, J, Y, D, Append(p, it), cu, H), OldPairs(X, Y, Append(p, it), ct, G, m),
         NewMarks(D, ct, m), NewLoops(Y, D, cu, H, m)
  PROVE  Jumped(V, W, Append(p, it), cu, H)
<1> DEFINE r == Append(p, it)
<1>1. /\ DOMAIN p = 1..Len(p) /\ Len(p) \in Nat /\ DOMAIN r = 1..(Len(p) + 1)
      /\ \A i \in 1..Len(p) : r[i] = p[i]
  BY AppendFacts
<1>2. \A q \in 1..Len(cu) : q \in 1..m \/ q \in (m + 1)..Len(cu)
  BY DEF Matches
<1>3. \A q \in 1..Len(ct) : q \in 1..m \/ q \in (m + 1)..Len(ct)
  BY DEF Matches
<1>4. \A q \in 1..m : q \in 1..Len(ct) /\ q \in 1..Len(cu)
  BY DEF Matches
<1>5. \A q \in 1..m : /\ OwedBy(cu[q]) = OwedBy(ct[q]) /\ (cu[q].k = "while" <=> ct[q].k = "while")
                      /\ cu[q].l1 = ct[q].l1
                      /\ \A x : Pend(x, ct[q], G[q]) => Pend(x, cu[q], H[q])
                      /\ \A x, y : Waits(ct[q], G[q], x, y) => Waits(cu[q], H[q], x, y)
  <2> SUFFICES ASSUME NEW q \in 1..m
               PROVE  /\ OwedBy(cu[q]) = OwedBy(ct[q])
                      /\ (cu[q].k = "while" <=> ct[q].k = "while")
                      /\ cu[q].l1 = ct[q].l1
                      /\ \A x : Pend(x, ct[q], G[q]) => Pend(x, cu[q], H[q])
                      /\ \A x, y : Waits(ct[q], G[q], x, y) => Waits(cu[q], H[q], x, y)
    OBVIOUS
  <2> DEFINE a == ct[q]
             b == cu[q]
  <2>1. a.k = b.k /\ a.l1 = b.l1 /\ a.l2 = b.l2 /\ H[q] = G[q]
    BY DEF Alike, Matches
  <2> HIDE DEF a, b
  <2>2. OwedBy(b) = OwedBy(a)
    BY <2>1 DEF OwedBy
  <2>3. \A x : Pend(x, a, G[q]) => Pend(x, b, H[q])
    BY <2>1 DEF Pend
  <2>4. \A x, y : Waits(a, G[q], x, y) => Waits(b, H[q], x, y)
    BY <2>1 DEF Waits
  <2> QED
    BY <2>1, <2>2, <2>3, <2>4 DEF a, b
<1>6. \A x, y : JumpOK(p, x, y) => JumpOK(r, x, y)
  BY JumpSame
<1>7. \A x : LeavesAt(p, x) => LeavesAt(r, x)
  BY <1>1 DEF LeavesAt
<1> HIDE DEF r
<1>8. ASSUME NEW x \in V, x.n = ExitLabel
      PROVE  LeavesAt(r, x)
  BY <1>7, <1>8 DEF Jumped, r, NewJumps
<1>9. ASSUME NEW x \in V, NEW q \in 1..Len(cu), x.n \in OwedBy(cu[q])
      PROVE  Pend(x, cu[q], H[q])
  <2>1. CASE q \in 1..m
    <3>1. x.n \in OwedBy(ct[q]) /\ q \in 1..Len(ct)
      BY <1>4, <1>5, <1>9, <2>1
    <3>2. x \in X
      BY <2>1, <3>1 DEF NewJumps
    <3> QED
      BY <1>5, <2>1, <3>1, <3>2 DEF Jumped
  <2>2. CASE q \notin 1..m
    BY <1>2, <1>9, <2>2 DEF NewOwed
  <2> QED
    BY <2>1, <2>2
<1>10. ASSUME NEW x \in V, NEW y \in W, x.n = y.n, x.n # ExitLabel
       PROVE  JumpOK(r, x, y) \/ \E q \in 1..Len(cu) : Waits(cu[q], H[q], x, y)
  <2>1. CASE x \in J \/ y \in D
    BY <1>10, <2>1 DEF r, NewPairs
  <2>2. CASE x \notin J /\ y \notin D
    <3>1. x \in X /\ y \in Y
      BY <2>2
    <3>2. JumpOK(p, x, y) \/ \E q \in 1..Len(ct) : Waits(ct[q], G[q], x, y)
      BY <1>10, <3>1 DEF Jumped
    <3>3. CASE JumpOK(p, x, y)
      BY <1>6, <3>3
    <3>4. ASSUME NEW q \in 1..Len(ct), Waits(ct[q], G[q], x, y)
          PROVE  JumpOK(r, x, y) \/ \E o \in 1..Len(cu) : Waits(cu[o], H[o], x, y)
      <4>1. CASE q \in 1..m
        BY <1>4, <1>5, <3>4, <4>1
      <4>2. CASE q \notin 1..m
        BY <1>3, <3>1, <3>4, <4>2 DEF r, OldPairs
      <4> QED
        BY <4>1, <4>2
    <3> QED
      BY <3>2, <3>3, <3>4
  <2> QED
    BY <2>1, <2>2
<1>11. ASSUME NEW y \in W, NEW q \in 1..Len(cu), cu[q].k = "while", y.n = cu[q].l1
       PROVE  y.at = H[q].at /\ y.in = H[q].in
  <2>1. CASE q \in 1..m
    <3>1. ct[q].k = "while" /\ y.n = ct[q].l1 /\ q \in 1..Len(ct) /\ H[q] = G[q]
      BY <1>4, <1>5, <1>11, <2>1 DEF Matches
    <3>2. y \in Y
      BY <2>1, <3>1 DEF NewMarks
    <3> QED
      BY <3>1, <3>2 DEF Jumped
  <2>2. CASE q \notin 1..m
    BY <1>2, <1>11, <2>2 DEF NewLoops
  <2> QED
    BY <2>1, <2>2
<1> QED
  BY <1>8, <1>9, <1>10, <1>11 DEF Jumped, r

\* The code grows by jumps in J and labels in D.
Grows(J, D) == \E u : code' = code \o u /\ Adds(u, J, D)
\* The parser's open statements, what they stand for and the jumps.
Structure(L, G) ==
  /\ Nested(ctl, L) /\ Stands(prog, scopes, ctl, L, G)
  /\ Jumped(Jumps(code), Marks(code), prog, ctl, G)

\* The jumps and labels of the longer code.
LEMMA GrowsFacts ==
  ASSUME IsSeq(code), NEW J, NEW D, Grows(J, D)
  PROVE  Jumps(code') \subseteq Jumps(code) \cup J /\ Marks(code') \subseteq Marks(code) \cup D
BY CodeAdds DEF Grows

\* The labels that open statements owe lie below the counter.
LEMMA OwedFacts ==
  ASSUME LInv
  PROVE  /\ IsSeq(ctl) /\ Len(ctl) \in Nat /\ IsSeq(code) /\ label \in Nat
         /\ \A q \in 1..Len(ctl) : /\ OwedBy(ctl[q]) \subseteq 2..(label - 1)
                                   /\ OwedBy(ctl[q]) \subseteq Labels(ctl[q])
                                   /\ \A l \in OwedBy(ctl[q]) : Owes(ctl, l)
                                   /\ ctl[q].k = "while" => Loops(ctl, ctl[q].l1)
<1>1. IsSeq(ctl) /\ Len(ctl) \in Nat /\ IsSeq(code) /\ DOMAIN ctl = 1..Len(ctl)
  BY SeqFacts DEF LInv, CtlOK, CodeOK
<1>2. ASSUME NEW q \in 1..Len(ctl)
      PROVE  /\ OwedBy(ctl[q]) \subseteq 2..(label - 1)
             /\ OwedBy(ctl[q]) \subseteq Labels(ctl[q])
             /\ \A l \in OwedBy(ctl[q]) : Owes(ctl, l)
             /\ ctl[q].k = "while" => Loops(ctl, ctl[q].l1)
  <2>1. OpenOK(ctl[q], label)
    BY <1>1 DEF LInv, CtlOK
  <2>2. OwedBy(ctl[q]) \subseteq 2..(label - 1) /\ OwedBy(ctl[q]) \subseteq Labels(ctl[q])
    BY <2>1 DEF OpenOK, OwedBy, Labels
  <2> QED
    BY <1>1, <2>2 DEF Owes, Loops
<1> QED
  BY <1>1, <1>2 DEF LInv

\* Code without labels whose jumps go to the exit.
LEMMA PlainJumped ==
  ASSUME LInv, NEW G, Jumped(Jumps(code), Marks(code), prog, ctl, G), IsSeq(prog),
         NEW it, prog' = Append(prog, it), NEW J, Grows(J, {}),
         \A x \in J : x.n = ExitLabel /\ LeavesAt(prog', x),
         NEW cu, NEW H, NEW m, Matches(ctl, cu, G, H, m),
         \A q \in (m + 1)..Len(ctl) : ctl[q].k = "block",
         \A q \in (m + 1)..Len(cu) : cu[q].k = "block"
  PROVE  Jumped(Jumps(code'), Marks(code'), prog', cu, H)
<1> DEFINE X == Jumps(code)
           Y == Marks(code)
           V == Jumps(code')
           W == Marks(code')
<1>1. IsSeq(code) /\ Len(ctl) \in Nat
  BY OwedFacts
<1>2. V \subseteq X \cup J /\ W \subseteq Y \cup {}
  BY <1>1, GrowsFacts
<1>3. NewJumps(J, prog', ctl, m)
  <2>1. \A q \in 1..m : q \in 1..Len(ctl)
    BY <1>1 DEF Matches
  <2>2. \A q \in 1..m : ExitLabel \notin OwedBy(ctl[q])
    <3>1. ExitLabel \notin 2..(label - 1)
      BY OwedFacts DEF ExitLabel
    <3> QED
      BY <2>1, <3>1, OwedFacts
  <2> QED
    BY <2>2 DEF NewJumps
<1>4. NewOwed(X, J, cu, H, m) /\ NewLoops(Y, {}, cu, H, m)
  <2>1. \A q \in (m + 1)..Len(cu) : OwedBy(cu[q]) = {} /\ cu[q].k # "while"
    BY DEF OwedBy
  <2> QED
    BY <2>1 DEF NewOwed, NewLoops
<1>5. OldPairs(X, Y, prog', ctl, G, m)
  BY DEF Waits, OldPairs
<1>6. NewPairs(X, J, Y, {}, prog', cu, H)
  BY DEF NewPairs
<1>7. NewMarks({}, ctl, m)
  BY DEF NewMarks
<1> HIDE DEF X, Y, V, W
<1>8. Jumped(X, Y, prog, ctl, G)
  BY DEF X, Y
<1> DEFINE none == {}
<1>9. /\ NewLoops(Y, none, cu, H, m) /\ NewPairs(X, J, Y, none, prog', cu, H)
      /\ NewMarks(none, ctl, m) /\ W \subseteq Y \cup none
  BY <1>2, <1>4, <1>6, <1>7
<1> HIDE DEF none
<1>10. Jumped(V, W, prog', cu, H)
  BY <1>2, <1>3, <1>4, <1>5, <1>8, <1>9, JumpedStep
<1> QED
  BY <1>10 DEF V, W

\* A piece without labels or jumps.
LEMMA GrowsPlain ==
  ASSUME NEW t, Piece(t, {}, {}), NEW i, NEW s, code' = code \o At(t, i, s)
  PROVE  Grows({}, {})
BY AddsStraight DEF Grows

\* A declaration has no jump and no label.
LEMMA DeclareControl ==
  ASSUME LInv, ReadChain, NEW L, NEW G, Structure(L, G), Declare, Conditional = FALSE,
         Len(scopes') = Len(scopes)
  PROVE  Structure(L, G)'
<1>1. /\ ctl' = ctl /\ ~InBranch
      /\ \E d \in {x \in Simple : x.k = "decl"} :
           Read(d, At(<<I("alloc", SlotSize)>>
                      \o (IF d.e = "none" THEN <<>>
                          ELSE Eval(Bind(scopes, d.v, off - SlotSize), d.e)
                               \o InitStore(off - SlotSize)), Pos, scopes))
  BY DEF Declare
<1>2. PICK d \in {x \in Simple : x.k = "decl"} :
        Read(d, At(<<I("alloc", SlotSize)>>
                   \o (IF d.e = "none" THEN <<>>
                       ELSE Eval(Bind(scopes, d.v, off - SlotSize), d.e)
                            \o InitStore(off - SlotSize)), Pos, scopes))
  BY <1>1
<1> DEFINE s == Bind(scopes, d.v, off - SlotSize)
           o == off - SlotSize
           init == IF d.e = "none" THEN <<>> ELSE Eval(s, d.e) \o InitStore(o)
           t == <<I("alloc", SlotSize)>> \o init
<1>3. prog' = Append(prog, d) /\ code' = code \o At(t, Pos, scopes)
  BY <1>2 DEF Read
<1>4. Piece(t, {}, {})
  <2>1. Piece(<<I("alloc", SlotSize)>>, {}, {})
    BY StraightOne
  <2>2. Piece(init, {}, {})
    <3>1. Piece(Eval(s, d.e) \o InitStore(o), {}, {} \cup {})
      BY EvalPiece, InitStorePiece, JoinStraight
    <3> QED
      BY <3>1, EmptyPiece
  <2>3. Piece(t, {}, {} \cup {})
    BY <2>1, <2>2, JoinStraight
  <2> QED
    BY <2>3
<1> HIDE DEF t
<1>5. Grows({}, {})
  BY <1>3, <1>4, GrowsPlain
<1>6. IsSeq(ctl) /\ Len(ctl) \in Nat /\ DOMAIN ctl = 1..Len(ctl) /\ IsSeq(prog)
  BY OwedFacts, SeqFacts DEF ReadChain
<1>7. \A q \in 1..Len(ctl) : ctl[q].k = "block"
  BY <1>1, <1>6 DEF InBranch
<1>8. Stands(prog', scopes', ctl, L, G)
  <2>1. d.k \notin OpenKinds \cup CloseKinds \cup {"else"}
    BY DEF OpenKinds, CloseKinds
  <2> QED
    BY <1>3, <1>7, <2>1, StandsOn DEF Structure
<1>9. Jumped(Jumps(code'), Marks(code'), prog', ctl, G)
  <2>1. Matches(ctl, ctl, G, G, Len(ctl))
    BY <1>6 DEF Alike, Matches
  <2>2. \A q \in (Len(ctl) + 1)..Len(ctl) : ctl[q].k = "block"
    BY <1>6
  <2> DEFINE none == {}
  <2>3. Grows(none, {}) /\ \A x \in none : x.n = ExitLabel /\ LeavesAt(prog', x)
    BY <1>5
  <2> HIDE DEF none
  <2> QED
    BY <1>3, <1>6, <2>1, <2>2, <2>3, PlainJumped DEF Structure
<1> QED
  BY <1>1, <1>8, <1>9 DEF Structure

\* Code that grows by two pieces.
LEMMA GrowsTwo ==
  ASSUME NEW u, NEW v, NEW J, NEW K, NEW D, NEW E, Adds(u, J, D), Adds(v, K, E),
         code' = code \o (u \o v)
  PROVE  Grows(J \cup K, D \cup E)
BY AddsJoin DEF Grows

\* A jump adds itself.
LEMMA AddsJump ==
  ASSUME NEW op \in {"jp", "jz"}, NEW n, NEW i, NEW s
  PROVE  Adds(At(<<I(op, n)>>, i, s), {Instr(op, n, i, s)}, {})
<1>1. op # "label"
  OBVIOUS
<1>2. Adds(At(<<I(op, n)>>, i, s), IF op \in {"jp", "jz"} THEN {Instr(op, n, i, s)} ELSE {},
                                   IF op = "label" THEN {Instr(op, n, i, s)} ELSE {})
  BY AddsOne
<1> QED
  BY <1>1, <1>2

\* A label adds itself.
LEMMA AddsLabel ==
  ASSUME NEW n, NEW i, NEW s
  PROVE  Adds(At(<<I("label", n)>>, i, s), {}, {Instr("label", n, i, s)})
<1>1. "label" \notin {"jp", "jz"}
  OBVIOUS
<1> DEFINE op == "label"
<1>2. Adds(At(<<I(op, n)>>, i, s), IF op \in {"jp", "jz"} THEN {Instr(op, n, i, s)} ELSE {},
                                   IF op = "label" THEN {Instr(op, n, i, s)} ELSE {})
  BY AddsOne
<1> QED
  BY <1>1, <1>2

\* A straight piece and a jump.
LEMMA AddsTest ==
  ASSUME NEW t, Piece(t, {}, {}), NEW op \in {"jp", "jz"}, NEW n, NEW i, NEW s
  PROVE  Adds(At(t \o <<I(op, n)>>, i, s), {Instr(op, n, i, s)}, {})
<1> DEFINE x == I(op, n)
           y == Instr(op, n, i, s)
<1>1. Adds(At(t, i, s), {}, {}) /\ Adds(At(<<x>>, i, s), {y}, {})
  BY AddsStraight, AddsJump
<1>2. IsSeq(t) /\ IsSeq(<<x>>)
  BY OneSeq DEF Piece
<1> HIDE DEF x, y
<1>3. Adds(At(t, i, s) \o At(<<x>>, i, s), {} \cup {y}, {} \cup {})
  BY <1>1, AddsJoin
<1>4. At(t \o <<x>>, i, s) = At(t, i, s) \o At(<<x>>, i, s)
  BY <1>2, AtJoin
<1> QED
  BY <1>3, <1>4 DEF x, y

\* An item without control flow; its jumps, if any, leave the function.
Plainly(it, J) ==
  /\ prog' = Append(prog, it) /\ it.k \notin OpenKinds \cup CloseKinds \cup {"else"}
  /\ Grows(J, {}) /\ \A x \in J : x.n = ExitLabel /\ LeavesAt(prog', x)

\* An item whose code has no jump and no label.
LEMMA PlainNone ==
  ASSUME NEW it, it.k \notin OpenKinds \cup CloseKinds \cup {"else"},
         prog' = Append(prog, it), NEW t, Piece(t, {}, {}), code' = code \o t
  PROVE  \E J : Plainly(it, J)
<1> DEFINE none == {}
<1>1. Jumps(t) = {} /\ Marks(t) = {} /\ IsSeq(t)
  <2>1. \A j \in DOMAIN t : t[j].op # "label" /\ t[j].op \notin {"jp", "jz"}
    BY DEF Piece, HasLabel, HasJump
  <2> QED
    BY <2>1 DEF Jumps, Marks, Piece
<1>2. Grows(none, {})
  BY <1>1 DEF Grows, Adds
<1>3. \A x \in none : x.n = ExitLabel /\ LeavesAt(prog', x)
  OBVIOUS
<1> HIDE DEF none
<1> QED
  BY <1>2, <1>3 DEF Plainly

\* Of the simple statements only return has a jump, to the exit.
LEMMA SimplePlain ==
  ASSUME ReadChain, Assign \/ Call \/ Return \/ Empty
  PROVE  \E it, J : Plainly(it, J)
<1>1. CASE Assign
  <2>1. PICK s \in {x \in Simple : x.k = "set"} :
          Read(s, At(AssignTo(OffsetOf(scopes, s.v), Eval(scopes, s.e)), Pos, scopes))
    BY <1>1 DEF Assign
  <2> DEFINE t == At(AssignTo(OffsetOf(scopes, s.v), Eval(scopes, s.e)), Pos, scopes)
  <2>2. Piece(t, {}, {})
    BY EvalPiece, AssignToPiece, AtPiece
  <2>3. prog' = Append(prog, s) /\ code' = code \o t
    BY <2>1 DEF Read
  <2>4. s.k \notin OpenKinds \cup CloseKinds \cup {"else"}
    BY DEF OpenKinds, CloseKinds
  <2> HIDE DEF t
  <2> QED
    BY <2>2, <2>3, <2>4, PlainNone
<1>2. CASE Call
  <2>1. PICK s \in {x \in Simple : x.k = "call"} :
          Read(s, At(Eval(scopes, s.v) \o <<I("push", 0), I("call", 0)>>, Pos, scopes)
                  \o At(<<I("pop", 0)>>, Pos + 1, scopes))
    BY <1>2 DEF Call
  <2> DEFINE a == Eval(scopes, s.v) \o <<I("push", 0), I("call", 0)>>
             b == <<I("pop", 0)>>
             t == At(a, Pos, scopes) \o At(b, Pos + 1, scopes)
  <2>2. Piece(a, {}, {} \cup {})
    BY EvalPiece, StraightTwo, JoinStraight
  <2>3. Piece(b, {}, {})
    BY StraightOne
  <2>4. prog' = Append(prog, s) /\ code' = code \o t
    BY <2>1 DEF Read
  <2> HIDE DEF a, b
  <2>5. Piece(At(a, Pos, scopes), {}, {}) /\ Piece(At(b, Pos + 1, scopes), {}, {})
    BY <2>2, <2>3, AtPiece
  <2>6. Piece(t, {}, {} \cup {})
    BY <2>5, JoinStraight
  <2>7. s.k \notin OpenKinds \cup CloseKinds \cup {"else"}
    BY DEF OpenKinds, CloseKinds
  <2> HIDE DEF t
  <2> QED
    BY <2>4, <2>6, <2>7, PlainNone
<1>3. CASE Return
  <2>1. PICK s \in {x \in Simple : x.k = "ret"} :
          Read(s, At((IF s.e = "none" THEN <<>> ELSE Eval(scopes, s.e))
                     \o <<I("jp", ExitLabel)>>, Pos, scopes))
    BY <1>3 DEF Return
  <2> DEFINE a == IF s.e = "none" THEN <<>> ELSE Eval(scopes, s.e)
             x == Instr("jp", ExitLabel, Pos, scopes)
  <2>2. Piece(a, {}, {})
    BY EvalPiece, EmptyPiece
  <2>3. prog' = Append(prog, s) /\ code' = code \o At(a \o <<I("jp", ExitLabel)>>, Pos, scopes)
    BY <2>1 DEF Read
  <2> HIDE DEF a
  <2>4. Grows({x}, {})
    BY <2>2, <2>3, AddsTest DEF Grows
  <2>5. x.op = "jp" /\ x.at = Pos /\ x.n = ExitLabel
    BY InstrFacts
  <2>6. Pos \in DOMAIN prog' /\ prog'[Pos] = s
    BY <2>3, NewItem
  <2>7. s.k = "ret" /\ s.k \notin OpenKinds \cup CloseKinds \cup {"else"}
    BY DEF OpenKinds, CloseKinds
  <2> HIDE DEF x
  <2>8. LeavesAt(prog', x)
    BY <2>5, <2>6, <2>7 DEF LeavesAt
  <2>9. Plainly(s, {x})
    BY <2>3, <2>4, <2>5, <2>7, <2>8 DEF Plainly
  <2> QED
    BY <2>9
<1>4. CASE Empty
  <2> DEFINE s == Item("empty", "none", "none")
             t == At(Mark, Pos, scopes)
  <2>1. prog' = Append(prog, s) /\ code' = code \o t
    BY <1>4 DEF Empty, Read
  <2>2. Piece(t, {}, {})
    BY MarkPiece, AtPiece
  <2>3. s.k \notin OpenKinds \cup CloseKinds \cup {"else"}
    BY DEF OpenKinds, CloseKinds, Item
  <2> HIDE DEF s, t
  <2> QED
    BY <2>1, <2>2, <2>3, PlainNone
<1> QED
  BY <1>1, <1>2, <1>3, <1>4

\* A simple statement keeps the structure.
LEMMA SimpleStatementControl ==
  ASSUME LInv, ReadChain, NEW L, NEW G, Structure(L, G), SimpleStatement
  PROVE  Structure(L, G)'
<1>1. ctl' = Opened /\ scopes' = scopes /\ (Assign \/ Call \/ Return \/ Empty) /\ phase = "read"
  BY DEF SimpleStatement, Statement
<1>2. PICK it, J : Plainly(it, J)
  BY <1>1, SimplePlain
<1>3. AllAlike(ctl, Opened)
  BY <1>1, OpenedAlike DEF LInv
<1> DEFINE cu == Opened
<1> HIDE DEF cu
<1>4. AllAlike(ctl, cu) /\ ctl' = cu
  BY <1>1, <1>3 DEF cu
<1>5. IsSeq(ctl) /\ Len(ctl) \in Nat /\ Len(cu) = Len(ctl) /\ IsSeq(prog)
  BY <1>4, OwedFacts DEF ReadChain, AllAlike
<1>6. Stands(prog', scopes', cu, L, G)
  <2>1. Stands(prog', scopes', ctl, L, G)
    BY <1>1, <1>2, StandsOn DEF Structure, Plainly
  <2> QED
    BY <1>4, <2>1, StandsAlike
<1>7. Nested(cu, L)
  BY <1>4, NestedAlike DEF Structure
<1>8. Jumped(Jumps(code'), Marks(code'), prog', cu, G)
  <2>1. Matches(ctl, cu, G, G, Len(ctl))
    BY <1>4, <1>5 DEF AllAlike, Matches
  <2>2. /\ \A q \in (Len(ctl) + 1)..Len(ctl) : ctl[q].k = "block"
        /\ \A q \in (Len(ctl) + 1)..Len(cu) : cu[q].k = "block"
    BY <1>5
  <2>3. Jumped(Jumps(code), Marks(code), prog, ctl, G)
    BY DEF Structure
  <2> QED
    BY <1>2, <1>5, <2>1, <2>2, <2>3, PlainJumped DEF Plainly
<1> QED
  BY <1>4, <1>6, <1>7, <1>8 DEF Structure

\* There is such a structure.
Structured == \E L, G : Structure(L, G)

\* The numbers of the labels that are there.
LEMMA NumberFacts ==
  ASSUME LInv
  PROVE  /\ label \in Nat /\ label >= 2
         /\ \A x \in Jumps(code) : x.n \in 1..(label - 1)
         /\ \A y \in Marks(code) : y.n \in 1..(label - 1)
         /\ \A q \in 1..Len(ctl) : ctl[q].k = "while" => ctl[q].l1 \in 1..(label - 1)
<1>1. \A l : HasLabel(code, l) \/ HasJump(code, l) => l \in 1..(label - 1)
  BY DEF LInv, CodeOK
<1>2. \A q \in 1..Len(ctl) : ctl[q].k = "while" => HasLabel(code, ctl[q].l1)
  BY OwedFacts DEF LInv
<1> QED
  BY <1>1, <1>2, JumpsHave DEF LInv

\* A statement that opens, with its jumps and labels shown right.
LEMMA OpenControl ==
  ASSUME LInv, ReadChain, NEW L, NEW G, Structure(L, G), ctl # <<>>,
         NEW f, ctl' = Append(Opened, f), NEW it, prog' = Append(prog, it), NEW g,
         Opens(f, g, it, Pos, scopes, scopes'),
         Jumped(Jumps(code'), Marks(code'), prog', Append(Opened, f), Append(G, g))
  PROVE  Structured'
<1> DEFINE cu == Opened
           i == Pos
<1>1. AllAlike(ctl, cu)
  BY OpenedAlike
<1>2. Nested(cu, L) /\ Stands(prog, scopes, cu, L, G)
  BY <1>1, NestedAlike, StandsAlike DEF Structure
<1>3. IsSeq(scopes)
  BY NewItem DEF ScopesOK
<1> DEFINE z == [lvl |-> L[Len(cu) + 1].lvl + Bump(f), dep |-> L[Len(cu) + 1].dep + Deep(f)]
<1>4. z.lvl = L[Len(cu) + 1].lvl + Bump(f) /\ z.dep = L[Len(cu) + 1].dep + Deep(f)
  OBVIOUS
<1>5. Opens(f, g, it, Len(prog) + 1, scopes, scopes')
  BY DEF Pos
<1> HIDE DEF z, cu
<1>6. Nested(Append(cu, f), Append(L, z))
  BY <1>2, <1>4, NestedMore
<1>7. Stands(Append(prog, it), scopes', Append(cu, f), Append(L, z), Append(G, g))
  BY <1>2, <1>3, <1>4, <1>5, StandsOpen
<1>8. PICK M, H : M = Append(L, z) /\ H = Append(G, g)
  OBVIOUS
<1>9. /\ Nested(ctl', M) /\ Stands(prog', scopes', ctl', M, H)
      /\ Jumped(Jumps(code'), Marks(code'), prog', ctl', H)
  BY <1>6, <1>7, <1>8 DEF cu
<1>10. \E P, Q : /\ Nested(ctl', P) /\ Stands(prog', scopes', ctl', P, Q)
                 /\ Jumped(Jumps(code'), Marks(code'), prog', ctl', Q)
  BY <1>9
<1> QED
  BY <1>10 DEF Structured, Structure

\* The list of the statements with a new one.
LEMMA OpenMatches ==
  ASSUME LInv, ctl # <<>>, NEW L, NEW G, Structure(L, G), NEW f, NEW g
  PROVE  LET cu == Append(Opened, f)
             m == Len(ctl)
         IN /\ Matches(ctl, cu, G, Append(G, g), m) /\ m \in Nat /\ Len(cu) = m + 1
            /\ \A q \in (m + 1)..Len(cu) : cu[q] = f /\ Append(G, g)[q] = g
            /\ \A q \in (m + 1)..Len(ctl) : FALSE
<1> DEFINE co == Opened
           cu == Append(co, f)
           m == Len(ctl)
           H == Append(G, g)
<1>1. AllAlike(ctl, co)
  BY OpenedAlike
<1>2. m \in Nat
  BY OwedFacts
<1> HIDE DEF co
<1>3. /\ IsSeq(co) /\ Len(co) = m /\ \A q \in 1..m : Alike(ctl[q], co[q])
  BY <1>1 DEF AllAlike
<1>4. /\ Len(cu) = m + 1 /\ cu[m + 1] = f /\ \A q \in 1..m : cu[q] = co[q]
  BY <1>3, AppendFacts
<1>5. IsSeq(G) /\ Len(G) = m
  BY DEF Structure, Stands
<1>6. H[m + 1] = g /\ \A q \in 1..m : H[q] = G[q]
  BY <1>5, AppendFacts
<1> HIDE DEF cu, m, H
<1>7. Matches(ctl, cu, G, H, m)
  <2>1. Len(ctl) = m
    BY DEF m
  <2>2. /\ Len(ctl) \in Nat /\ Len(cu) \in Nat /\ m <= Len(ctl) /\ m <= Len(cu)
    BY <1>2, <1>4, <2>1
  <2> QED
    BY <1>2, <1>3, <1>4, <1>6, <2>2 DEF Matches
<1>8. \A q \in (m + 1)..(m + 1) : q = m + 1
  BY <1>2
<1>9. \A q \in (m + 1)..m : FALSE
  BY <1>2
<1> QED
  BY <1>2, <1>4, <1>6, <1>7, <1>8, <1>9 DEF cu, m, H, co

\* The brace of a block opens a scope.
LEMMA OpenBlockControl ==
  ASSUME LInv, ReadChain, Structured, OpenBlock
  PROVE  Structured'
<1>1. PICK L, G : Structure(L, G)
  BY DEF Structured
<1> DEFINE f == [NoFrame EXCEPT !.decls = TRUE]
           it == Item("{", "none", "none")
           g == 0
           cu == Append(Opened, f)
           H == Append(G, g)
           m == Len(ctl)
<1>2. /\ ctl' = Append(Opened, f) /\ scopes' = Append(scopes, <<>>) /\ phase = "read"
      /\ Read(it, At(Mark, Pos, scopes))
  BY DEF OpenBlock, Statement
<1>3. prog' = Append(prog, it) /\ code' = code \o At(Mark, Pos, scopes)
  BY <1>2 DEF Read
<1>4. f.k = "block" /\ it.k = "{"
  BY DEF NoFrame, Item
<1> HIDE DEF f, it, g
<1>5. Opens(f, g, it, Pos, scopes, scopes')
  BY <1>2, <1>4 DEF Opens
<1>6. ctl # <<>>
  BY <1>2 DEF LInv
<1>7. /\ Matches(ctl, cu, G, H, m)
      /\ \A q \in (m + 1)..Len(cu) : cu[q].k = "block"
      /\ \A q \in (m + 1)..Len(ctl) : ctl[q].k = "block"
  BY <1>1, <1>4, <1>6, OpenMatches
<1> HIDE DEF cu, H, m
<1>8. Grows({}, {})
  BY <1>3, MarkPiece, GrowsPlain
<1> DEFINE none == {}
<1>9. Grows(none, {}) /\ \A x \in none : x.n = ExitLabel /\ LeavesAt(prog', x)
  BY <1>8
<1> HIDE DEF none
<1>10. Jumped(Jumps(code'), Marks(code'), prog', cu, H)
  BY <1>1, <1>3, <1>7, <1>9, PlainJumped DEF Structure, ReadChain
<1> QED
  BY <1>1, <1>2, <1>3, <1>5, <1>6, <1>10, OpenControl DEF cu, H

\* The head of a while: its label is here, its jump waits for the end.
LEMMA WhileControl ==
  ASSUME LInv, ReadChain, Structured, While
  PROVE  Structured'
<1>1. PICK L, G : Structure(L, G)
  BY DEF Structured
<1>2. PICK c \in {x \in Conds : Usable(x)} :
        Read(Item("while", c, "none"),
             At(<<I("label", label)>> \o Eval(scopes, c) \o <<I("jz", label + 1)>>, Pos, scopes))
  BY DEF While, TwoLabels
<1> DEFINE f == [NoFrame EXCEPT !.k = "while", !.l1 = label, !.l2 = label + 1]
           it == Item("while", c, "none")
           g == [at |-> Pos, els |-> 0, in |-> scopes]
           cu == Append(Opened, f)
           H == Append(G, g)
           m == Len(ctl)
           b == <<I("label", label)>>
           v == Eval(scopes, c)
           j == <<I("jz", label + 1)>>
           x == Instr("jz", label + 1, Pos, scopes)
           y == Instr("label", label, Pos, scopes)
<1>3. /\ ctl' = Append(Opened, f) /\ scopes' = scopes /\ phase = "read"
  BY DEF While, Statement, TwoLabels
<1>4. prog' = Append(prog, it) /\ code' = code \o At(b \o v \o j, Pos, scopes)
  BY <1>2 DEF Read
<1>5. /\ f.k = "while" /\ f.l1 = label /\ f.l2 = label + 1 /\ it.k = "while"
      /\ g.at = Pos /\ g.in = scopes
  BY DEF NoFrame, Item
<1>6. /\ x.op = "jz" /\ x.n = label + 1 /\ x.at = Pos /\ x.in = scopes
      /\ y.op = "label" /\ y.n = label /\ y.at = Pos /\ y.in = scopes
  BY InstrFacts
<1>7. Grows({x}, {y})
  <2>1. Adds(At(v \o j, Pos, scopes), {x}, {}) /\ Adds(At(b, Pos, scopes), {}, {y})
    BY EvalPiece, AddsTest, AddsLabel
  <2>2. IsSeq(b) /\ IsSeq(v) /\ IsSeq(j)
    BY OneSeq, EvalPiece DEF Piece
  <2> HIDE DEF b, v, j, x, y
  <2>3. IsSeq(v \o j)
    BY <2>2, ConcatFacts
  <2>4. b \o v \o j = b \o (v \o j)
    BY <2>2, ConcatAssoc
  <2>5. At(b \o (v \o j), Pos, scopes) = At(b, Pos, scopes) \o At(v \o j, Pos, scopes)
    BY <2>2, <2>3, AtJoin
  <2>6. Grows({} \cup {x}, {y} \cup {})
    BY <1>4, <2>1, <2>4, <2>5, GrowsTwo
  <2> QED
    BY <2>6
<1> HIDE DEF f, it, g, x, y
<1>8. Opens(f, g, it, Pos, scopes, scopes')
  BY <1>3, <1>5 DEF Opens
<1>9. ctl # <<>>
  BY <1>3 DEF LInv
<1>10. /\ Matches(ctl, cu, G, H, m) /\ m \in Nat /\ Len(cu) = m + 1
       /\ \A q \in (m + 1)..Len(cu) : cu[q] = f /\ H[q] = g
       /\ \A q \in (m + 1)..Len(ctl) : FALSE
  BY <1>1, <1>9, OpenMatches
<1> DEFINE X == Jumps(code)
           Y == Marks(code)
           r == prog'
<1>11. /\ label \in Nat /\ label >= 2
       /\ \A a \in X : a.n \in 1..(label - 1)
       /\ \A a \in Y : a.n \in 1..(label - 1)
       /\ \A q \in 1..m : ctl[q].k = "while" => ctl[q].l1 \in 1..(label - 1)
       /\ \A q \in 1..m : OwedBy(ctl[q]) \subseteq 2..(label - 1)
  BY NumberFacts, OwedFacts
<1>12. label \notin 1..(label - 1) /\ label + 1 \notin 1..(label - 1) /\ label # label + 1
       /\ label + 1 \notin 2..(label - 1) /\ label + 1 # ExitLabel
  BY <1>11 DEF ExitLabel
<1>13. Jumps(code') \subseteq X \cup {x} /\ Marks(code') \subseteq Y \cup {y}
  BY <1>7, OwedFacts, GrowsFacts
<1>14. Jumped(X, Y, prog, ctl, G) /\ r = Append(prog, it) /\ IsSeq(prog)
  BY <1>1, <1>4 DEF Structure, ReadChain
<1> HIDE DEF X, Y, r, cu, H, m
<1>15. NewJumps({x}, r, ctl, m)
  BY <1>6, <1>11, <1>12 DEF NewJumps
<1>16. NewOwed(X, {x}, cu, H, m)
  <2>1. OwedBy(f) = {label + 1}
    BY <1>5 DEF OwedBy
  <2>2. Pend(x, f, g)
    BY <1>5, <1>6 DEF Pend
  <2> QED
    BY <1>10, <1>11, <1>12, <2>1, <2>2 DEF NewOwed
<1>17. NewPairs(X, {x}, Y, {y}, r, cu, H)
  BY <1>6, <1>11, <1>12 DEF NewPairs
<1>18. OldPairs(X, Y, r, ctl, G, m)
  BY <1>10 DEF OldPairs
<1>19. NewMarks({y}, ctl, m)
  BY <1>6, <1>11, <1>12 DEF NewMarks
<1>20. NewLoops(Y, {y}, cu, H, m)
  BY <1>5, <1>6, <1>10, <1>11, <1>12 DEF NewLoops
<1>21. Jumped(Jumps(code'), Marks(code'), r, cu, H)
  BY <1>10, <1>13, <1>14, <1>15, <1>16, <1>17, <1>18, <1>19, <1>20, JumpedStep
<1> QED
  BY <1>1, <1>3, <1>4, <1>8, <1>9, <1>21, OpenControl DEF cu, H, r

\* The head of an if: its jump waits for the else or the end.
LEMMA IfControl ==
  ASSUME LInv, ReadChain, Structured, If
  PROVE  Structured'
<1>1. PICK L, G : Structure(L, G)
  BY DEF Structured
<1>2. PICK c \in {x \in Conds : Usable(x)} :
        Read(Item("if", c, "none"), At(Eval(scopes, c) \o <<I("jz", label)>>, Pos, scopes))
  BY DEF If, TwoLabels
<1> DEFINE f == [NoFrame EXCEPT !.k = "then", !.l1 = label, !.l2 = label + 1]
           it == Item("if", c, "none")
           g == [at |-> Pos, els |-> 0, in |-> scopes]
           cu == Append(Opened, f)
           H == Append(G, g)
           m == Len(ctl)
           v == Eval(scopes, c)
           j == <<I("jz", label)>>
           x == Instr("jz", label, Pos, scopes)
<1>3. /\ ctl' = Append(Opened, f) /\ scopes' = scopes /\ phase = "read"
  BY DEF If, Statement, TwoLabels
<1>4. prog' = Append(prog, it) /\ code' = code \o At(v \o j, Pos, scopes)
  BY <1>2 DEF Read
<1>5. /\ f.k = "then" /\ f.l1 = label /\ f.l2 = label + 1 /\ it.k = "if"
      /\ g.at = Pos /\ g.in = scopes
  BY DEF NoFrame, Item
<1>6. x.op = "jz" /\ x.n = label /\ x.at = Pos /\ x.in = scopes
  BY InstrFacts
<1>7. Grows({x}, {})
  BY <1>4, EvalPiece, AddsTest DEF Grows
<1> HIDE DEF f, it, g, x
<1>8. Opens(f, g, it, Pos, scopes, scopes')
  BY <1>3, <1>5 DEF Opens
<1>9. ctl # <<>>
  BY <1>3 DEF LInv
<1>10. /\ Matches(ctl, cu, G, H, m) /\ m \in Nat /\ Len(cu) = m + 1
       /\ \A q \in (m + 1)..Len(cu) : cu[q] = f /\ H[q] = g
       /\ \A q \in (m + 1)..Len(ctl) : FALSE
  BY <1>1, <1>9, OpenMatches
<1> DEFINE X == Jumps(code)
           Y == Marks(code)
           r == prog'
           none == {}
<1>11. /\ label \in Nat /\ label >= 2
       /\ \A a \in X : a.n \in 1..(label - 1)
       /\ \A a \in Y : a.n \in 1..(label - 1)
       /\ \A q \in 1..m : OwedBy(ctl[q]) \subseteq 2..(label - 1)
  BY NumberFacts, OwedFacts
<1>12. label \notin 1..(label - 1) /\ label + 1 \notin 1..(label - 1)
       /\ label \notin 2..(label - 1) /\ label # ExitLabel
  BY <1>11 DEF ExitLabel
<1>13. Jumps(code') \subseteq X \cup {x} /\ Marks(code') \subseteq Y \cup none
  BY <1>7, OwedFacts, GrowsFacts
<1>14. Jumped(X, Y, prog, ctl, G) /\ r = Append(prog, it) /\ IsSeq(prog)
  BY <1>1, <1>4 DEF Structure, ReadChain
<1>0. \A a \in Y \cup none : a \in Y /\ a \notin none
  OBVIOUS
<1>19. NewMarks(none, ctl, m)
  BY DEF NewMarks
<1> HIDE DEF X, Y, r, cu, H, m, none
<1>15. NewJumps({x}, r, ctl, m)
  BY <1>6, <1>11, <1>12 DEF NewJumps
<1>16. NewOwed(X, {x}, cu, H, m)
  <2>1. OwedBy(f) = {label, label + 1}
    BY <1>5 DEF OwedBy
  <2>2. Pend(x, f, g)
    BY <1>5, <1>6 DEF Pend
  <2> QED
    BY <1>10, <1>11, <1>12, <2>1, <2>2 DEF NewOwed
<1>17. NewPairs(X, {x}, Y, none, r, cu, H)
  BY <1>0, <1>6, <1>11, <1>12 DEF NewPairs
<1>18. OldPairs(X, Y, r, ctl, G, m)
  BY <1>10 DEF OldPairs
<1>20. NewLoops(Y, none, cu, H, m)
  BY <1>5, <1>10 DEF NewLoops
<1>21. Jumped(Jumps(code'), Marks(code'), r, cu, H)
  BY <1>10, <1>13, <1>14, <1>15, <1>16, <1>17, <1>18, <1>19, <1>20, JumpedStep
<1> QED
  BY <1>1, <1>3, <1>4, <1>8, <1>9, <1>21, OpenControl DEF cu, H, r

\* The if or while f ends at the new item it.
LEMMA CloseFacts ==
  ASSUME NEW p, IsSeq(p), NEW it, it.k \in CloseKinds, NEW f, NEW g, NEW l \in Int,
         f.k # "block", Owns(p, f, g, l), NestIn(p, Len(p) + 1) = l + 1
  PROVE  LET r == Append(p, it)
             j == Len(p) + 1
         IN /\ Closed(r, g.at, j) /\ j \in 1..Len(r) /\ r[j] = it
            /\ g.at \in 1..Len(r) /\ r[g.at].k = IF f.k = "while" THEN "while" ELSE "if"
            /\ f.k = "then" => NoElse(r, g.at, j)
            /\ f.k = "else" => ElseAt(r, g.at, g.els) /\ g.els < j /\ g.els \in 1..Len(r)
<1> DEFINE r == Append(p, it)
           j == Len(p) + 1
           n == Len(p)
<1>1. /\ IsSeq(r) /\ Len(r) = n + 1 /\ n \in Nat /\ r[j] = it
      /\ \A i \in 1..n : r[i] = p[i]
  BY AppendFacts, SeqFacts
<1>2. /\ g.at \in 1..n /\ p[g.at].k = IF f.k = "while" THEN "while" ELSE "if"
      /\ NestIn(p, g.at) = l /\ Within(p, g.at, j)
      /\ f.k = "then" => NoElse(p, g.at, n)
      /\ f.k = "else" => ElseAt(p, g.at, g.els)
  BY DEF Owns
<1>3. /\ Within(r, g.at, j)
      /\ f.k = "then" => NoElse(r, g.at, n)
      /\ f.k = "else" => ElseAt(r, g.at, g.els)
  BY <1>1, <1>2, StructSame
<1>4. NestIn(r, g.at) = l /\ NestIn(r, j) = l + 1
  <2>1. g.at \in 1..(n + 1) /\ j \in 1..(n + 1)
    BY <1>1, <1>2
  <2> QED
    BY <1>2, <2>1, NestSame
<1> HIDE DEF r
<1>5. g.at \in 1..Len(r) /\ j \in 1..Len(r) /\ j \in (g.at + 1)..Len(r)
  BY <1>1, <1>2
<1>6. Closed(r, g.at, j)
  BY <1>1, <1>3, <1>4, <1>5 DEF Closed
<1>7. f.k = "then" => NoElse(r, g.at, j)
  <2>1. it.k # "else"
    BY DEF CloseKinds
  <2>2. \A k \in (g.at + 1)..j : k \in (g.at + 1)..n \/ k = j
    BY <1>1, <1>2
  <2> QED
    BY <1>1, <1>3, <2>1, <2>2 DEF NoElse
<1>8. f.k = "else" => g.els < j /\ g.els \in 1..Len(r)
  <2>1. f.k = "else" => g.els \in (g.at + 1)..n
    BY <1>2 DEF ElseAt
  <2> QED
    BY <1>1, <1>2, <2>1
<1>9. r[g.at].k = IF f.k = "while" THEN "while" ELSE "if"
  BY <1>1, <1>2
<1> QED
  BY <1>1, <1>3, <1>5, <1>6, <1>7, <1>8, <1>9 DEF r

\* The innermost open if or while.
LEMMA TopOwned ==
  ASSUME LInv, ReadChain, NEW L, NEW G, Structure(L, G), phase = "read"
  PROVE  LET g == G[Len(ctl)]
             m == Len(ctl) - 1
         IN /\ ctl # <<>> /\ m \in Nat /\ m + 1 = Len(ctl) /\ Top = ctl[m + 1]
            /\ IsSeq(prog) /\ IsSeq(scopes) /\ Below = Butlast(ctl)
            /\ Top.k # "block" => \E l \in Int :
                 /\ Owns(prog, Top, g, l) /\ NestIn(prog, Len(prog) + 1) = l + 1 /\ g.in = scopes
<1> DEFINE n == Len(ctl)
           g == G[n]
           l == L[n].lvl
<1>1. ctl # <<>> /\ IsSeq(ctl)
  BY OwedFacts DEF LInv
<1>2. n \in Nat /\ n >= 1
  BY <1>1, SeqFacts, ButlastFacts
<1>3. IsSeq(prog) /\ IsSeq(scopes)
  BY NewItem DEF ReadChain, Chain, PlaceOK, ScopesOK, Place
<1>4. Nested(ctl, L) /\ Stands(prog, scopes, ctl, L, G)
  BY DEF Structure
<1>5. ASSUME Top.k # "block"
      PROVE  /\ Owns(prog, Top, g, l) /\ NestIn(prog, Len(prog) + 1) = l + 1 /\ l \in Int
             /\ g.in = scopes
  <2>1. n \in 1..n /\ n + 1 \in 1..(n + 1)
    BY <1>2
  <2>2. Deep(Top) = 0 /\ Bump(Top) = 1
    BY <1>5, DeepFacts
  <2>3. /\ L[n].lvl \in Nat /\ L[n].dep \in Nat /\ L[n + 1].lvl = L[n].lvl + 1
        /\ L[n + 1].dep = L[n].dep + 0
    BY <1>4, <2>1, <2>2 DEF Nested, Top
  <2>4. Owns(prog, Top, g, l) /\ g.in = SubSeq(scopes, 1, L[n].dep)
    BY <1>4, <1>5, <2>1 DEF Stands, Owned, Top
  <2>5. NestIn(prog, Len(prog) + 1) = L[n + 1].lvl /\ Len(scopes) = L[n + 1].dep
    BY <1>4 DEF Stands
  <2>6. SubSeq(scopes, 1, Len(scopes)) = scopes
    <3>1. 0 \in 0..Len(scopes)
      BY <1>3, SeqFacts
    <3> QED
      BY <1>3, <3>1, PrefixSame
  <2>7. L[n].dep = Len(scopes)
    BY <2>3, <2>5
  <2> QED
    BY <2>3, <2>4, <2>5, <2>6, <2>7
<1>6. n - 1 \in Nat /\ n - 1 + 1 = n
  BY <1>2
<1>7. Below = Butlast(ctl)
  BY DEF Below, Butlast
<1> QED
  BY <1>1, <1>3, <1>5, <1>6, <1>7 DEF Top

\* The list of the statements without the innermost one.
LEMMA CloseMatches ==
  ASSUME LInv, ReadChain, NEW L, NEW G, Structure(L, G), phase = "read"
  PROVE  LET cu == Butlast(ctl)
             m == Len(ctl) - 1
         IN /\ Matches(ctl, cu, G, Butlast(G), m)
            /\ \A q \in (m + 1)..Len(cu) : FALSE
            /\ \A q \in (m + 1)..Len(ctl) : ctl[q] = Top /\ G[q] = G[Len(ctl)]
<1> DEFINE cu == Butlast(ctl)
           m == Len(ctl) - 1
           n == Len(ctl)
           H == Butlast(G)
<1>1. ctl # <<>> /\ m \in Nat /\ m + 1 = n /\ IsSeq(ctl) /\ n \in Nat
  BY TopOwned, OwedFacts
<1>2. IsSeq(G) /\ Len(G) = n
  BY DEF Structure, Stands
<1>3. Len(cu) = m /\ \A q \in 1..m : cu[q] = ctl[q]
  BY <1>1, ButlastFacts
<1>4. \A q \in 1..m : H[q] = G[q]
  <2>1. G # <<>>
    BY <1>1, <1>2, SeqFacts
  <2> QED
    BY <1>1, <1>2, <2>1, ButlastFacts
<1> HIDE DEF cu, H, m
<1>5. Matches(ctl, cu, G, H, m)
  <2>1. n \in Nat /\ m <= n /\ m <= Len(cu) /\ Len(cu) \in Nat
    BY <1>1, <1>3
  <2> QED
    BY <1>1, <1>3, <1>4, <2>1 DEF Alike, Matches
<1>6. /\ \A q \in (m + 1)..Len(cu) : FALSE
      /\ \A q \in (m + 1)..Len(ctl) : q = n
  BY <1>1, <1>3
<1> QED
  BY <1>5, <1>6 DEF cu, H, m, Top

\* A statement has closed.
LEMMA CloseControl ==
  ASSUME LInv, ReadChain, NEW L, NEW G, Structure(L, G), phase = "read", ctl' = Below,
         NEW it, prog' = Append(prog, it), Closes(Top, it, scopes, scopes'),
         Jumped(Jumps(code'), Marks(code'), prog', Butlast(ctl), Butlast(G))
  PROVE  Structured'
<1>1. /\ ctl # <<>> /\ IsSeq(scopes) /\ Below = Butlast(ctl) /\ Top = ctl[Len(ctl)]
  BY TopOwned DEF Top
<1>2. Nested(ctl, L) /\ Stands(prog, scopes, ctl, L, G)
  BY DEF Structure
<1>3. Nested(Butlast(ctl), Butlast(L))
  BY <1>1, <1>2, NestedLess
<1>4. Closes(ctl[Len(ctl)], it, scopes, scopes')
  BY <1>1
<1>5. Stands(Append(prog, it), scopes', Butlast(ctl), Butlast(L), Butlast(G))
  BY <1>1, <1>2, <1>4, StandsClose
<1>6. PICK M, H : M = Butlast(L) /\ H = Butlast(G)
  OBVIOUS
<1>7. /\ Nested(ctl', M) /\ Stands(prog', scopes', ctl', M, H)
      /\ Jumped(Jumps(code'), Marks(code'), prog', ctl', H)
  BY <1>1, <1>3, <1>5, <1>6
<1>8. \E P, Q : /\ Nested(ctl', P) /\ Stands(prog', scopes', ctl', P, Q)
                /\ Jumped(Jumps(code'), Marks(code'), prog', ctl', Q)
  BY <1>7
<1> QED
  BY <1>8 DEF Structured, Structure

\* The end of a block takes its scope away.
LEMMA CloseBlockControl ==
  ASSUME LInv, ReadChain, Structured, CloseBlock
  PROVE  Structured'
<1>1. PICK L, G : Structure(L, G)
  BY DEF Structured
<1> DEFINE it == Item("}", "none", "none")
           cu == Butlast(ctl)
           H == Butlast(G)
           m == Len(ctl) - 1
<1>2. /\ phase = "read" /\ Top.k = "block" /\ ctl' = Below
      /\ scopes' = SubSeq(scopes, 1, Len(scopes) - 1)
      /\ Read(it, At(Mark, Pos, scopes))
  BY DEF CloseBlock, Reading, BlockEnd
<1>3. prog' = Append(prog, it) /\ code' = code \o At(Mark, Pos, scopes)
  BY <1>2 DEF Read
<1>4. it.k = "}"
  BY DEF Item
<1> HIDE DEF it
<1>5. Closes(Top, it, scopes, scopes')
  BY <1>2, <1>4 DEF Closes
<1>6. /\ Matches(ctl, cu, G, H, m)
      /\ \A q \in (m + 1)..Len(cu) : cu[q].k = "block"
      /\ \A q \in (m + 1)..Len(ctl) : ctl[q].k = "block"
  BY <1>1, <1>2, CloseMatches
<1> HIDE DEF cu, H, m
<1>8. Grows({}, {})
  BY <1>3, MarkPiece, GrowsPlain
<1> DEFINE none == {}
<1>9. Grows(none, {}) /\ \A x \in none : x.n = ExitLabel /\ LeavesAt(prog', x)
  BY <1>8
<1> HIDE DEF none
<1>10. Jumped(Jumps(code'), Marks(code'), prog', cu, H)
  BY <1>1, <1>3, <1>6, <1>9, PlainJumped DEF Structure, ReadChain
<1> QED
  BY <1>1, <1>2, <1>3, <1>5, <1>10, CloseControl DEF cu, H

\* The labels of the innermost statement are nobody else's.
LEMMA OwnLabels ==
  ASSUME LInv, phase = "read", Top.k # "block"
  PROVE  /\ \A l \in Labels(Top) : l # ExitLabel
         /\ \A l \in Labels(Top) : \A q \in 1..(Len(ctl) - 1) :
              l \notin OwedBy(ctl[q]) /\ ~(ctl[q].k = "while" /\ l = ctl[q].l1)
         /\ \A y \in Marks(code) : y.n \notin OwedBy(Top)
<1>1. /\ ctl # <<>> /\ OpenOK(Top, label)
      /\ \A l : Owes(ctl, l) <=> Owes(Below, l) \/ l \in OwedBy(Top)
      /\ \A l \in Labels(Top) : ~Owes(Below, l) /\ ~Loops(Below, l)
  BY TopFacts
<1>2. /\ IsSeq(ctl) /\ Below = Butlast(ctl)
  BY OwedFacts DEF Below, Butlast
<1>3. /\ DOMAIN Below = 1..(Len(ctl) - 1)
      /\ \A q \in 1..(Len(ctl) - 1) : Below[q] = ctl[q]
  BY <1>1, <1>2, ButlastFacts
<1>4. Labels(Top) \subseteq 2..(label - 1)
  BY <1>1 DEF Labels, OpenOK
<1>5. \A l \in 2..(label - 1) : l # ExitLabel
  BY DEF ExitLabel
<1>6. \A l \in Labels(Top) : \A q \in 1..(Len(ctl) - 1) :
        l \notin OwedBy(ctl[q]) /\ ~(ctl[q].k = "while" /\ l = ctl[q].l1)
  BY <1>1, <1>3 DEF Owes, Loops
<1>7. \A y \in Marks(code) : HasLabel(code, y.n)
  BY JumpsHave
<1>8. \A y \in Marks(code) : y.n \notin OwedBy(Top)
  BY <1>1, <1>7 DEF LInv
<1>9. \A l \in Labels(Top) : l # ExitLabel
  BY <1>4, <1>5
<1> QED
  BY <1>6, <1>8, <1>9

\* The labels of each kind of statement.
LEMMA LabelKinds ==
  ASSUME LInv, phase = "read", Top.k # "block"
  PROVE  /\ Top.l1 # Top.l2 /\ Labels(Top) = {Top.l1, Top.l2}
         /\ OwedBy(Top) = IF Top.k = "then" THEN {Top.l1, Top.l2} ELSE {Top.l2}
<1>1. OpenOK(Top, label)
  BY TopFacts
<1> QED
  BY <1>1 DEF OpenOK, Labels, OwedBy

\* An if or a while ends, with jumps to its labels and with its labels.
LEMMA EndControl ==
  ASSUME LInv, ReadChain, NEW L, NEW G, Structure(L, G), phase = "read", Top.k # "block",
         ctl' = Below, scopes' = scopes, NEW it, it.k \in CloseKinds, prog' = Append(prog, it),
         NEW J, NEW D, Grows(J, D),
         \A x \in J \cup D : x.n \in Labels(Top),
         NewPairs(Jumps(code), J, Marks(code), D, prog', Butlast(ctl), Butlast(G)),
         OldPairs(Jumps(code), Marks(code), prog', ctl, G, Len(ctl) - 1)
  PROVE  Structured'
<1> DEFINE X == Jumps(code)
           Y == Marks(code)
           r == prog'
           cu == Butlast(ctl)
           H == Butlast(G)
           m == Len(ctl) - 1
<1>1. Jumps(code') \subseteq X \cup J /\ Marks(code') \subseteq Y \cup D
  BY OwedFacts, GrowsFacts
<1>2. Matches(ctl, cu, G, H, m) /\ \A q \in (m + 1)..Len(cu) : FALSE
  BY CloseMatches
<1>3. Jumped(X, Y, prog, ctl, G) /\ r = Append(prog, it) /\ IsSeq(prog)
  BY DEF Structure, ReadChain
<1>4. NewPairs(X, J, Y, D, r, cu, H) /\ OldPairs(X, Y, r, ctl, G, m)
  OBVIOUS
<1>5. /\ \A l \in Labels(Top) : l # ExitLabel
      /\ \A l \in Labels(Top) : \A q \in 1..m :
           l \notin OwedBy(ctl[q]) /\ ~(ctl[q].k = "while" /\ l = ctl[q].l1)
  BY OwnLabels
<1>6. Closes(Top, it, scopes, scopes')
  BY DEF Closes
<1> HIDE DEF X, Y, r, cu, H, m
<1>7. NewJumps(J, r, ctl, m)
  BY <1>5 DEF NewJumps
<1>8. NewOwed(X, J, cu, H, m) /\ NewLoops(Y, D, cu, H, m)
  BY <1>2 DEF NewOwed, NewLoops
<1>9. NewMarks(D, ctl, m)
  BY <1>5 DEF NewMarks
<1>10. Jumped(Jumps(code'), Marks(code'), r, cu, H)
  BY <1>1, <1>2, <1>3, <1>4, <1>7, <1>8, <1>9, JumpedStep
<1> QED
  BY <1>3, <1>6, <1>10, CloseControl DEF r, cu, H

\* Every jump to a label of the innermost statement is known.
LEMMA TopJumps ==
  ASSUME LInv, ReadChain, NEW L, NEW G, Structure(L, G), phase = "read", Top.k # "block"
  PROVE  LET g == G[Len(ctl)]
         IN /\ \A x \in Jumps(code) : x.n \in OwedBy(Top) => Pend(x, Top, g)
            /\ \A y \in Marks(code) : Top.k = "while" /\ y.n = Top.l1 =>
                                        y.at = g.at /\ y.in = g.in
<1> DEFINE n == Len(ctl)
           g == G[n]
<1>1. n \in 1..n /\ Top = ctl[n]
  <2>1. \A m \in Nat : m + 1 \in 1..(m + 1)
    OBVIOUS
  <2> QED
    BY <2>1, TopOwned DEF Top
<1>2. Jumped(Jumps(code), Marks(code), prog, ctl, G)
  BY DEF Structure
<1> HIDE DEF n
<1>3. /\ \A x \in Jumps(code) : x.n \in OwedBy(ctl[n]) => Pend(x, ctl[n], G[n])
      /\ \A y \in Marks(code) : ctl[n].k = "while" /\ y.n = ctl[n].l1 =>
                                  y.at = G[n].at /\ y.in = G[n].in
  BY <1>1, <1>2 DEF Jumped, n
<1> QED
  BY <1>1, <1>3 DEF n

\* The end of a while: the jump back and the jump out are right.
LEMMA EndWhileControl ==
  ASSUME LInv, ReadChain, Structured, EndWhile
  PROVE  Structured'
<1>1. PICK L, G : Structure(L, G)
  BY DEF Structured
<1> DEFINE it == Item("od", "none", "none")
           g == G[Len(ctl)]
           a == At(<<I("jp", Top.l1)>>, Pos, scopes)
           b == At(<<I("label", Top.l2)>>, Pos + 1, scopes)
           x == Instr("jp", Top.l1, Pos, scopes)
           y == Instr("label", Top.l2, Pos + 1, scopes)
           X == Jumps(code)
           Y == Marks(code)
           r == prog'
           j == Len(prog) + 1
           m == Len(ctl) - 1
<1>2. /\ phase = "read" /\ Top.k = "while" /\ ctl' = Below /\ scopes' = scopes
      /\ Read(it, a \o b)
  BY DEF EndWhile, Reading
<1>3. r = Append(prog, it) /\ code' = code \o (a \o b)
  BY <1>2 DEF Read
<1>4. it.k = "od" /\ it.k \in CloseKinds
  BY DEF Item, CloseKinds
<1>5. /\ x.op = "jp" /\ x.n = Top.l1 /\ x.at = j /\ x.in = scopes
      /\ y.op = "label" /\ y.n = Top.l2 /\ y.at = j + 1 /\ y.in = scopes
  BY InstrFacts DEF Pos
<1>6. Grows({x}, {y})
  <2>1. Adds(a, {x}, {}) /\ Adds(b, {}, {y})
    BY AddsJump, AddsLabel
  <2> HIDE DEF a, b, x, y
  <2>2. Grows({x} \cup {}, {} \cup {y})
    BY <1>3, <2>1, GrowsTwo
  <2> QED
    BY <2>2
<1> HIDE DEF it, a, b, x, y
<1>7. IsSeq(prog) /\ g.in = scopes /\ Closed(r, g.at, j) /\ j \in 1..Len(r) /\ r[j].k = "od"
      /\ g.at \in 1..Len(r) /\ r[g.at].k = "while"
  <2>1. PICK l \in Int : /\ Owns(prog, Top, g, l) /\ NestIn(prog, Len(prog) + 1) = l + 1
                         /\ g.in = scopes
    BY <1>1, <1>2, TopOwned
  <2>2. IsSeq(prog)
    BY DEF ReadChain
  <2> HIDE DEF g
  <2> QED
    BY <1>2, <1>3, <1>4, <2>1, <2>2, CloseFacts
<1>8. /\ Top.l1 # Top.l2 /\ \A w \in Y : w.n # Top.l2
      /\ \A z \in X : z.n = Top.l2 => Pend(z, Top, g)
      /\ \A w \in Y : w.n = Top.l1 => w.at = g.at /\ w.in = g.in
  <2>1. OwedBy(Top) = {Top.l2} /\ Top.k # "block" /\ Top.l1 # Top.l2
    BY <1>2, LabelKinds
  <2>2. \A w \in Y : w.n \notin OwedBy(Top)
    BY <1>2, <2>1, OwnLabels
  <2>3. /\ \A z \in X : z.n \in OwedBy(Top) => Pend(z, Top, g)
        /\ \A w \in Y : w.n = Top.l1 => w.at = g.at /\ w.in = g.in
    BY <1>1, <1>2, <2>1, TopJumps
  <2> HIDE DEF g, X, Y
  <2> QED
    BY <2>1, <2>2, <2>3
<1> HIDE DEF X, Y, r, j, g
<1>9. \A w \in Y : w.n = x.n => JumpOK(r, x, w)
  BY <1>5, <1>7, <1>8 DEF JumpOK, BackTo
<1>10. \A z \in X : z.n = y.n => JumpOK(r, z, y)
  <2>1. PastLoop(r, g.at, y.at)
    BY <1>5, <1>7 DEF PastLoop
  <2> QED
    BY <1>2, <1>5, <1>7, <1>8, <2>1 DEF JumpOK, Pend
<1>11. NewPairs(X, {x}, Y, {y}, r, Butlast(ctl), Butlast(G))
  BY <1>5, <1>8, <1>9, <1>10 DEF NewPairs
<1>12. OldPairs(X, Y, r, ctl, G, m)
  <2>1. \A q \in (m + 1)..Len(ctl) : ctl[q].k # "else"
    BY <1>1, <1>2, CloseMatches
  <2> QED
    BY <2>1 DEF OldPairs, Waits
<1>13. \A z \in {x} \cup {y} : z.n \in Labels(Top)
  BY <1>2, <1>5 DEF Labels
<1>14. Top.k # "block"
  BY <1>2
<1> QED
  BY <1>1, <1>2, <1>3, <1>4, <1>6, <1>11, <1>12, <1>13, <1>14, EndControl DEF X, Y, r, m

\* An if or a while closes: what is known of its item and of its else.
LEMMA TopClosed ==
  ASSUME LInv, ReadChain, NEW L, NEW G, Structure(L, G), phase = "read", Top.k # "block",
         NEW it, it.k \in CloseKinds, prog' = Append(prog, it)
  PROVE  LET g == G[Len(ctl)]
             j == Len(prog) + 1
             r == prog'
         IN /\ g.in = scopes /\ Closed(r, g.at, j) /\ j \in 1..Len(r) /\ r[j] = it
            /\ g.at \in 1..Len(r) /\ r[g.at].k = IF Top.k = "while" THEN "while" ELSE "if"
            /\ Top.k = "then" => NoElse(r, g.at, j)
            /\ Top.k = "else" => ElseAt(r, g.at, g.els) /\ g.els < j /\ g.els \in 1..Len(r)
<1> DEFINE g == G[Len(ctl)]
<1>1. PICK l \in Int : /\ Owns(prog, Top, g, l) /\ NestIn(prog, Len(prog) + 1) = l + 1
                       /\ g.in = scopes
  BY TopOwned
<1>2. IsSeq(prog)
  BY DEF ReadChain
<1> HIDE DEF g
<1>3. /\ Closed(Append(prog, it), g.at, Len(prog) + 1)
      /\ Len(prog) + 1 \in 1..Len(Append(prog, it)) /\ Append(prog, it)[Len(prog) + 1] = it
      /\ g.at \in 1..Len(Append(prog, it))
      /\ Append(prog, it)[g.at].k = IF Top.k = "while" THEN "while" ELSE "if"
      /\ Top.k = "then" => NoElse(Append(prog, it), g.at, Len(prog) + 1)
      /\ Top.k = "else" => /\ ElseAt(Append(prog, it), g.at, g.els) /\ g.els < Len(prog) + 1
                           /\ g.els \in 1..Len(Append(prog, it))
  BY <1>1, <1>2, CloseFacts
<1> QED
  BY <1>1, <1>3 DEF g

\* The end of an if without else.
LEMMA EndThenControl ==
  ASSUME LInv, ReadChain, Structured, EndThen
  PROVE  Structured'
<1>1. PICK L, G : Structure(L, G)
  BY DEF Structured
<1> DEFINE it == Item("fi", "none", "none")
           g == G[Len(ctl)]
           a == <<I("jp", Top.l2)>>
           b == <<I("label", Top.l1)>>
           c == <<I("label", Top.l2)>>
           x == Instr("jp", Top.l2, Pos, scopes)
           y == Instr("label", Top.l1, Pos, scopes)
           z == Instr("label", Top.l2, Pos, scopes)
           X == Jumps(code)
           Y == Marks(code)
           r == prog'
           j == Len(prog) + 1
           m == Len(ctl) - 1
<1>2. /\ phase = "read" /\ Top.k = "then" /\ ctl' = Below /\ scopes' = scopes
      /\ Read(it, At(a \o <<I("label", Top.l1), I("label", Top.l2)>>, Pos, scopes))
  BY DEF EndThen, Reading, SkipElse
<1>3. r = Append(prog, it)
      /\ code' = code \o At(a \o <<I("label", Top.l1), I("label", Top.l2)>>, Pos, scopes)
  BY <1>2 DEF Read
<1>4. it.k = "fi" /\ it.k \in CloseKinds
  BY DEF Item, CloseKinds
<1>5. /\ x.op = "jp" /\ x.n = Top.l2 /\ x.at = j /\ x.in = scopes
      /\ y.op = "label" /\ y.n = Top.l1 /\ y.at = j /\ y.in = scopes
      /\ z.op = "label" /\ z.n = Top.l2 /\ z.at = j /\ z.in = scopes
  BY InstrFacts DEF Pos
<1>6. Grows({x}, {y, z})
  <2>1. /\ Adds(At(a, Pos, scopes), {x}, {}) /\ Adds(At(b, Pos, scopes), {}, {y})
        /\ Adds(At(c, Pos, scopes), {}, {z})
    BY AddsJump, AddsLabel
  <2>2. <<I("label", Top.l1), I("label", Top.l2)>> = b \o c
    BY TwoJoined
  <2>3. IsSeq(a) /\ IsSeq(b) /\ IsSeq(c)
    BY OneSeq
  <2>4. code' = code \o At(a \o (b \o c), Pos, scopes)
    BY <1>3, <2>2
  <2> HIDE DEF a, b, c, x, y, z
  <2>5. IsSeq(b \o c)
    BY <2>3, ConcatFacts
  <2>6. At(a \o (b \o c), Pos, scopes) = At(a, Pos, scopes) \o At(b \o c, Pos, scopes)
    BY <2>3, <2>5, AtJoin
  <2>7. At(b \o c, Pos, scopes) = At(b, Pos, scopes) \o At(c, Pos, scopes)
    BY <2>3, AtJoin
  <2>8. Adds(At(b \o c, Pos, scopes), {} \cup {}, {y} \cup {z})
    BY <2>1, <2>7, AddsJoin
  <2>9. Grows({x} \cup ({} \cup {}), {} \cup ({y} \cup {z}))
    BY <2>1, <2>4, <2>6, <2>8, GrowsTwo
  <2>10. {x} \cup ({} \cup {}) = {x} /\ {} \cup ({y} \cup {z}) = {y, z}
    OBVIOUS
  <2> QED
    BY <2>9, <2>10
<1> HIDE DEF it, x, y, z
<1>7. /\ g.in = scopes /\ Closed(r, g.at, j) /\ j \in 1..Len(r) /\ r[j].k = "fi"
      /\ g.at \in 1..Len(r) /\ r[g.at].k = "if" /\ NoElse(r, g.at, j)
  BY <1>1, <1>2, <1>3, <1>4, TopClosed
<1>8. /\ Top.l1 # Top.l2 /\ \A w \in Y : w.n # Top.l1 /\ w.n # Top.l2
      /\ \A u \in X : u.n # Top.l2
      /\ \A u \in X : u.n = Top.l1 => u.in = g.in /\ u.op = "jz" /\ u.at = g.at
  <2>1. OwedBy(Top) = {Top.l1, Top.l2} /\ Top.k # "block" /\ Top.l1 # Top.l2
    BY <1>2, LabelKinds
  <2>2. \A w \in Y : w.n \notin OwedBy(Top)
    BY <1>2, <2>1, OwnLabels
  <2>3. \A u \in X : u.n \in OwedBy(Top) => Pend(u, Top, g)
    BY <1>1, <1>2, <2>1, TopJumps
  <2> HIDE DEF g, X, Y
  <2>4. \A u \in X : u.n \in OwedBy(Top) =>
          u.in = g.in /\ u.op = "jz" /\ u.at = g.at /\ u.n = Top.l1
    BY <1>2, <2>3 DEF Pend
  <2> QED
    BY <2>1, <2>2, <2>4
<1> HIDE DEF X, Y, r, j, g, a, b, c
<1>9. JumpOK(r, x, z)
  BY <1>5, <1>7 DEF JumpOK
<1>10. \A u \in X : u.n = y.n => JumpOK(r, u, y)
  <2>1. PastThen(r, g.at, y.at)
    BY <1>5, <1>7 DEF PastThen
  <2> QED
    BY <1>5, <1>7, <1>8, <2>1 DEF JumpOK
<1>11. NewPairs(X, {x}, Y, {y, z}, r, Butlast(ctl), Butlast(G))
  BY <1>5, <1>8, <1>9, <1>10 DEF NewPairs
<1>12. OldPairs(X, Y, r, ctl, G, m)
  <2>1. \A q \in (m + 1)..Len(ctl) : ctl[q].k # "else"
    BY <1>1, <1>2, CloseMatches
  <2> QED
    BY <2>1 DEF OldPairs, Waits
<1>13. \A w \in {x} \cup {y, z} : w.n \in Labels(Top)
  BY <1>2, <1>5 DEF Labels
<1>14. Top.k # "block"
  BY <1>2
<1> QED
  BY <1>1, <1>2, <1>3, <1>4, <1>6, <1>11, <1>12, <1>13, <1>14, EndControl DEF X, Y, r, m

\* The end of an else branch.
LEMMA EndElseControl ==
  ASSUME LInv, ReadChain, Structured, EndElse
  PROVE  Structured'
<1>1. PICK L, G : Structure(L, G)
  BY DEF Structured
<1> DEFINE it == Item("fi", "none", "none")
           g == G[Len(ctl)]
           y == Instr("label", Top.l2, Pos, scopes)
           X == Jumps(code)
           Y == Marks(code)
           r == prog'
           j == Len(prog) + 1
           m == Len(ctl) - 1
           none == {}
<1>2. /\ phase = "read" /\ Top.k = "else" /\ ctl' = Below /\ scopes' = scopes
      /\ Read(it, At(<<I("label", Top.l2)>>, Pos, scopes))
  BY DEF EndElse, Reading
<1>3. r = Append(prog, it) /\ code' = code \o At(<<I("label", Top.l2)>>, Pos, scopes)
  BY <1>2 DEF Read
<1>4. it.k = "fi" /\ it.k \in CloseKinds
  BY DEF Item, CloseKinds
<1>5. y.op = "label" /\ y.n = Top.l2 /\ y.at = j /\ y.in = scopes
  BY InstrFacts DEF Pos
<1>6. Grows(none, {y})
  BY <1>3, AddsLabel DEF Grows
<1>0. \A u \in X \cup none : u \in X /\ u \notin none
  OBVIOUS
<1> HIDE DEF it, y, none
<1>7. /\ g.in = scopes /\ Closed(r, g.at, j) /\ j \in 1..Len(r) /\ r[j].k = "fi"
      /\ g.at \in 1..Len(r) /\ r[g.at].k = "if"
      /\ ElseAt(r, g.at, g.els) /\ g.els < j /\ g.els \in 1..Len(r)
  BY <1>1, <1>2, <1>3, <1>4, TopClosed
<1>8. /\ \A w \in Y : w.n # Top.l2
      /\ \A u \in X : u.n = Top.l2 => u.in = g.in /\ u.op = "jp" /\ u.at = g.els
  <2>1. OwedBy(Top) = {Top.l2} /\ Top.k # "block"
    BY <1>2, LabelKinds
  <2>2. \A w \in Y : w.n \notin OwedBy(Top)
    BY <1>2, <2>1, OwnLabels
  <2>3. \A u \in X : u.n \in OwedBy(Top) => Pend(u, Top, g)
    BY <1>1, <1>2, <2>1, TopJumps
  <2> HIDE DEF g, X, Y
  <2>4. \A u \in X : u.n \in OwedBy(Top) => u.in = g.in /\ u.op = "jp" /\ u.at = g.els
    BY <1>2, <2>3 DEF Pend
  <2> QED
    BY <2>1, <2>2, <2>4
<1> HIDE DEF X, Y, r, j, g
<1>9. PastElse(r, g.els, j)
  <2> DEFINE e == g.els
             i == g.at
  <2>1. r[e].k = "else" /\ NestIn(r, e) = NestIn(r, i) + 1 /\ e \in (i + 1)..Len(r)
    BY <1>7 DEF ElseAt
  <2>2. NestIn(r, j) = NestIn(r, i) + 1 /\ \A k \in (i + 1)..j : NestIn(r, k) >= NestIn(r, i) + 1
    BY <1>7 DEF Closed, Within
  <2>3. i \in Int /\ e \in Int /\ j \in Int /\ i + 1 <= e /\ e < j /\ j <= Len(r) /\ Len(r) \in Int
    BY <1>3, <1>7, <2>1, SeqFacts, AppendFacts DEF ReadChain, r
  <2> HIDE DEF e, i
  <2>4. \A k \in e..j : k \in (i + 1)..j
    BY <2>3
  <2>5. j \in (e + 1)..Len(r)
    BY <2>3
  <2>6. PastElse(r, e, j)
    BY <1>7, <2>1, <2>2, <2>4, <2>5 DEF PastElse
  <2> QED
    BY <2>6 DEF e
<1>10. \A u \in X : u.n = y.n => JumpOK(r, u, y)
  <2>1. r[g.els].k = "else"
    BY <1>7 DEF ElseAt
  <2> QED
    BY <1>5, <1>7, <1>8, <1>9, <2>1 DEF JumpOK
<1>11. NewPairs(X, none, Y, {y}, r, Butlast(ctl), Butlast(G))
  BY <1>0, <1>10 DEF NewPairs
<1>12. OldPairs(X, Y, r, ctl, G, m)
  <2>1. \A q \in (m + 1)..Len(ctl) : ctl[q] = Top /\ G[q] = g
    BY <1>1, <1>2, CloseMatches DEF g
  <2>2. ASSUME NEW u \in X, NEW w \in Y, Waits(Top, g, u, w)
        PROVE  JumpOK(r, u, w)
    <3>1. /\ u.op = "jz" /\ u.at = g.at /\ w.at = g.els + 1 /\ w.in = u.in
      BY <2>2 DEF Waits
    <3>2. PastThen(r, g.at, w.at)
      BY <1>7, <3>1 DEF PastThen
    <3> QED
      BY <1>7, <3>1, <3>2 DEF JumpOK
  <2> QED
    BY <2>1, <2>2 DEF OldPairs
<1>13. \A w \in none \cup {y} : w.n \in Labels(Top)
  BY <1>2, <1>5 DEF Labels, none
<1>14. Top.k # "block"
  BY <1>2
<1> QED
  BY <1>1, <1>2, <1>3, <1>4, <1>6, <1>11, <1>12, <1>13, <1>14, EndControl DEF X, Y, r, m

\* The list of the statements with another innermost one.
LEMMA ElseMatches ==
  ASSUME LInv, ReadChain, NEW L, NEW G, Structure(L, G), phase = "read", NEW f, NEW g,
         NEW cu, cu = Replaced(ctl, f), NEW H, H = Replaced(G, g), NEW m, m = Len(ctl) - 1
  PROVE  /\ Matches(ctl, cu, G, H, m)
         /\ \A q \in (m + 1)..Len(cu) : cu[q] = f /\ H[q] = g
         /\ \A q \in (m + 1)..Len(ctl) : ctl[q] = Top
<1> DEFINE n == Len(ctl)
<1>1. ctl # <<>> /\ m \in Nat /\ m + 1 = n /\ IsSeq(ctl) /\ n \in Nat
  BY TopOwned, OwedFacts
<1>2. IsSeq(G) /\ Len(G) = n
  BY DEF Structure, Stands
<1>3. Len(cu) = n /\ cu[n] = f /\ \A q \in 1..m : cu[q] = ctl[q]
  BY <1>1, ReplaceFacts
<1>4. H[n] = g /\ \A q \in 1..m : H[q] = G[q]
  <2>1. G # <<>>
    BY <1>1, <1>2, SeqFacts
  <2> QED
    BY <1>1, <1>2, <2>1, ReplaceFacts
<1>5. Matches(ctl, cu, G, H, m)
  <2>1. n \in Nat /\ m <= n /\ m <= Len(cu) /\ Len(cu) \in Nat
    BY <1>1, <1>3
  <2> QED
    BY <1>1, <1>3, <1>4, <2>1 DEF Alike, Matches
<1>6. /\ \A q \in (m + 1)..Len(cu) : q = n
      /\ \A q \in (m + 1)..Len(ctl) : q = n
  BY <1>1, <1>3
<1> QED
  BY <1>3, <1>4, <1>5, <1>6 DEF Top

\* The end of a then branch with an else: the test's jump is right.
LEMMA EndThenElseControl ==
  ASSUME LInv, ReadChain, Structured, EndThenElse
  PROVE  Structured'
<1>1. PICK L, G : Structure(L, G)
  BY DEF Structured
<1> DEFINE it == Item("else", "none", "none")
           g == G[Len(ctl)]
           f == [Top EXCEPT !.k = "else"]
           e == [at |-> g.at, els |-> Len(prog) + 1, in |-> g.in]
           a == At(<<I("jp", Top.l2)>>, Pos, scopes)
           b == At(<<I("label", Top.l1)>>, Pos + 1, scopes)
           x == Instr("jp", Top.l2, Pos, scopes)
           y == Instr("label", Top.l1, Pos + 1, scopes)
           X == Jumps(code)
           Y == Marks(code)
           r == prog'
           j == Len(prog) + 1
           m == Len(ctl) - 1
           cu == Replaced(ctl, f)
           H == Replaced(G, e)
<1>2. /\ phase = "read" /\ Top.k = "then" /\ ctl' = Append(Below, f) /\ scopes' = scopes
      /\ Read(it, a \o b)
  BY DEF EndThenElse, Reading, SkipElse
<1>3. r = Append(prog, it) /\ code' = code \o (a \o b)
  BY <1>2 DEF Read
<1>4. it.k = "else"
  BY DEF Item
<1>5. /\ x.op = "jp" /\ x.n = Top.l2 /\ x.at = j /\ x.in = scopes
      /\ y.op = "label" /\ y.n = Top.l1 /\ y.at = j + 1 /\ y.in = scopes
  BY InstrFacts DEF Pos
<1>6. Grows({x}, {y})
  <2>1. Adds(a, {x}, {}) /\ Adds(b, {}, {y})
    BY AddsJump, AddsLabel
  <2> HIDE DEF a, b, x, y
  <2>2. Grows({x} \cup {}, {} \cup {y})
    BY <1>3, <2>1, GrowsTwo
  <2> QED
    BY <2>2
<1>7. f.k = "else" /\ f.l1 = Top.l1 /\ f.l2 = Top.l2 /\ OwedBy(f) = {Top.l2}
  <2>1. OpenOK(Top, label)
    BY <1>2, TopFacts
  <2>2. f.k = "else" /\ f.l1 = Top.l1 /\ f.l2 = Top.l2
    BY <2>1 DEF OpenOK
  <2> HIDE DEF f
  <2> QED
    BY <2>2 DEF OwedBy
<1>8. e.at = g.at /\ e.els = j /\ e.in = g.in
  OBVIOUS
<1>9. g.in = scopes /\ IsSeq(scopes) /\ ctl # <<>> /\ Below = Butlast(ctl) /\ Top = ctl[Len(ctl)]
  <2>1. Top.k # "block"
    BY <1>2
  <2> QED
    BY <1>1, <1>2, <2>1, TopOwned DEF Top
<1>10. /\ Top.l1 # Top.l2 /\ \A w \in Y : w.n # Top.l1 /\ w.n # Top.l2
       /\ \A u \in X : u.n # Top.l2
       /\ \A u \in X : u.n = Top.l1 => u.in = g.in /\ u.op = "jz" /\ u.at = g.at
  <2>1. OwedBy(Top) = {Top.l1, Top.l2} /\ Top.k # "block" /\ Top.l1 # Top.l2
    BY <1>2, LabelKinds
  <2>2. \A w \in Y : w.n \notin OwedBy(Top)
    BY <1>2, <2>1, OwnLabels
  <2>3. \A u \in X : u.n \in OwedBy(Top) => Pend(u, Top, g)
    BY <1>1, <1>2, <2>1, TopJumps
  <2> HIDE DEF g, X, Y, f, e
  <2>4. \A u \in X : u.n \in OwedBy(Top) =>
          u.in = g.in /\ u.op = "jz" /\ u.at = g.at /\ u.n = Top.l1
    BY <1>2, <2>3 DEF Pend
  <2> QED
    BY <2>1, <2>2, <2>4
<1>11. \A z \in {x} \cup {y} : z.n \in Labels(Top)
  BY <1>2, <1>5 DEF Labels
<1>12. /\ \A l \in Labels(Top) : l # ExitLabel
       /\ \A l \in Labels(Top) : \A q \in 1..m :
            l \notin OwedBy(ctl[q]) /\ ~(ctl[q].k = "while" /\ l = ctl[q].l1)
  <2>1. Top.k # "block"
    BY <1>2
  <2> QED
    BY <1>2, <2>1, OwnLabels
<1> HIDE DEF it, g, a, b, x, y, f, e
<1>13. Nested(cu, L) /\ Stands(r, scopes, cu, L, H)
  <2>1. Nested(ctl, L) /\ Stands(prog, scopes, ctl, L, G)
    BY <1>1 DEF Structure
  <2>2. e.at = G[Len(ctl)].at /\ e.in = G[Len(ctl)].in /\ ctl[Len(ctl)].k = "then"
    BY <1>2, <1>8, <1>9 DEF g
  <2> QED
    BY <1>3, <1>4, <1>7, <1>8, <1>9, <2>1, <2>2, StandsElse
<1>14. /\ Matches(ctl, cu, G, H, m)
       /\ \A q \in (m + 1)..Len(cu) : cu[q] = f /\ H[q] = e
       /\ \A q \in (m + 1)..Len(ctl) : ctl[q] = Top
  <2>1. cu = Replaced(ctl, f) /\ H = Replaced(G, e) /\ m = Len(ctl) - 1 /\ phase = "read"
    BY <1>2
  <2> HIDE DEF cu, H, m
  <2> QED
    BY <1>1, <2>1, ElseMatches
<1>15. ctl' = cu
  BY <1>2, <1>9 DEF Replaced
<1>16. /\ Jumps(code') \subseteq X \cup {x} /\ Marks(code') \subseteq Y \cup {y}
       /\ Jumped(X, Y, prog, ctl, G) /\ IsSeq(prog)
  BY <1>1, <1>6, OwedFacts, GrowsFacts DEF Structure, ReadChain
<1> HIDE DEF X, Y, r, j, cu, H, m
<1>17. NewJumps({x}, r, ctl, m) /\ NewMarks({y}, ctl, m)
  BY <1>11, <1>12 DEF NewJumps, NewMarks
<1>18. NewOwed(X, {x}, cu, H, m) /\ NewLoops(Y, {y}, cu, H, m)
  <2>1. \A u \in X \cup {x} : u.n \in OwedBy(f) => u = x
    BY <1>7, <1>10
  <2>2. Pend(x, f, e)
    BY <1>5, <1>7, <1>8, <1>9 DEF Pend
  <2> QED
    BY <1>7, <1>14, <2>1, <2>2 DEF NewOwed, NewLoops
<1>19. NewPairs(X, {x}, Y, {y}, r, cu, H)
  <2>1. \A u \in X : u.n = y.n => Waits(f, e, u, y)
    BY <1>5, <1>7, <1>8, <1>9, <1>10 DEF Waits
  <2>2. \E q \in 1..Len(cu) : cu[q] = f /\ H[q] = e
    <3>1. m + 1 \in (m + 1)..Len(cu) /\ m + 1 \in 1..Len(cu)
      <4>1. Len(cu) = m + 1 /\ m \in Nat
        <5>1. Len(cu) = Len(ctl)
          BY <1>9, OwedFacts, ReplaceFacts DEF cu
        <5>2. m \in Nat /\ m + 1 = Len(ctl)
          BY <1>1, <1>2, TopOwned DEF m
        <5> QED
          BY <5>1, <5>2
      <4> QED
        BY <4>1
    <3> QED
      BY <1>14, <3>1
  <2>3. \A u \in X : u.n = y.n => \E q \in 1..Len(cu) : Waits(cu[q], H[q], u, y)
    BY <2>1, <2>2
  <2> QED
    BY <1>5, <1>10, <2>3 DEF NewPairs
<1>20. OldPairs(X, Y, r, ctl, G, m)
  <2>1. \A q \in (m + 1)..Len(ctl) : ctl[q].k # "else"
    BY <1>2, <1>14
  <2> QED
    BY <2>1 DEF OldPairs, Waits
<1>21. Jumped(Jumps(code'), Marks(code'), r, cu, H)
  BY <1>3, <1>14, <1>16, <1>17, <1>18, <1>19, <1>20, JumpedStep
<1>22. \E P, Q : /\ Nested(ctl', P) /\ Stands(prog', scopes', ctl', P, Q)
                 /\ Jumped(Jumps(code'), Marks(code'), prog', ctl', Q)
  BY <1>2, <1>13, <1>15, <1>21 DEF r
<1> QED
  BY <1>22 DEF Structured, Structure

\* Once the body has been read, every jump goes where C goes.
JumpsRight ==
  /\ \A x \in Jumps(code) : x.n = ExitLabel => LeavesAt(prog, x)
  /\ \A x \in Jumps(code) : \A y \in Marks(code) :
       x.n = y.n /\ x.n # ExitLabel => JumpOK(prog, x, y)
  /\ \A y \in Marks(code) : y.n = ExitLabel =>
       y.at = Pos /\ y.in = <<GlobalScope, ParamScope>>

\* The brace of the body: every jump is right, and only its scope is open.
LEMMA CloseBodyControl ==
  ASSUME LInv, ReadChain, Structured, CloseBody
  PROVE  JumpsRight' /\ Len(scopes) = 3
<1>1. PICK L, G : Structure(L, G)
  BY DEF Structured
<1> DEFINE it == Item("}", "none", "none")
           s == SubSeq(scopes, 1, 2)
           y == Instr("label", ExitLabel, Pos + 1, s)
           rest == <<I("ldsp", 0), I("popix", 0), I("ret", 0)>>
           X == Jumps(code)
           Y == Marks(code)
           r == prog'
           m == Len(ctl) - 1
           cu == Butlast(ctl)
           H == Butlast(G)
           none == {}
<1>2. /\ phase = "read" /\ Top.k = "block" /\ Len(ctl) = 1
      /\ Read(it, At(Mark, Pos, scopes) \o At(Epilogue(ExitLabel), Pos + 1, s))
  BY DEF CloseBody, Reading
<1>3. r = Append(prog, it)
      /\ code' = code \o (At(Mark, Pos, scopes) \o At(Epilogue(ExitLabel), Pos + 1, s))
  BY <1>2 DEF Read
<1> HIDE DEF s
<1>4. y.op = "label" /\ y.n = ExitLabel /\ y.at = Pos + 1 /\ y.in = s
  BY InstrFacts
<1>5. Grows(none, {y})
  <2>1. Adds(At(Mark, Pos, scopes), {}, {})
    BY MarkPiece, AddsStraight
  <2>2. Epilogue(ExitLabel) = <<I("label", ExitLabel)>> \o rest
    BY DEF Epilogue
  <2>3. Piece(rest, {}, {})
    <3>1. rest = <<I("ldsp", 0), I("popix", 0)>> \o <<I("ret", 0)>>
      OBVIOUS
    <3>2. Piece(<<I("ldsp", 0), I("popix", 0)>>, {}, {}) /\ Piece(<<I("ret", 0)>>, {}, {})
      BY StraightOne, StraightTwo
    <3>3. Piece(<<I("ldsp", 0), I("popix", 0)>> \o <<I("ret", 0)>>, {}, {} \cup {})
      BY <3>2, JoinStraight
    <3> QED
      BY <3>1, <3>3
  <2>4. Adds(At(<<I("label", ExitLabel)>>, Pos + 1, s), {}, {y})
    BY AddsLabel
  <2>5. IsSeq(rest) /\ IsSeq(<<I("label", ExitLabel)>>)
    BY <2>3, OneSeq DEF Piece
  <2> HIDE DEF rest, y, s
  <2>6. Adds(At(rest, Pos + 1, s), {}, {})
    BY <2>3, AddsStraight
  <2>7. At(Epilogue(ExitLabel), Pos + 1, s) =
          At(<<I("label", ExitLabel)>>, Pos + 1, s) \o At(rest, Pos + 1, s)
    BY <2>2, <2>5, AtJoin
  <2> DEFINE one == {y}
             a == At(<<I("label", ExitLabel)>>, Pos + 1, s)
             b == At(rest, Pos + 1, s)
  <2>0. none \cup none = none /\ one \cup none = one /\ none \cup one = one
    OBVIOUS
  <2>8. Adds(At(Mark, Pos, scopes), none, none) /\ Adds(b, none, none) /\ Adds(a, none, one)
    BY <2>1, <2>4, <2>6
  <2>13. At(Epilogue(ExitLabel), Pos + 1, s) = a \o b
    BY <2>7
  <2> HIDE DEF none, one, a, b
  <2>9. Adds(At(Epilogue(ExitLabel), Pos + 1, s), none \cup none, one \cup none)
    <3>1. Adds(a \o b, none \cup none, one \cup none)
      BY <2>8, AddsJoin
    <3> QED
      BY <2>13, <3>1
  <2>10. Adds(At(Epilogue(ExitLabel), Pos + 1, s), none, one)
    BY <2>0, <2>9
  <2>11. Grows(none \cup none, none \cup one)
    BY <1>3, <2>8, <2>10, GrowsTwo
  <2>12. Grows(none, one)
    BY <2>0, <2>11
  <2> QED
    BY <2>12 DEF one
<1>0. /\ \A u \in X \cup none : u \in X /\ u \notin none
      /\ \A w \in Y \cup {y} : w \in Y \/ w = y
  OBVIOUS
<1> HIDE DEF it, y, none
<1>6. /\ Matches(ctl, cu, G, H, m) /\ \A q \in (m + 1)..Len(cu) : FALSE
      /\ \A q \in (m + 1)..Len(ctl) : ctl[q] = Top
  BY <1>1, <1>2, CloseMatches
<1>7. /\ Jumps(code') \subseteq X \cup none /\ Marks(code') \subseteq Y \cup {y}
      /\ Jumped(X, Y, prog, ctl, G) /\ IsSeq(prog)
  BY <1>1, <1>5, OwedFacts, GrowsFacts DEF Structure, ReadChain
<1>8. \A w \in Y : w.n # ExitLabel
  <2>1. \A w \in Y : HasLabel(code, w.n)
    BY JumpsHave
  <2> QED
    BY <1>2, <2>1 DEF LInv
<1>9. m = 0 /\ Len(cu) = 0 /\ ctl # <<>>
  <2>1. ctl # <<>> /\ IsSeq(ctl) /\ Len(ctl) = 1
    BY <1>1, <1>2, TopOwned, OwedFacts
  <2>2. Len(cu) = Len(ctl) - 1
    BY <2>1, ButlastFacts
  <2> QED
    BY <2>1, <2>2
<1> HIDE DEF X, Y, r, cu, H, m
<1>10. \A q \in 1..m : FALSE
  BY <1>9
<1>11. NewJumps(none, r, ctl, m) /\ NewMarks({y}, ctl, m)
  BY <1>10 DEF NewJumps, NewMarks, none
<1>12. NewOwed(X, none, cu, H, m) /\ NewLoops(Y, {y}, cu, H, m)
  BY <1>6 DEF NewOwed, NewLoops
<1>13. NewPairs(X, none, Y, {y}, r, cu, H)
  BY <1>0, <1>4 DEF NewPairs
<1>14. OldPairs(X, Y, r, ctl, G, m)
  BY <1>2, <1>6 DEF OldPairs, Waits
<1>15. Jumped(Jumps(code'), Marks(code'), r, cu, H)
  BY <1>3, <1>6, <1>7, <1>11, <1>12, <1>13, <1>14, JumpedStep
<1>16. \A q \in 1..Len(cu) : FALSE
  BY <1>9
<1>17. Pos' = Pos + 1 /\ ScopesOK(scopes)
  BY <1>3, NewItem DEF r
<1>18. s = <<GlobalScope, ParamScope>>
  <2>1. IsSeq(scopes) /\ 2 \in 0..Len(scopes)
    BY <1>17, SeqFacts DEF ScopesOK
  <2>2. IsSeq(s) /\ Len(s) = 2 /\ \A i \in 1..2 : s[i] = scopes[i]
    BY <2>1, SubSeqFacts DEF s
  <2>3. s[1] = GlobalScope /\ s[2] = ParamScope
    BY <1>17, <2>2 DEF ScopesOK
  <2> DEFINE u == <<GlobalScope, ParamScope>>
  <2>4. IsSeq(u) /\ Len(u) = 2 /\ u[1] = GlobalScope /\ u[2] = ParamScope
    <3>1. /\ <<GlobalScope, ParamScope>> \in Seq({GlobalScope, ParamScope})
          /\ Len(<<GlobalScope, ParamScope>>) = 2
      OBVIOUS
    <3>2. IsSeq(<<GlobalScope, ParamScope>>)
      BY <3>1 DEF IsSeq
    <3> QED
      BY <3>1, <3>2
  <2> HIDE DEF u
  <2>5. \A i \in 1..2 : s[i] = u[i]
    BY <2>3, <2>4
  <2>6. s = u
    BY <2>2, <2>4, <2>5, IsSeqEqual
  <2> QED
    BY <2>6 DEF u
<1>19. \A w \in Marks(code') : w.n = ExitLabel => w.at = Pos' /\ w.in = <<GlobalScope, ParamScope>>
  BY <1>0, <1>4, <1>7, <1>8, <1>17, <1>18
<1>20. JumpsRight'
  BY <1>15, <1>16, <1>19 DEF JumpsRight, Jumped, r
<1>21. Len(scopes) = 3
  <2>1. L[2].dep = Len(scopes) /\ L[1].dep = 2 /\ L[2].dep = L[1].dep + Deep(ctl[1])
    BY <1>1, <1>2 DEF Structure, Nested, Stands
  <2>2. ctl[1].k = "block"
    BY <1>2 DEF Top
  <2> QED
    BY <2>1, <2>2, DeepFacts
<1> QED
  BY <1>20, <1>21

\* The function of no item yet has its block open.
LEMMA InitControl ==
  ASSUME Flat, Init
  PROVE  Structured
<1> DEFINE it == Item("{", "none", "none")
           s == <<GlobalScope, ParamScope>>
           y1 == [lvl |-> 0, dep |-> 2]
           y2 == [lvl |-> 0, dep |-> 3]
           L == <<y1, y2>>
           G == <<0>>
           t == Prologue \o Mark
<1>1. /\ prog = <<it>> /\ code = At(t, 1, s) /\ ctl = <<[NoFrame EXCEPT !.decls = TRUE]>>
      /\ scopes = <<GlobalScope, ParamScope, <<>>>>
  BY DEF Init
<1>2. /\ IsSeq(ctl) /\ Len(ctl) = 1 /\ ctl[1].k = "block"
  <2> DEFINE f == [NoFrame EXCEPT !.decls = TRUE]
  <2>1. f.k = "block"
    BY DEF NoFrame
  <2> HIDE DEF f
  <2>2. IsSeq(<<f>>) /\ Len(<<f>>) = 1 /\ <<f>>[1] = f
    BY OneSeq
  <2>3. ctl = <<f>>
    BY <1>1 DEF f
  <2> QED
    BY <2>1, <2>2, <2>3
<1>3. /\ IsSeq(L) /\ Len(L) = 2 /\ L[1].lvl = 0 /\ L[1].dep = 2 /\ L[2].lvl = 0 /\ L[2].dep = 3
  <2>1. y1.lvl = 0 /\ y1.dep = 2 /\ y2.lvl = 0 /\ y2.dep = 3
    OBVIOUS
  <2> HIDE DEF y1, y2
  <2>2. <<y1, y2>> \in Seq({y1, y2})
    OBVIOUS
  <2>3. Len(<<y1, y2>>) = 2 /\ <<y1, y2>>[1] = y1 /\ <<y1, y2>>[2] = y2
    OBVIOUS
  <2> QED
    BY <2>1, <2>2, <2>3 DEF IsSeq
<1>4. IsSeq(G) /\ Len(G) = 1
  BY OneSeq
<1> HIDE DEF L, G
<1>5. Deep(ctl[1]) = 1 /\ Bump(ctl[1]) = 0
  BY <1>2, DeepFacts
<1>6. Nested(ctl, L)
  <2>1. Len(L) = Len(ctl) + 1 /\ Len(ctl) + 1 = 2
    BY <1>2, <1>3
  <2>2. \A q \in 1..Len(ctl) : q = 1
    BY <1>2
  <2>3. \A q \in 1..(Len(ctl) + 1) : L[q].lvl \in Nat /\ L[q].dep \in Nat
    <3>1. \A q \in 1..2 : q = 1 \/ q = 2
      OBVIOUS
    <3> QED
      BY <1>3, <2>1, <3>1
  <2>4. \A q \in 1..Len(ctl) : /\ L[q + 1].lvl = L[q].lvl + Bump(ctl[q])
                               /\ L[q + 1].dep = L[q].dep + Deep(ctl[q])
    <3>1. L[1 + 1].lvl = L[1].lvl + Bump(ctl[1]) /\ L[1 + 1].dep = L[1].dep + Deep(ctl[1])
      BY <1>3, <1>5
    <3> QED
      BY <2>2, <3>1
  <2>5. \A q \in 1..Len(ctl) : \A r \in (q + 1)..(Len(ctl) + 1) :
          L[r].lvl >= L[q].lvl + Bump(ctl[q]) /\ L[r].dep >= L[q].dep + Deep(ctl[q])
    <3>1. \A q \in 1..Len(ctl) : \A r \in (q + 1)..(Len(ctl) + 1) : q = 1 /\ r = 2
      BY <1>2
    <3>2. L[2].lvl >= L[1].lvl + Bump(ctl[1]) /\ L[2].dep >= L[1].dep + Deep(ctl[1])
      BY <1>3, <1>5
    <3> QED
      BY <3>1, <3>2
  <2> QED
    BY <1>2, <1>3, <2>1, <2>3, <2>4, <2>5 DEF Nested
<1>7. Stands(prog, scopes, ctl, L, G)
  <2>1. IsSeq(prog) /\ Len(prog) = 1 /\ prog[1] = it
    <3> HIDE DEF it
    <3>1. IsSeq(<<it>>) /\ Len(<<it>>) = 1 /\ <<it>>[1] = it
      BY OneSeq
    <3> QED
      BY <1>1, <3>1
  <2>2. it.k \notin OpenKinds /\ it.k \notin CloseKinds
    BY DEF Item, OpenKinds, CloseKinds
  <2>3. NestIn(prog, 1 + 1) = NestIn(prog, 1) + 0 - 0
    <3> HIDE DEF it
    <3>1. 1 \in 1..Len(prog)
      BY <2>1
    <3> QED
      BY <2>1, <2>2, <3>1, NestStep
  <2>11. Len(prog) = 1
    BY <2>1
  <2>7. 1 + 1 = Len(prog) + 1 /\ 0 + 0 - 0 = 0
    BY <2>11
  <2>8. NestIn(prog, 1) = 0
    BY NestFirst
  <2>4. NestIn(prog, Len(prog) + 1) = 0
    BY <2>3, <2>7, <2>8
  <2>9. Len(ctl) + 1 = 2
    BY <1>2
  <2>10. L[Len(ctl) + 1].lvl = 0 /\ L[Len(ctl) + 1].dep = 3
    BY <1>3, <2>9
  <2>5. Len(scopes) = 3
    BY <1>1
  <2>6. Owned(prog, scopes, ctl, L, G, Len(ctl))
    <3>1. \A q \in 1..Len(ctl) : ctl[q].k = "block"
      BY <1>2
    <3> QED
      BY <3>1 DEF Owned
  <2> QED
    BY <1>2, <1>4, <2>1, <2>4, <2>5, <2>6, <2>10 DEF Stands
<1>8. Jumps(code) = {} /\ Marks(code) = {}
  <2>1. Piece(Prologue, {}, {})
    BY StraightTwo DEF Prologue
  <2>2. Piece(t, {}, {} \cup {})
    BY <2>1, MarkPiece, JoinStraight
  <2>3. Piece(t, {}, {})
    BY <2>2
  <2> HIDE DEF t
  <2>4. Adds(code, {}, {})
    BY <1>1, <2>3, AddsStraight
  <2> QED
    BY <2>4 DEF Adds
<1>9. Jumped(Jumps(code), Marks(code), prog, ctl, G)
  BY <1>8 DEF Jumped
<1> QED
  BY <1>6, <1>7, <1>9 DEF Structured, Structure

\* The block of the body is open while the parser reads.
LEMMA BodyOpen ==
  ASSUME LInv, Structured, phase = "read"
  PROVE  Len(scopes) >= 3
<1>1. PICK L, G : Structure(L, G)
  BY DEF Structured
<1>2. Nested(ctl, L) /\ L[1].dep = 2 /\ L[Len(ctl) + 1].dep = Len(scopes)
  BY <1>1 DEF Structure, Nested, Stands
<1>3. ctl # <<>> /\ IsSeq(ctl) /\ ctl[1].k = "block"
  BY DEF LInv, CtlOK
<1>4. Len(ctl) \in Nat /\ 1 \in 1..Len(ctl) /\ Len(ctl) + 1 \in (1 + 1)..(Len(ctl) + 1)
  BY <1>3, SeqFacts
<1>5. /\ L[1].dep \in Nat /\ L[Len(ctl) + 1].dep \in Nat
      /\ L[Len(ctl) + 1].dep >= L[1].dep + 1
  BY <1>2, <1>3, <1>4, DepthFacts
<1> QED
  BY <1>2, <1>5

\* Behind the exit label the code is that of the exit; the body is before it.
Finished ==
  /\ Len(prog) \in Nat \ {0} /\ prog[Len(prog)].k = "}"
  /\ \A j \in 1..(Len(code) - 4) : code[j].at \in Nat /\ code[j].at < Pos

\* The last brace ends the body.
LEMMA CloseBodyEnds ==
  ASSUME ReadChain, CloseBody
  PROVE  Finished'
<1> DEFINE it == Item("}", "none", "none")
           s == SubSeq(scopes, 1, 2)
           a == At(Mark, Pos, scopes)
           e == Epilogue(ExitLabel)
           b == At(e, Pos + 1, s)
<1>1. prog' = Append(prog, it) /\ code' = code \o (a \o b)
  BY DEF CloseBody, Read
<1>2. /\ IsSeq(code) /\ IsSeq(prog') /\ Pos \in Nat \ {0} /\ Pos' = Pos + 1
      /\ Chain(code, prog', Place(Pos, scopes), Idle) /\ prog'[Pos] = it
  BY <1>1, NewItem
<1>3. \A j \in 1..Len(code) : code[j].at \in Nat /\ code[j].at <= Pos
  <2> DEFINE q == Place(Pos, scopes)
  <2>1. q.at = Pos
    BY PlaceFacts
  <2> HIDE DEF q
  <2>2. Chain(code, prog', q, Idle)
    BY <1>2 DEF q
  <2>3. \A j \in 1..Len(code) : PlaceOK(code[j]) /\ code[j].at <= q.at
    BY <2>2 DEF Chain
  <2> QED
    BY <2>1, <2>3 DEF PlaceOK
<1>4. it.k = "}"
  BY DEF Item
<1>5. Len(prog') = Pos
  <2>1. IsSeq(prog)
    BY DEF ReadChain
  <2> QED
    BY <1>1, <2>1, AppendFacts DEF Pos
<1>6. IsSeq(e) /\ Len(e) = 4
  <2>1. e \in Seq({I("label", ExitLabel), I("ldsp", 0), I("popix", 0), I("ret", 0)}) /\ Len(e) = 4
    BY DEF Epilogue
  <2> QED
    BY <2>1 DEF IsSeq
<1>7. IsSeq(b) /\ Len(b) = 4
  <2> HIDE DEF e
  <2>1. b = [j \in DOMAIN e |-> b[j]]
    BY DEF At
  <2> QED
    BY <1>6, <2>1, MapFacts
<1>8. IsSeq(a) /\ Len(a) = 1 /\ a[1].at = Pos
  <2> DEFINE x == I("mark", 0)
  <2> HIDE DEF x
  <2>1. a = At(<<x>>, Pos, scopes)
    BY DEF Mark, x
  <2> QED
    BY <2>1, AtOne
<1> HIDE DEF a, b, e, it
<1>9. /\ IsSeq(a \o b) /\ Len(a \o b) = 5 /\ (a \o b)[1] = a[1]
  <2>1. Len(a \o b) = Len(a) + Len(b)
    BY <1>7, <1>8, ConcatLen
  <2>2. 1 \in 1..Len(a) /\ Len(a) + Len(b) = 5
    BY <1>7, <1>8
  <2>3. IsSeq(a \o b) /\ \A i \in 1..Len(a) : (a \o b)[i] = a[i]
    BY <1>7, <1>8, ConcatFacts
  <2> QED
    BY <2>1, <2>2, <2>3
<1> DEFINE u == a \o b
<1>10. IsSeq(u) /\ Len(u) = 5 /\ u[1].at = Pos
  BY <1>8, <1>9
<1>11. code' = code \o u
  BY <1>1
<1> HIDE DEF u
<1>12. /\ Len(code') = Len(code) + 5 /\ Len(code) \in Nat
       /\ \A i \in 1..Len(code) : code'[i] = code[i]
       /\ code'[Len(code) + 1] = u[1]
  <2>1. Len(code \o u) = Len(code) + Len(u)
    BY <1>2, <1>10, ConcatLen
  <2>2. 1 \in 1..Len(u)
    BY <1>10
  <2> QED
    BY <1>2, <1>10, <1>11, <2>1, <2>2, ConcatFacts
<1>13. \A j \in 1..(Len(code') - 4) : code'[j].at \in Nat /\ code'[j].at < Pos'
  <2> SUFFICES ASSUME NEW j \in 1..(Len(code') - 4)
               PROVE  code'[j].at \in Nat /\ code'[j].at < Pos'
    OBVIOUS
  <2>1. j \in 1..Len(code) \/ j = Len(code) + 1
    BY <1>12
  <2>2. code'[j].at \in Nat /\ code'[j].at <= Pos
    BY <1>2, <1>3, <1>10, <1>12, <2>1
  <2> QED
    BY <1>2, <2>2
<1> QED
  BY <1>2, <1>4, <1>5, <1>13 DEF Finished

\* What holds of the code while the parser reads, and once it has ended.
Reads == ReadChain /\ Structured
Ends == Ended /\ JumpsRight /\ Finished

\* The initial states.
LEMMA InitReadsOn ==
  ASSUME Flat, Init
  PROVE  Reads
BY InitChain, InitControl DEF Reads

\* A simple statement and a declaration keep the structure.
LEMMA DeclareReads ==
  ASSUME Flat, ReadInv, Reads, Declare
  PROVE  Reads'
<1>1. LInv /\ phase = "read" /\ Conditional = FALSE
  BY DEF ReadInv, Flat
<1>2. Len(scopes) >= 3
  BY <1>1, BodyOpen DEF Reads
<1>3. ReadChain' /\ Len(scopes') = Len(scopes)
  BY <1>2, DeclareChain DEF Reads
<1>4. PICK L, G : Structure(L, G)
  BY DEF Reads, Structured
<1>5. Structure(L, G)'
  BY <1>1, <1>3, <1>4, DeclareControl DEF Reads
<1> QED
  BY <1>3, <1>5 DEF Reads, Structured

\* A simple statement keeps both.
LEMMA SimpleReads ==
  ASSUME ReadInv, Reads, SimpleStatement
  PROVE  Reads'
<1>1. LInv
  BY DEF ReadInv
<1>3. ReadChain'
  BY SimpleStatementChain DEF Reads
<1>4. PICK L, G : Structure(L, G)
  BY DEF Reads, Structured
<1>5. Structure(L, G)'
  BY <1>1, <1>4, SimpleStatementControl DEF Reads
<1> QED
  BY <1>3, <1>5 DEF Reads, Structured

\* A step of the parser.
LEMMA CompileReads ==
  ASSUME Flat, ReadInv, Reads, Compile
  PROVE  (phase' = "read" /\ Reads') \/ (phase' = "run" /\ Ends')
<1>1. LInv /\ phase = "read" /\ Len(scopes) >= 3
  BY BodyOpen DEF ReadInv, Reads
<1>2. CASE Declare
  BY <1>1, <1>2, DeclareReads DEF Declare
<1>3. CASE SimpleStatement
  BY <1>1, <1>3, SimpleReads DEF SimpleStatement
<1>4. CASE OpenBlock
  BY <1>1, <1>4, OpenBlockChain, OpenBlockControl DEF Reads, OpenBlock
<1>5. CASE CloseBlock
  BY <1>1, <1>5, CloseBlockChain, CloseBlockControl DEF Reads, CloseBlock
<1>6. CASE CloseBody
  <2>1. JumpsRight' /\ Len(scopes) = 3
    BY <1>1, <1>6, CloseBodyControl DEF Reads
  <2>2. Ended'
    BY <1>6, <2>1, CloseBodyChain DEF Reads
  <2>3. Finished'
    BY <1>6, CloseBodyEnds DEF Reads
  <2>4. phase' = "run"
    BY <1>6 DEF CloseBody
  <2> QED
    BY <2>1, <2>2, <2>3, <2>4 DEF Ends
<1>7. CASE While
  BY <1>1, <1>7, WhileChain, WhileControl DEF Reads, While
<1>8. CASE EndWhile
  BY <1>1, <1>8, EndWhileChain, EndWhileControl DEF Reads, EndWhile
<1>9. CASE If
  BY <1>1, <1>9, IfChain, IfControl DEF Reads, If
<1>10. CASE EndThenElse
  BY <1>1, <1>10, EndThenElseChain, EndThenElseControl DEF Reads, EndThenElse
<1>11. CASE EndThen
  BY <1>1, <1>11, EndThenChain, EndThenControl DEF Reads, EndThen
<1>12. CASE EndElse
  BY <1>1, <1>12, EndElseChain, EndElseControl DEF Reads, EndElse
<1> QED
  BY <1>2, <1>3, <1>4, <1>5, <1>6, <1>7, <1>8, <1>9, <1>10, <1>11, <1>12 DEF Compile

-----------------------------------------------------------------------------
(* C's state and C's steps *)
Env == [i \in DOMAIN Where.in |-> [v \in DOMAIN Where.in[i] |-> Cell(Base + Where.in[i][v])]]
\* C's result, and where it finds a name and what that is worth.
Res == IF Where.at = Pos THEN hl ELSE Junk
Find(e) == Max({i \in DOMAIN Env : e \in DOMAIN Env[i]})
Worth(e) == IF e \in DOMAIN Lits THEN Lits[e] ELSE Env[Find(e)][e]
MayHave(e) == IF e = "none" THEN Cells ELSE {Worth(e)}
\* Control is at item i and goes on to item j, the result remains.
Goes2(i, j) ==
  /\ phase = "run" /\ phase' = phase /\ prog' = prog
  /\ i \in DOMAIN prog /\ Where.at = i /\ (Where.at)' = j

\* What an expression is worth to C.
LEMMA WorthIs ==
  ASSUME NEW e
  PROVE  C!Val(e) = Worth(e) /\ C!ScopeOf(e) = Find(e)
BY DEF C!Val, C!ScopeOf, C!Max, Max, Worth, Find, Env

\* A step C does not see.
LEMMA StaysIs ==
  ASSUME UNCHANGED <<prog, phase, passed>>, (Where.at)' = Where.at, Env' = Env, Res' = Res
  PROVE  UNCHANGED C!cvars
BY DEF C!cvars, Env, Res

\* C's declaration, in terms of this module.
LEMMA DeclareIs ==
  ASSUME NEW i, Goes2(i, i + 1), prog[i].k = "decl", passed' = passed, Res' = Res,
         NEW x \in MayHave(prog[i].e),
         Env' = [Env EXCEPT ![Len(Env)] = C!Bind(@, prog[i].v, x)]
  PROVE  C!Declare
<1>1. x \in C!MayBe(prog[i].e)
  BY WorthIs DEF C!MayBe, MayHave
<1> HIDE DEF Where, Pos, Cell
<1> QED
  BY <1>1 DEF C!Declare, C!Here, C!Is, C!Item, Goes2, Env, Res

\* C's assignment.
LEMMA AssignIs ==
  ASSUME NEW i, Goes2(i, i + 1), prog[i].k = "set", passed' = passed, Res' = Res,
         Env' = [Env EXCEPT ![Find(prog[i].v)][prog[i].v] = Worth(prog[i].e)]
  PROVE  C!Assign
<1>1. C!ScopeOf(prog[i].v) = Find(prog[i].v) /\ C!Val(prog[i].e) = Worth(prog[i].e)
  BY WorthIs
<1> QED
  BY <1>1 DEF C!Assign, C!Here, C!Is, C!Item, Goes2, Env, Res

\* C's call.
LEMMA CallIs ==
  ASSUME NEW i, Goes2(i, i + 1), prog[i].k = "call", Env' = Env, Res' = Res,
         passed' = Worth(prog[i].v)
  PROVE  C!Call
<1>1. C!Val(prog[i].v) = Worth(prog[i].v)
  BY WorthIs
<1> QED
  BY <1>1 DEF C!Call, C!Here, C!Is, C!Item, Goes2, Env, Res

\* C's test of an if or a while.
LEMMA TestIs ==
  ASSUME NEW i, NEW j, Goes2(i, j), prog[i].k \in {"if", "while"}, Env' = Env, Res' = Res,
         passed' = passed,
         \/ Worth(prog[i].v) # 0 /\ j = i + 1
         \/ Worth(prog[i].v) \in {0, Junk} /\ j = C!AfterFalse(i)
  PROVE  C!Test
<1>1. C!Val(prog[i].v) = Worth(prog[i].v)
  BY WorthIs
<1>2. UNCHANGED <<prog, phase, passed>> /\ i \in DOMAIN prog /\ phase = "run" /\ Where.at = i
      /\ (Where.at)' = j
  BY DEF Goes2
<1> QED
  BY <1>1, <1>2 DEF C!Test, C!Here, C!Is, C!Item, Env, Res

\* C's way past an empty statement, an end and an else.
LEMMA PassIs ==
  ASSUME NEW i, NEW j, Goes2(i, j), Env' = Env, Res' = Res, passed' = passed,
         \/ prog[i].k \in {"empty", "fi"} /\ j = i + 1
         \/ /\ prog[i].k = "else"
            /\ j = C!Min({k \in i..Len(prog) : C!Is(k, {"fi"}) /\ C!Nest(k) = C!Nest(i)})
         \/ prog[i].k = "od" /\ j = C!WhileOf(i)
  PROVE  C!Pass
<1>1. UNCHANGED <<prog, phase, passed>> /\ i \in DOMAIN prog /\ phase = "run" /\ Where.at = i
      /\ (Where.at)' = j
  BY DEF Goes2
<1> QED
  BY <1>1 DEF C!Pass, C!Here, C!Is, Env, Res

\* C's opening brace.
LEMMA OpenIs ==
  ASSUME NEW i, Goes2(i, i + 1), prog[i].k = "{", Env' = Append(Env, <<>>), Res' = Res,
         passed' = passed
  PROVE  C!Open
BY DEF C!Open, C!Here, C!Is, Goes2, Env, Res

\* C's closing brace.
LEMMA CloseIs ==
  ASSUME NEW i, Goes2(i, i + 1), prog[i].k = "}", Env' = SubSeq(Env, 1, Len(Env) - 1),
         IF i = Len(prog) THEN Res' \in Cells ELSE Res' = Res, passed' = passed
  PROVE  C!Close
BY DEF C!Close, C!Here, C!Is, Goes2, Env, Res

\* C's return.
LEMMA ReturnIs ==
  ASSUME NEW i, Goes2(i, Len(prog) + 1), prog[i].k = "ret", Env' = SubSeq(Env, 1, 2),
         Res' \in MayHave(prog[i].e), passed' = passed
  PROVE  C!Return
<1>1. C!MayBe(prog[i].e) = MayHave(prog[i].e)
  BY WorthIs DEF C!MayBe, MayHave
<1> QED
  BY <1>1 DEF C!Return, C!Here, C!Is, C!Item, Goes2, Env, Res

\* C's last step.
LEMMA FinishIs ==
  ASSUME phase = "run", phase' = "stop", UNCHANGED <<prog, passed>>,
         Where.at = Len(prog) + 1, (Where.at)' = Where.at, Env' = Env, Res' = Res
  PROVE  C!Finish
BY DEF C!Finish, Env, Res

-----------------------------------------------------------------------------
(* Environments *)
InScope(s, o) == \E i \in DOMAIN s : \E v \in DOMAIN s[i] : o = s[i][v]
\* C's environment, and a value, by the words of memory m.
EnvOf(m, s) == [i \in DOMAIN s |-> [v \in DOMAIN s[i] |-> m[Base + s[i][v]]]]
ValueIn(m, e, s) == IF e \in DOMAIN Lits THEN Lits[e] ELSE m[Base + OffsetOf(s, e)]

\* A word of memory, and the environment, by the definitions of Frame.
CellOf(m, w) == IF w \in Int /\ A(w) \in DOMAIN m THEN m[A(w)] ELSE Junk
FullEnv(m, s) == [i \in DOMAIN s |-> [v \in DOMAIN s[i] |-> CellOf(m, Base + s[i][v])]]

\* The words of variables in scope are in memory.
LEMMA FullEnvIs ==
  ASSUME NEW m, DOMAIN m = Words, NEW s, ScopesOK(s)
  PROVE  FullEnv(m, s) = EnvOf(m, s)
<1>1. \A i \in DOMAIN s : \A v \in DOMAIN s[i] : CellOf(m, Base + s[i][v]) = m[Base + s[i][v]]
  <2> SUFFICES ASSUME NEW i \in DOMAIN s, NEW v \in DOMAIN s[i]
               PROVE  CellOf(m, Base + s[i][v]) = m[Base + s[i][v]]
    OBVIOUS
  <2> DEFINE w == Base + s[i][v]
  <2>1. w \in Words
    BY FrameFacts DEF ScopesOK
  <2> HIDE DEF w
  <2>2. w \in Int /\ A(w) = w
    BY <2>1, WordFacts, AFacts
  <2> QED
    BY <2>1, <2>2 DEF CellOf, w
<1> QED
  BY <1>1 DEF FullEnv, EnvOf

\* C's environment is what memory holds at the slots in scope.
LEMMA EnvIs ==
  ASSUME Held, ScopesOK(Where.in)
  PROVE  Env = EnvOf(mem, Where.in)
<1>1. Env = FullEnv(mem, Where.in)
  BY DEF Env, FullEnv, CellOf, Cell, IsAddr
<1>2. DOMAIN mem = Words
  BY DEF Held, Stored
<1> QED
  BY <1>1, <1>2, FullEnvIs

\* And so after a step.
LEMMA EnvIsNext ==
  ASSUME Held', ScopesOK((Where.in)')
  PROVE  Env' = EnvOf(mem', (Where.in)')
<1>1. Env' = FullEnv(mem', (Where.in)')
  BY DEF Env, FullEnv, CellOf, Cell, IsAddr
<1>2. DOMAIN mem' = Words
  BY DEF Held, Stored
<1> QED
  BY <1>1, <1>2, FullEnvIs

\* An environment has the shape of the scopes.
LEMMA EnvFacts ==
  ASSUME NEW m, NEW s, IsSeq(s)
  PROVE  /\ IsSeq(EnvOf(m, s)) /\ Len(EnvOf(m, s)) = Len(s) /\ Len(s) \in Nat
         /\ DOMAIN EnvOf(m, s) = DOMAIN s /\ DOMAIN s = 1..Len(s)
         /\ \A i \in DOMAIN s : DOMAIN EnvOf(m, s)[i] = DOMAIN s[i]
         /\ \A i \in DOMAIN s : \A v \in DOMAIN s[i] : EnvOf(m, s)[i][v] = m[Base + s[i][v]]
<1> DEFINE t == EnvOf(m, s)
<1>1. t = [i \in DOMAIN s |-> t[i]]
  BY DEF EnvOf
<1>2. IsSeq(t) /\ Len(t) = Len(s)
  <2> HIDE DEF t
  <2> QED
    BY <1>1, MapFacts
<1>3. Len(s) \in Nat /\ DOMAIN s = 1..Len(s)
  BY SeqFacts
<1> QED
  BY <1>2, <1>3 DEF EnvOf

\* A name is found in its scope, and its value there.
LEMMA FindIs ==
  ASSUME NEW m, NEW s, IsSeq(s), Env = EnvOf(m, s), NEW e
  PROVE  /\ Find(e) = ScopeOf(s, e)
         /\ e \in DOMAIN Lits \/ Visible(s, e) => Worth(e) = ValueIn(m, e, s)
<1>1. DOMAIN Env = DOMAIN s /\ \A i \in DOMAIN s : DOMAIN Env[i] = DOMAIN s[i]
  BY EnvFacts
<1>2. {i \in DOMAIN Env : e \in DOMAIN Env[i]} = {i \in DOMAIN s : e \in DOMAIN s[i]}
  BY <1>1
<1>3. Find(e) = ScopeOf(s, e)
  BY <1>2 DEF Find, ScopeOf
<1>4. ASSUME Visible(s, e), e \notin DOMAIN Lits
      PROVE  Worth(e) = ValueIn(m, e, s)
  <2>1. ScopeOf(s, e) \in DOMAIN s /\ e \in DOMAIN s[ScopeOf(s, e)]
    BY <1>4, ScopeIs
  <2>2. Env[ScopeOf(s, e)][e] = m[Base + s[ScopeOf(s, e)][e]]
    BY <2>1, EnvFacts
  <2> QED
    BY <1>3, <1>4, <2>2 DEF Worth, ValueIn, OffsetOf
<1> QED
  BY <1>3, <1>4 DEF Worth, ValueIn

\* Memory that changes nowhere in scope, or at one place.
LEMMA EnvSame ==
  ASSUME NEW m, NEW n, NEW s, \A o : InScope(s, o) => n[Base + o] = m[Base + o]
  PROVE  EnvOf(n, s) = EnvOf(m, s)
<1>1. \A i \in DOMAIN s : \A v \in DOMAIN s[i] : n[Base + s[i][v]] = m[Base + s[i][v]]
  BY DEF InScope
<1> QED
  BY <1>1 DEF EnvOf

\* A new variable is a new word.
LEMMA EnvBind ==
  ASSUME NEW m, NEW n, NEW s, ScopesOK(s), NEW v, NEW o, NEW r, r = Bind(s, v, o), ScopesOK(r),
         \A x : InScope(r, x) /\ x # o => n[Base + x] = m[Base + x]
  PROVE  EnvOf(n, r) = [EnvOf(m, s) EXCEPT ![Len(EnvOf(m, s))] = C!Bind(@, v, n[Base + o])]
<1> DEFINE E == EnvOf(m, s)
           F == EnvOf(n, r)
           l == Len(s)
           b == C!Bind(E[l], v, n[Base + o])
<1>1. IsSeq(s) /\ s # <<>>
  BY SeqFacts DEF ScopesOK
<1>2. /\ l \in Nat \ {0} /\ DOMAIN s = 1..l
      /\ IsSeq(r) /\ Len(r) = l /\ DOMAIN r = 1..l
      /\ \A i \in 1..l : i # l => r[i] = s[i]
      /\ DOMAIN r[l] = DOMAIN s[l] \cup {v}
      /\ r[l][v] = o /\ \A w \in DOMAIN s[l] : w # v => r[l][w] = s[l][w]
  BY <1>1, BindFacts
<1>3. /\ Len(E) = l /\ DOMAIN E = 1..l
      /\ \A i \in DOMAIN s : DOMAIN E[i] = DOMAIN s[i]
      /\ \A i \in DOMAIN s : \A w \in DOMAIN s[i] : E[i][w] = m[Base + s[i][w]]
  BY <1>1, EnvFacts
<1> HIDE DEF E, F, b, l
<1>4. \A i \in 1..l : \A w \in DOMAIN r[i] : ~(i = l /\ w = v) =>
        n[Base + r[i][w]] = m[Base + r[i][w]]
  <2> SUFFICES ASSUME NEW i \in 1..l, NEW w \in DOMAIN r[i], ~(i = l /\ w = v)
               PROVE  n[Base + r[i][w]] = m[Base + r[i][w]]
    OBVIOUS
  <2>1. l \in DOMAIN r /\ v \in DOMAIN r[l] /\ i \in DOMAIN r
    BY <1>2
  <2>2. Apart(r)
    BY DEF ScopesOK
  <2>3. r[i][w] # r[l][v]
    BY <2>1, <2>2 DEF Apart
  <2>4. InScope(r, r[i][w])
    BY <2>1 DEF InScope
  <2> QED
    BY <1>2, <2>3, <2>4
<1>5. DOMAIN b = DOMAIN s[l] \cup {v} /\ b[v] = n[Base + o]
      /\ \A w \in DOMAIN s[l] : w # v => b[w] = E[l][w]
  <2>1. DOMAIN E[l] = DOMAIN s[l]
    BY <1>2, <1>3
  <2> QED
    BY <2>1 DEF C!Bind, b
<1>6. b = [w \in DOMAIN b |-> b[w]]
  BY DEF C!Bind, b
<1>7. F = [i \in 1..l |-> [w \in DOMAIN r[i] |-> n[Base + r[i][w]]]]
  BY <1>2 DEF EnvOf, F
<1>8. E = [i \in 1..l |-> [w \in DOMAIN s[i] |-> m[Base + s[i][w]]]]
  BY <1>2 DEF EnvOf, E
<1>9. F[l] = b
  <2>1. F[l] = [w \in DOMAIN r[l] |-> n[Base + r[l][w]]]
    BY <1>2, <1>7
  <2>2. \A w \in DOMAIN r[l] : n[Base + r[l][w]] = b[w]
    <3> SUFFICES ASSUME NEW w \in DOMAIN r[l] PROVE n[Base + r[l][w]] = b[w]
      OBVIOUS
    <3>1. CASE w = v
      BY <1>2, <1>5, <3>1
    <3>2. CASE w # v
      <4>1. w \in DOMAIN s[l] /\ r[l][w] = s[l][w] /\ l \in 1..l
        BY <1>2, <3>2
      <4>2. n[Base + r[l][w]] = m[Base + r[l][w]]
        BY <1>4, <4>1, <3>2
      <4>3. b[w] = E[l][w] /\ E[l][w] = m[Base + s[l][w]]
        BY <1>2, <1>3, <1>5, <3>2, <4>1
      <4> QED
        BY <4>1, <4>2, <4>3
    <3> QED
      BY <3>1, <3>2
  <2> QED
    BY <1>2, <1>5, <1>6, <2>1, <2>2
<1>10. \A i \in 1..l : i # l => F[i] = E[i]
  <2> SUFFICES ASSUME NEW i \in 1..l, i # l PROVE F[i] = E[i]
    OBVIOUS
  <2>1. \A w \in DOMAIN s[i] : n[Base + s[i][w]] = m[Base + s[i][w]]
    BY <1>2, <1>4
  <2>2. F[i] = [w \in DOMAIN s[i] |-> n[Base + s[i][w]]]
    BY <1>2, <1>7
  <2>3. E[i] = [w \in DOMAIN s[i] |-> m[Base + s[i][w]]]
    BY <1>8
  <2> QED
    BY <2>1, <2>2, <2>3
<1>11. DOMAIN F = 1..l /\ F = [i \in 1..l |-> F[i]]
  BY <1>7
<1>12. F = [E EXCEPT ![l] = b]
  BY <1>2, <1>3, <1>9, <1>10, <1>11
<1> QED
  BY <1>3, <1>12 DEF E, F, b, l

\* A store to a variable's word changes that variable.
LEMMA EnvSet ==
  ASSUME NEW m, NEW n, NEW s, ScopesOK(s), NEW v, Visible(s, v), NEW o, o = OffsetOf(s, v),
         \A x : InScope(s, x) /\ x # o => n[Base + x] = m[Base + x]
  PROVE  EnvOf(n, s) = [EnvOf(m, s) EXCEPT ![ScopeOf(s, v)][v] = n[Base + o]]
<1> DEFINE E == EnvOf(m, s)
           F == EnvOf(n, s)
           c == ScopeOf(s, v)
           b == [E[c] EXCEPT ![v] = n[Base + o]]
<1>1. IsSeq(s) /\ Apart(s)
  BY DEF ScopesOK
<1>2. c \in DOMAIN s /\ v \in DOMAIN s[c] /\ s[c][v] = o
  BY <1>1, ScopeIs DEF OffsetOf
<1>3. /\ DOMAIN E = DOMAIN s /\ \A i \in DOMAIN s : DOMAIN E[i] = DOMAIN s[i]
      /\ \A i \in DOMAIN s : \A w \in DOMAIN s[i] : E[i][w] = m[Base + s[i][w]]
  BY <1>1, EnvFacts
<1>4. E = [i \in DOMAIN s |-> [w \in DOMAIN s[i] |-> m[Base + s[i][w]]]]
  BY DEF EnvOf
<1>5. F = [i \in DOMAIN s |-> [w \in DOMAIN s[i] |-> n[Base + s[i][w]]]]
  BY DEF EnvOf
<1> HIDE DEF E, F, c
<1>6. \A i \in DOMAIN s : \A w \in DOMAIN s[i] : ~(i = c /\ w = v) =>
        n[Base + s[i][w]] = m[Base + s[i][w]]
  <2> SUFFICES ASSUME NEW i \in DOMAIN s, NEW w \in DOMAIN s[i], ~(i = c /\ w = v)
               PROVE  n[Base + s[i][w]] = m[Base + s[i][w]]
    OBVIOUS
  <2>1. s[i][w] # s[c][v]
    BY <1>1, <1>2 DEF Apart
  <2>2. InScope(s, s[i][w])
    BY DEF InScope
  <2> QED
    BY <1>2, <2>1, <2>2
<1>7. F[c] = b
  <2>1. F[c] = [w \in DOMAIN s[c] |-> n[Base + s[c][w]]]
    BY <1>2, <1>5
  <2>2. E[c] = [w \in DOMAIN s[c] |-> m[Base + s[c][w]]]
    BY <1>2, <1>4
  <2>3. \A w \in DOMAIN s[c] : n[Base + s[c][w]] = IF w = v THEN n[Base + o] ELSE m[Base + s[c][w]]
    BY <1>2, <1>6
  <2> QED
    BY <1>2, <2>1, <2>2, <2>3
<1>8. \A i \in DOMAIN s : i # c => F[i] = E[i]
  <2> SUFFICES ASSUME NEW i \in DOMAIN s, i # c PROVE F[i] = E[i]
    OBVIOUS
  <2>1. \A w \in DOMAIN s[i] : n[Base + s[i][w]] = m[Base + s[i][w]]
    BY <1>6
  <2> QED
    BY <1>4, <1>5, <2>1
<1>9. DOMAIN F = DOMAIN s /\ F = [i \in DOMAIN s |-> F[i]]
  BY <1>5
<1> HIDE DEF b
<1>10. F = [E EXCEPT ![c] = b]
  BY <1>2, <1>3, <1>7, <1>8, <1>9
<1>11. F = [E EXCEPT ![c][v] = n[Base + o]]
  BY <1>10 DEF b
<1> QED
  BY <1>11 DEF E, F, c

\* A scope more or less.
LEMMA EnvAppend ==
  ASSUME NEW m, NEW s, IsSeq(s)
  PROVE  EnvOf(m, Append(s, <<>>)) = Append(EnvOf(m, s), <<>>)
<1> DEFINE none == <<>>
           E == EnvOf(m, s)
           r == Append(s, none)
           F == EnvOf(m, r)
           G == Append(E, none)
<1>1. none = <<>> /\ IsSeq(none) /\ Len(none) = 0
  <2>1. <<>> \in Seq({}) /\ Len(<<>>) = 0
    OBVIOUS
  <2> QED
    BY <2>1 DEF IsSeq
<1> HIDE DEF none
<1>2. /\ IsSeq(r) /\ Len(s) \in Nat /\ DOMAIN s = 1..Len(s) /\ Len(r) = Len(s) + 1
      /\ \A i \in 1..Len(s) : r[i] = s[i]
      /\ r[Len(s) + 1] = none
  BY AppendFacts
<1>3. /\ IsSeq(E) /\ Len(E) = Len(s)
  BY EnvFacts
<1>4. /\ IsSeq(G) /\ Len(G) = Len(E) + 1
      /\ \A i \in 1..Len(E) : G[i] = E[i]
      /\ G[Len(E) + 1] = none
  <2> HIDE DEF E
  <2> QED
    BY <1>3, AppendFacts
<1>5. IsSeq(F) /\ Len(F) = Len(r)
  <2> HIDE DEF r
  <2> QED
    BY <1>2, EnvFacts
<1>6. E = [i \in DOMAIN s |-> [w \in DOMAIN s[i] |-> m[Base + s[i][w]]]]
  BY DEF EnvOf
<1>7. F = [i \in DOMAIN r |-> [w \in DOMAIN r[i] |-> m[Base + r[i][w]]]]
  BY DEF EnvOf
<1>8. DOMAIN r = 1..Len(r)
  <2> HIDE DEF r
  <2> QED
    BY <1>2, SeqFacts
<1> HIDE DEF E, F, G, r
<1>9. F[Len(s) + 1] = none
  <2> DEFINE z == [w \in DOMAIN none |-> m[Base + none[w]]]
  <2>1. F[Len(s) + 1] = z
    BY <1>2, <1>7, <1>8
  <2>2. z = [w \in DOMAIN none |-> z[w]]
    OBVIOUS
  <2> HIDE DEF z
  <2>3. IsSeq(z) /\ Len(z) = 0
    BY <1>1, <2>2, MapFacts
  <2>4. z = <<>>
    BY <2>3, SeqFacts
  <2> QED
    BY <1>1, <2>1, <2>4
<1>10. \A i \in 1..Len(s) : F[i] = E[i]
  BY <1>2, <1>6, <1>7, <1>8
<1>11. Len(F) = Len(G) /\ Len(G) = Len(s) + 1
  BY <1>2, <1>3, <1>4, <1>5
<1>12. \A i \in 1..Len(F) : F[i] = G[i]
  <2> SUFFICES ASSUME NEW i \in 1..Len(F) PROVE F[i] = G[i]
    OBVIOUS
  <2>1. i \in 1..Len(s) \/ i = Len(s) + 1
    BY <1>2, <1>11
  <2> QED
    BY <1>3, <1>4, <1>9, <1>10, <2>1
<1>13. F = G
  BY <1>4, <1>5, <1>11, <1>12, IsSeqEqual
<1> QED
  BY <1>1, <1>13 DEF F, G, r, E

\* Scopes that end take their variables away.
LEMMA EnvSubSeq ==
  ASSUME NEW m, NEW s, IsSeq(s), NEW l \in 0..Len(s)
  PROVE  EnvOf(m, SubSeq(s, 1, l)) = SubSeq(EnvOf(m, s), 1, l)
<1> DEFINE E == EnvOf(m, s)
           r == SubSeq(s, 1, l)
           F == EnvOf(m, r)
           G == SubSeq(E, 1, l)
<1>1. IsSeq(r) /\ Len(r) = l /\ DOMAIN r = 1..l /\ \A i \in 1..l : r[i] = s[i]
  BY SubSeqFacts
<1>2. IsSeq(E) /\ Len(E) = Len(s) /\ Len(s) \in Nat /\ DOMAIN s = 1..Len(s)
  BY EnvFacts
<1>3. E = [i \in DOMAIN s |-> [w \in DOMAIN s[i] |-> m[Base + s[i][w]]]]
  BY DEF EnvOf
<1>4. F = [i \in DOMAIN r |-> [w \in DOMAIN r[i] |-> m[Base + r[i][w]]]]
  BY DEF EnvOf
<1>5. IsSeq(F) /\ Len(F) = Len(r)
  <2> HIDE DEF r
  <2> QED
    BY <1>1, EnvFacts
<1>6. IsSeq(G) /\ Len(G) = l /\ \A i \in 1..l : G[i] = E[i]
  <2> HIDE DEF E
  <2> QED
    BY <1>2, SubSeqFacts
<1> HIDE DEF E, F, G, r
<1>7. \A i \in 1..l : F[i] = E[i]
  BY <1>1, <1>2, <1>3, <1>4
<1>8. F = G
  BY <1>1, <1>5, <1>6, <1>7, IsSeqEqual
<1> QED
  BY <1>8 DEF E, F, G, r

-----------------------------------------------------------------------------
(* What the machine has in its registers *)
Holds(w, b, m, s) ==
  /\ b.is = "address" => w = Base + b.of
  /\ b.is = "value" => /\ b.of \in DOMAIN Lits \/ Visible(s, b.of)
                       /\ w = ValueIn(m, b.of, s)
\* What is known of HL, DE and the top of the stack is true.
Believes(k, s) ==
  /\ Holds(hl, k.hl, mem, s) /\ Holds(de, k.de, mem, s) /\ Holds(mem[sp], k.top, mem, s)
\* M is what is known at each instruction.
Linking(M) ==
  /\ \A j \in 1..Len(code) : PlaceOK(code[j])
  /\ \A j \in 1..(Len(code) - 1) : Link(prog, code[j], M[j], code[j + 1], M[j + 1])
  /\ \A j \in 1..Len(code) : code[j].op = "label" => M[j] = Idle

\* The kinds of knowledge are told apart.
LEMMA KindFacts ==
  /\ Nothing.is = "nothing" /\ Idle.hl = Nothing /\ Idle.de = Nothing /\ Idle.top = Nothing
  /\ \A o : Address(o).is = "address" /\ Address(o).of = o
  /\ \A e : ValueOf(e).is = "value" /\ ValueOf(e).of = e
BY DEF Nothing, Idle, Told, Address, ValueOf

\* Nothing is always true.
LEMMA NothingHolds ==
  ASSUME NEW w, NEW m, NEW s
  PROVE  Holds(w, Nothing, m, s)
BY KindFacts DEF Holds

\* What it means to hold a value.
LEMMA ValueHolds ==
  ASSUME NEW w, NEW m, NEW s, NEW e
  PROVE  Holds(w, ValueOf(e), m, s) <=>
           (e \in DOMAIN Lits \/ Visible(s, e)) /\ w = ValueIn(m, e, s)
<1> DEFINE b == ValueOf(e)
<1>1. b.is = "value" /\ b.of = e
  BY KindFacts
<1> HIDE DEF b
<1>2. Holds(w, b, m, s) <=> (e \in DOMAIN Lits \/ Visible(s, e)) /\ w = ValueIn(m, e, s)
  BY <1>1 DEF Holds
<1> QED
  BY <1>2 DEF b

\* What it means to hold an address.
LEMMA AddressHolds ==
  ASSUME NEW w, NEW m, NEW s, NEW o
  PROVE  Holds(w, Address(o), m, s) <=> w = Base + o
<1> DEFINE b == Address(o)
<1>1. b.is = "address" /\ b.of = o
  BY KindFacts
<1> HIDE DEF b
<1>2. Holds(w, b, m, s) <=> w = Base + o
  BY <1>1 DEF Holds
<1> QED
  BY <1>2 DEF b

\* What is known remains when the variables in scope keep their words.
LEMMA HoldsSame ==
  ASSUME NEW w, NEW b, NEW m, NEW n, NEW s, IsSeq(s), Holds(w, b, m, s),
         \A o : InScope(s, o) => n[Base + o] = m[Base + o]
  PROVE  Holds(w, b, n, s)
<1>1. ASSUME NEW e, Visible(s, e)
      PROVE  ValueIn(m, e, s) = ValueIn(n, e, s)
  <2>1. InScope(s, OffsetOf(s, e))
    BY <1>1, ScopeIs DEF OffsetOf, InScope
  <2> QED
    BY <2>1 DEF ValueIn
<1>2. ASSUME NEW e, e \in DOMAIN Lits
      PROVE  ValueIn(m, e, s) = ValueIn(n, e, s)
  BY <1>2 DEF ValueIn
<1> QED
  BY <1>1, <1>2 DEF Holds

\* A label forgets what was known.
LEMMA LinkIdle ==
  ASSUME NEW p, NEW x, NEW k, NEW y, NEW m, Link(p, x, k, y, m),
         NEW r, r = k \/ (x.op = "label" /\ r = Idle), NEW t, t = m \/ t = Idle
  PROVE  Link(p, x, r, y, t)
<1>1. CASE y.at = x.at /\ y.in = x.in /\ Goes1(x, x.in, k, m)
  <2>1. HLKnown(x, x.in, r, t)
    BY <1>1, KindFacts DEF Goes1, HLKnown
  <2>2. DEKnown(x, r, t)
    BY <1>1, KindFacts DEF Goes1, DEKnown, Loads
  <2>3. TopKnown(x, r, t)
    BY <1>1, KindFacts DEF Goes1, TopKnown, Loads
  <2> QED
    BY <1>1, <2>1, <2>2, <2>3 DEF Link, Goes1
<1>2. CASE x.at \in DOMAIN p /\ m = Idle /\ y.at = x.at + 1 /\ Completes(p[x.at], x, x.in, k, y.in)
  <2>1. Completes(p[x.at], x, x.in, r, y.in)
    BY <1>2 DEF Completes, StoresTo
  <2> QED
    BY <1>2, <2>1 DEF Link
<1>3. CASE x.at \in DOMAIN p /\ m = Idle /\ x.op = "jp" /\ Leaves(p[x.at], k)
  BY <1>3 DEF Link
<1> QED
  BY <1>1, <1>2, <1>3 DEF Link

\* The knowledge that the chain has, with nothing at the labels.
LEMMA EndedLinks ==
  ASSUME Ended
  PROVE  (\E M : Linking(M) /\ M[1] = Idle) /\ (code # <<>> => Begins(code[1]))
<1> DEFINE q == Place(Pos, <<GlobalScope, ParamScope>>)
           n == Len(code)
<1>1. Chain(code, prog, q, Idle)
  BY DEF Ended
<1> HIDE DEF q
<1>2. /\ IsSeq(code) /\ \A j \in 1..n : PlaceOK(code[j])
      /\ code # <<>> => Begins(code[1])
  BY <1>1 DEF Chain
<1>3. PICK R : /\ R[1] = Idle
               /\ \A j \in 1..n : Link(prog, code[j], R[j], IF j = n THEN q ELSE code[j + 1], R[j + 1])
  BY <1>1 DEF Chain
<1>4. n \in Nat
  BY <1>2, SeqFacts
<1> DEFINE M == [j \in 1..(n + 1) |-> IF j \in 1..n /\ code[j].op = "label" THEN Idle ELSE R[j]]
<1>5. \A j \in 1..n : code[j].op = "label" => M[j] = Idle
  BY <1>4
<1>6. M[1] = Idle
  BY <1>3, <1>4
<1>7. \A j \in 1..(n - 1) : Link(prog, code[j], M[j], code[j + 1], M[j + 1])
  <2> SUFFICES ASSUME NEW j \in 1..(n - 1)
               PROVE  Link(prog, code[j], M[j], code[j + 1], M[j + 1])
    OBVIOUS
  <2>1. j \in 1..n /\ j # n
    BY <1>4
  <2>2. Link(prog, code[j], R[j], code[j + 1], R[j + 1])
    BY <1>3, <2>1
  <2>3. M[j] = R[j] \/ (code[j].op = "label" /\ M[j] = Idle)
    BY <1>4
  <2>4. M[j + 1] = R[j + 1] \/ M[j + 1] = Idle
    BY <1>4
  <2> HIDE DEF M
  <2> QED
    BY <2>2, <2>3, <2>4, LinkIdle
<1> HIDE DEF M
<1>8. Linking(M)
  BY <1>2, <1>5, <1>7 DEF Linking
<1> QED
  BY <1>2, <1>6, <1>8

-----------------------------------------------------------------------------
(* The machine in the middle of a function *)
Running(K, L, M) ==
  /\ Flat /\ Held /\ Ready(K, L) /\ Runs(K) /\ phase = "run"
  /\ IsSeq(prog) /\ JumpsRight /\ Finished
  /\ Linking(M) /\ Believes(M[pc], code[pc].in) /\ Begins(code[1])

\* The code of the exit is behind the last item, the rest is not.
LEMMA ExitPlaces ==
  ASSUME NEW K, NEW L, NEW M, Running(K, L, M)
  PROVE  LET n == Len(code)
         IN \A i \in 1..n :
              /\ code[i].at = Pos <=> i \in (n - 3)..n
              /\ code[i].at = Pos => code[i].in = <<GlobalScope, ParamScope>>
<1> DEFINE n == Len(code)
           s == <<GlobalScope, ParamScope>>
<1>1. /\ n \in Nat /\ n >= 7 /\ DOMAIN code = 1..n
      /\ code[n - 3].op = "label" /\ code[n - 3].n = ExitLabel
      /\ code[n - 2].op = "ldsp" /\ code[n - 1].op = "popix" /\ code[n].op = "ret"
  BY Places DEF Running
<1>2. Len(prog) \in Nat /\ DOMAIN prog = 1..Len(prog) /\ Pos \notin DOMAIN prog
  BY SeqFacts DEF Running, Pos
<1>3. \A j \in 1..(n - 1) : code[j].at = Pos =>
        code[j].op = "jp" \/ (code[j + 1].at = code[j].at /\ code[j + 1].in = code[j].in)
  BY <1>2 DEF Running, Linking, Link
<1>4. code[n - 3].at = Pos /\ code[n - 3].in = s
  <2>1. code[n - 3] \in Marks(code)
    BY <1>1 DEF Marks
  <2> QED
    BY <1>1, <2>1 DEF Running, JumpsRight
<1> HIDE DEF s
<1>5. code[n - 2].at = Pos /\ code[n - 2].in = s
  <2>1. n - 3 \in 1..(n - 1) /\ (n - 3) + 1 = n - 2
    BY <1>1
  <2> QED
    BY <1>1, <1>3, <1>4, <2>1
<1>6. code[n - 1].at = Pos /\ code[n - 1].in = s
  <2>1. n - 2 \in 1..(n - 1) /\ (n - 2) + 1 = n - 1
    BY <1>1
  <2> QED
    BY <1>1, <1>3, <1>5, <2>1
<1>7. code[n].at = Pos /\ code[n].in = s
  <2>1. n - 1 \in 1..(n - 1) /\ (n - 1) + 1 = n
    BY <1>1
  <2> QED
    BY <1>1, <1>3, <1>6, <2>1
<1>8. \A j \in 1..(n - 4) : code[j].at # Pos
  <2>1. \A j \in 1..(n - 4) : code[j].at \in Nat /\ code[j].at < Pos
    BY DEF Running, Finished
  <2>2. Pos \in Nat
    BY <1>2 DEF Pos
  <2> QED
    BY <2>1, <2>2
<1>13. n \in Nat /\ n >= 7
  BY <1>1
<1>9. \A i \in 1..n : i \in 1..(n - 4) \/ i = n - 3 \/ i = n - 2 \/ i = n - 1 \/ i = n
  <2> HIDE DEF n
  <2> QED
    BY <1>13
<1>10. \A i \in 1..(n - 4) : i \notin (n - 3)..n
  BY <1>1
<1>11. n - 3 \in (n - 3)..n /\ n - 2 \in (n - 3)..n /\ n - 1 \in (n - 3)..n /\ n \in (n - 3)..n
  BY <1>1
<1>12. \A i \in 1..n : /\ code[i].at = Pos <=> i \in (n - 3)..n
                       /\ code[i].at = Pos => code[i].in = s
  BY <1>4, <1>5, <1>6, <1>7, <1>8, <1>9, <1>10, <1>11
<1> QED
  BY <1>12 DEF s

\* The parameters are above the frame, the locals in scope not below SP.
LEMMA FirstAbove ==
  ASSUME Flat, NEW s, ScopesOK(s), NEW i \in {1, 2}, NEW v \in DOMAIN s[i]
  PROVE  s[i][v] \in Int /\ s[i][v] >= 4
<1>1. s[1] = GlobalScope /\ s[2] = ParamScope
  BY DEF ScopesOK
<1>2. i = 2
  BY <1>1 DEF GlobalScope, Flat
<1>3. PICK j \in DOMAIN Params : Params[j] = v
  BY <1>1, <1>2 DEF ParamScope
<1> DEFINE c == CHOOSE k \in DOMAIN Params : Params[k] = v
<1>4. c \in DOMAIN Params
  BY <1>3
<1>5. c \in Nat \ {0}
  <2>1. Params \in Seq(STRING)
    BY FrameAssumption
  <2>2. DOMAIN Params = 1..Len(Params) /\ Len(Params) \in Nat
    BY <2>1
  <2> HIDE DEF c
  <2> QED
    BY <1>4, <2>2
<1>6. ParamScope[v] = 4 + 2 * (c - 1)
  BY <1>1, <1>2 DEF ParamScope
<1> HIDE DEF c
<1> QED
  BY <1>1, <1>2, <1>5, <1>6

\* No variable in scope is below SP, or under the word a piece has pushed.
LEMMA ScopeAbove ==
  ASSUME Flat, Held, NEW K, NEW L, Ready(K, L), Runs(K), pc \in 3..(Len(code) - 4),
         PlaceOK(code[pc]), NEW o, InScope(code[pc].in, o)
  PROVE  /\ o \in Int /\ Base + o \in Words /\ Base + o # sp - 2 /\ Base + o >= sp
         /\ K[pc].d = 1 => Base + o > sp
<1> DEFINE s == code[pc].in
<1>1. ScopesOK(s)
  BY DEF PlaceOK
<1>2. K[pc] \in Known /\ Knows(K[pc])
  <2>1. K[pc] \in Known
    BY Places
  <2> QED
    BY <2>1 DEF Runs
<1>3. /\ sp \in Int /\ K[pc].a \in Bytes /\ sp = Base - K[pc].a - 2 * K[pc].d
  BY <1>2, StackFacts
<1>4. PICK i \in DOMAIN s : \E w \in DOMAIN s[i] : o = s[i][w]
  BY DEF InScope
<1>8. PICK v \in DOMAIN s[i] : o = s[i][v]
  BY <1>4
<1>5. o \in Slots /\ o \in Int /\ Base + o \in Words /\ Base \in Int
  BY <1>1, <1>8, FrameFacts DEF ScopesOK
<1>6. K[pc].d \in {0, 1} /\ K[pc].a \in Nat
  BY <1>2, <1>3 DEF Known, Bytes
<1>7. o >= -K[pc].a
  <2>1. DOMAIN s = 1..Len(s) /\ Len(s) \in Nat
    BY <1>1, SeqFacts DEF ScopesOK
  <2>2. CASE i \in {1, 2}
    <3>1. o >= 4
      BY <1>1, <1>8, <2>2, FirstAbove
    <3> QED
      BY <1>5, <1>6, <3>1
  <2>3. CASE i \in 3..Len(s)
    <3>1. o \in SlotsIn(s)
      BY <1>8, <2>3 DEF SlotsIn
    <3> QED
      BY <3>1, Places
  <2>4. i \in {1, 2} \/ i \in 3..Len(s)
    BY <1>4, <2>1
  <2> QED
    BY <2>2, <2>3, <2>4
<1> DEFINE a == K[pc].a
           d == K[pc].d
<1>9. /\ sp = Base - a - 2 * d /\ a \in Nat /\ (d = 0 \/ d = 1) /\ o >= -a
      /\ o \in Int /\ Base \in Int
  BY <1>3, <1>5, <1>6, <1>7
<1> HIDE DEF a, d
<1>10. CASE d = 0
  <2>1. sp = Base - a
    BY <1>9, <1>10
  <2> QED
    BY <1>5, <1>9, <1>10, <2>1 DEF d
<1>11. CASE d = 1
  <2>1. sp = Base - a - 2
    BY <1>9, <1>11
  <2> QED
    BY <1>5, <1>9, <2>1
<1> QED
  BY <1>9, <1>10, <1>11

\* The instructions before the body are those of the first item.
LEMMA EntryPlaces ==
  ASSUME NEW K, NEW L, NEW M, Running(K, L, M), pc \in {1, 2}
  PROVE  /\ code[pc + 1].at = code[pc].at /\ code[pc + 1].in = code[pc].in
         /\ code[1].in = <<GlobalScope, ParamScope>> /\ code[1].at = 1
         /\ code[pc].op \in Silent /\ Goes1(code[pc], code[pc].in, M[pc], M[pc + 1])
<1>1. code[1].op = "pushix" /\ code[2].op = "ldix" /\ pc \in 1..(Len(code) - 1)
  <2>1. Len(code) \in Nat /\ Len(code) >= 7
    BY Places DEF Running
  <2>2. code[1].op = "pushix" /\ code[2].op = "ldix"
    BY Places DEF Running
  <2>3. pc \in 1..(Len(code) - 1)
    BY <2>1
  <2> QED
    BY <2>2, <2>3
<1>2. Link(prog, code[pc], M[pc], code[pc + 1], M[pc + 1])
  BY <1>1 DEF Running, Linking
<1>3. code[pc].op \in {"pushix", "ldix"}
  BY <1>1
<1>4. ~Completes(prog[code[pc].at], code[pc], code[pc].in, M[pc], code[pc + 1].in)
  BY <1>3 DEF Completes, StoresTo
<1> QED
  BY <1>2, <1>3, <1>4 DEF Link, Goes1, Running, Begins

\* What C sees of a step from one instruction to another.
LEMMA SeenFacts ==
  ASSUME NEW K, NEW L, NEW M, Running(K, L, M), Held', UNCHANGED <<prog, code, phase>>,
         NEW j \in 1..Len(code), pc' = j
  PROVE  /\ pc \in 1..Len(code) /\ Where.at = code[pc].at /\ (Where.at)' = code[j].at
         /\ ScopesOK(code[pc].in) /\ ScopesOK(code[j].in)
         /\ Env = EnvOf(mem, code[pc].in) /\ Env' = EnvOf(mem', code[j].in)
         /\ Res = IF pc \in (Len(code) - 3)..Len(code) THEN hl ELSE Junk
         /\ Res' = IF j \in (Len(code) - 3)..Len(code) THEN hl' ELSE Junk
<1>1. pc \in 1..Len(code) /\ phase = "run" /\ phase' = "run"
  BY DEF Running, Runs
<1>2. Where = code[pc] /\ Where' = code[j]
  BY <1>1 DEF Where
<1>3. Where.at = code[pc].at /\ Where.in = code[pc].in
  BY <1>2
<1>4. (Where.at)' = code[j].at /\ (Where.in)' = code[j].in
  BY <1>2
<1>5. ScopesOK(code[pc].in) /\ ScopesOK(code[j].in)
  BY <1>1 DEF Running, Linking, PlaceOK
<1>6. Env = EnvOf(mem, code[pc].in)
  BY <1>3, <1>5, EnvIs DEF Running
<1>7. Env' = EnvOf(mem', code[j].in)
  BY <1>4, <1>5, EnvIsNext
<1>8. \A i \in 1..Len(code) : code[i].at = Pos <=> i \in (Len(code) - 3)..Len(code)
  BY ExitPlaces
<1>9. Res = IF pc \in (Len(code) - 3)..Len(code) THEN hl ELSE Junk
  BY <1>1, <1>3, <1>8 DEF Res
<1>10. Pos' = Pos
  BY DEF Pos
<1>11. Res' = IF j \in (Len(code) - 3)..Len(code) THEN hl' ELSE Junk
  BY <1>4, <1>8, <1>10 DEF Res
<1> QED
  BY <1>1, <1>3, <1>4, <1>5, <1>6, <1>7, <1>9, <1>11

\* A step that C does not see.
LEMMA StayStep ==
  ASSUME NEW K, NEW L, NEW M, Running(K, L, M), Held', UNCHANGED <<prog, code, phase, passed>>,
         NEW j \in 1..Len(code), pc' = j,
         code[j].at = code[pc].at, code[j].in = code[pc].in,
         \A o : InScope(code[pc].in, o) => mem'[Base + o] = mem[Base + o],
         hl' = hl \/ pc \in 1..(Len(code) - 4)
  PROVE  UNCHANGED C!cvars
<1>1. /\ pc \in 1..Len(code) /\ Where.at = code[pc].at /\ (Where.at)' = code[j].at
      /\ Env = EnvOf(mem, code[pc].in) /\ Env' = EnvOf(mem', code[j].in)
      /\ Res = IF pc \in (Len(code) - 3)..Len(code) THEN hl ELSE Junk
      /\ Res' = IF j \in (Len(code) - 3)..Len(code) THEN hl' ELSE Junk
  BY SeenFacts
<1>2. Env' = Env
  BY <1>1, EnvSame
<1>3. j \in (Len(code) - 3)..Len(code) <=> pc \in (Len(code) - 3)..Len(code)
  <2>1. \A i \in 1..Len(code) : code[i].at = Pos <=> i \in (Len(code) - 3)..Len(code)
    BY ExitPlaces
  <2> QED
    BY <1>1, <2>1
<1>4. Res' = Res
  <2>1. CASE hl' = hl
    BY <1>1, <1>3, <2>1
  <2>2. CASE pc \in 1..(Len(code) - 4)
    <3>1. Len(code) \in Nat
      BY Places DEF Running
    <3>2. pc \notin (Len(code) - 3)..Len(code)
      BY <2>2, <3>1
    <3> QED
      BY <1>1, <1>3, <3>2
  <2> QED
    BY <2>1, <2>2
<1> QED
  BY <1>1, <1>2, <1>4, StaysIs

\* Only the item after the last has that place.
LEMMA NotLast ==
  ASSUME NEW a \in Int, NEW l \in Int, NEW b, b = a + 1, a # l
  PROVE  b # l + 1
OBVIOUS

\* A step from an item to the next, or to another.
LEMMA MoveStep ==
  ASSUME NEW K, NEW L, NEW M, Running(K, L, M), Held', UNCHANGED <<prog, code, phase>>,
         NEW j \in 1..Len(code), pc' = j, code[pc].at \in DOMAIN prog
  PROVE  /\ Goes2(code[pc].at, code[j].at) /\ Res = Junk
         /\ j \in 1..(Len(code) - 4) => Res' = Res
         /\ j \notin 1..(Len(code) - 4) => Res' = hl' /\ code[j].at = Len(prog) + 1
         /\ code[j].at = code[pc].at + 1 /\ prog[code[pc].at].k # "}" => Res' = Res
<1>1. /\ pc \in 1..Len(code) /\ Where.at = code[pc].at /\ (Where.at)' = code[j].at
      /\ Res = IF pc \in (Len(code) - 3)..Len(code) THEN hl ELSE Junk
      /\ Res' = IF j \in (Len(code) - 3)..Len(code) THEN hl' ELSE Junk
  BY SeenFacts
<1>2. Goes2(code[pc].at, code[j].at)
  BY <1>1 DEF Goes2, Running
<1>3. \A i \in 1..Len(code) : code[i].at = Pos <=> i \in (Len(code) - 3)..Len(code)
  BY ExitPlaces
<1>4. Len(code) \in Nat /\ Len(prog) \in Nat /\ DOMAIN prog = 1..Len(prog)
  BY Places, SeqFacts DEF Running
<1>11. code[pc].at \in Int
  <2>1. code[pc].at \in 1..Len(prog)
    BY <1>4
  <2> QED
    BY <2>1
<1>12. Len(prog) \in Int
  BY <1>4
<1>5. code[pc].at # Pos
  BY <1>4 DEF Pos
<1>6. Res = Junk
  BY <1>1, <1>3, <1>5
<1>7. j \in 1..(Len(code) - 4) <=> j \notin (Len(code) - 3)..Len(code)
  BY <1>4
<1>8. j \in 1..(Len(code) - 4) => Res' = Res
  BY <1>1, <1>6, <1>7
<1>9. j \notin 1..(Len(code) - 4) => Res' = hl' /\ code[j].at = Len(prog) + 1
  BY <1>1, <1>3, <1>7 DEF Pos
<1>10. code[j].at = code[pc].at + 1 /\ prog[code[pc].at].k # "}" => Res' = Res
  <2> SUFFICES ASSUME code[j].at = code[pc].at + 1, prog[code[pc].at].k # "}"
               PROVE  j \in 1..(Len(code) - 4)
    BY <1>8
  <2>1. prog[Len(prog)].k = "}"
    BY DEF Running, Finished
  <2>2. code[pc].at # Len(prog)
    BY <2>1
  <2>3. code[j].at # Len(prog) + 1
    BY <1>11, <1>12, <2>2, NotLast
  <2> QED
    BY <1>9, <2>3
<1> QED
  BY <1>2, <1>6, <1>8, <1>9, <1>10

\* The step is one of C, or C does not see it, and what is known holds again.
Follows(M) ==
  /\ C!Next \/ UNCHANGED C!cvars
  /\ pc' \in 1..Len(code) /\ Believes(M[pc], code[pc].in)'

\* An instruction of the body, and how it goes on.
Remains(x, y, k, m) == y.at = x.at /\ y.in = x.in /\ Goes1(x, x.in, k, m)
Moves(x, y, k, m) ==
  /\ x.at \in DOMAIN prog /\ m = Idle /\ y.at = x.at + 1
  /\ Completes(prog[x.at], x, x.in, k, y.in)

\* Where an instruction of the body leads, if it does not jump.
LEMMA BodyLink ==
  ASSUME NEW K, NEW L, NEW M, Running(K, L, M), code[pc].op \in BodyOps,
         code[pc].op \notin {"label", "jp"}
  PROVE  /\ pc \in 3..(Len(code) - 4) /\ pc \in 1..(Len(code) - 4) /\ pc + 1 \in 1..Len(code)
         /\ ix = Base /\ Knows(K[pc]) /\ K[pc] \in Known /\ Goes(code[pc], K[pc], K[pc + 1], L)
         /\ PlaceOK(code[pc]) /\ PlaceOK(code[pc + 1])
         /\ \/ Remains(code[pc], code[pc + 1], M[pc], M[pc + 1])
            \/ Moves(code[pc], code[pc + 1], M[pc], M[pc + 1])
<1>1. /\ pc \in 3..(Len(code) - 4) /\ ix = Base /\ Knows(K[pc]) /\ K[pc] \in Known
      /\ Goes(code[pc], K[pc], K[pc + 1], L)
  BY InBody DEF Running
<1>2. Len(code) \in Nat
  BY Places DEF Running
<1>3. /\ pc \in 1..(Len(code) - 4) /\ pc + 1 \in 1..Len(code) /\ pc \in 1..(Len(code) - 1)
      /\ pc \in 1..Len(code)
  BY <1>1, <1>2
<1>4. Link(prog, code[pc], M[pc], code[pc + 1], M[pc + 1])
      /\ PlaceOK(code[pc]) /\ PlaceOK(code[pc + 1])
  BY <1>3 DEF Running, Linking
<1>5. \/ Remains(code[pc], code[pc + 1], M[pc], M[pc + 1])
      \/ Moves(code[pc], code[pc + 1], M[pc], M[pc + 1])
  BY <1>4 DEF Link, Remains, Moves
<1> QED
  BY <1>1, <1>3, <1>4, <1>5

\* Nothing is known behind an instruction that ends its item.
LEMMA IdleBelieved ==
  ASSUME NEW M, NEW j, pc' = j, M[j] = Idle, UNCHANGED code
  PROVE  Believes(M[pc], code[pc].in)'
<1> DEFINE s == code[j].in
<1>1. Holds(hl', Nothing, mem', s) /\ Holds(de', Nothing, mem', s) /\ Holds(mem'[sp'], Nothing, mem', s)
  BY NothingHolds
<1>2. Holds(hl', Idle.hl, mem', s) /\ Holds(de', Idle.de, mem', s) /\ Holds(mem'[sp'], Idle.top, mem', s)
  BY <1>1, KindFacts
<1> QED
  BY <1>2 DEF Believes

\* Something is known again.
LEMMA Believed ==
  ASSUME NEW M, UNCHANGED code, NEW j, pc' = j, NEW s, code[j].in = s,
         Holds(hl', M[j].hl, mem', s), Holds(de', M[j].de, mem', s),
         Holds(mem'[sp'], M[j].top, mem', s)
  PROVE  Believes(M[pc], code[pc].in)'
BY DEF Believes

\* A load: HL has the value of a name or a literal.
LEMMA LoadFollows ==
  ASSUME NEW K, NEW L, NEW M, Running(K, L, M), Held', LoadHL
  PROVE  Follows(M)
<1> DEFINE x == code[pc]
           y == code[pc + 1]
           k == M[pc]
           m == M[pc + 1]
           s == x.in
<1>1. /\ x.op \in Loads /\ pc' = pc + 1 /\ UNCHANGED <<prog, code, phase, passed, sp, ix, de, mem>>
      /\ x.op = "imm" => hl' = x.n
      /\ x.op = "ld" => hl' = Cell(ix + x.n)
      /\ x.op = "ldind" => hl' = Cell(hl)
  BY DEF LoadHL, Op, Onward, Loads, parser, N, IxD
<1>2. /\ pc \in 3..(Len(code) - 4) /\ pc \in 1..(Len(code) - 4) /\ pc + 1 \in 1..Len(code)
      /\ ix = Base /\ PlaceOK(x) /\ (Remains(x, y, k, m) \/ Moves(x, y, k, m))
  BY <1>1, BodyLink DEF BodyOps, Loads
<1>3. Remains(x, y, k, m)
  BY <1>1, <1>2 DEF Moves, Completes, StoresTo, Loads
<1>4. y.at = x.at /\ y.in = s /\ HLKnown(x, s, k, m) /\ DEKnown(x, k, m) /\ TopKnown(x, k, m)
  BY <1>3 DEF Remains, Goes1
<1>5. UNCHANGED C!cvars
  BY <1>1, <1>2, <1>4, StayStep
<1>6. Holds(hl, k.hl, mem, s) /\ Holds(de, k.de, mem, s) /\ Holds(mem[sp], k.top, mem, s)
  BY DEF Running, Believes
<1>7. ScopesOK(s) /\ Stored(mem)
  <2>1. Held
    BY DEF Running
  <2>2. Stored(mem)
    BY <2>1 DEF Held
  <2> QED
    BY <1>2, <2>2 DEF PlaceOK
<1> HIDE DEF x, y, k, m, s
<1>8. ASSUME NEW e, NEW o, Names(s, e, o)
      PROVE  Cell(Base + o) = ValueIn(mem, e, s) /\ Visible(s, e)
  <2>1. ScopeOf(s, e) \in DOMAIN s /\ e \in DOMAIN s[ScopeOf(s, e)]
    BY <1>7, <1>8, ScopeIs DEF Names, ScopesOK
  <2>2. o \in Slots
    BY <1>7, <1>8, <2>1 DEF Names, OffsetOf, ScopesOK
  <2>3. Base + o \in Words
    BY <2>2, FrameFacts
  <2>4. Cell(Base + o) = mem[Base + o]
    BY <1>7, <2>3, CellFacts
  <2> QED
    BY <1>8, <2>4 DEF Names, ValueIn
<1>9. Holds(hl', m.hl, mem', s)
  <2>1. CASE m.hl = Nothing
    BY <2>1, NothingHolds
  <2>2. CASE x.op = "imm" /\ \E e \in DOMAIN Lits : x.n = Lits[e] /\ m.hl = ValueOf(e)
    <3>1. PICK e \in DOMAIN Lits : x.n = Lits[e] /\ m.hl = ValueOf(e)
      BY <2>2
    <3>2. hl' = ValueIn(mem', e, s)
      BY <1>1, <2>2, <3>1 DEF ValueIn, x
    <3> QED
      BY <3>1, <3>2, ValueHolds
  <2>3. CASE x.op = "ld" /\ \E e : Names(s, e, x.n) /\ m.hl = ValueOf(e)
    <3>1. PICK e : Names(s, e, x.n) /\ m.hl = ValueOf(e)
      BY <2>3
    <3>2. hl' = ValueIn(mem', e, s) /\ Visible(s, e)
      BY <1>1, <1>2, <1>8, <2>3, <3>1 DEF x
    <3> QED
      BY <3>1, <3>2, ValueHolds
  <2>4. CASE x.op = "ldind" /\ \E e, o : Names(s, e, o) /\ k.hl = Address(o) /\ m.hl = ValueOf(e)
    <3>1. PICK e, o : Names(s, e, o) /\ k.hl = Address(o) /\ m.hl = ValueOf(e)
      BY <2>4
    <3>2. hl = Base + o
      BY <1>6, <3>1, AddressHolds
    <3>3. hl' = Cell(Base + o)
      BY <1>1, <2>4, <3>2 DEF x
    <3>4. mem' = mem /\ Cell(Base + o) = ValueIn(mem, e, s) /\ Visible(s, e)
      BY <1>1, <1>8, <3>1
    <3>5. hl' = ValueIn(mem', e, s) /\ Visible(s, e)
      BY <3>3, <3>4
    <3> QED
      BY <3>1, <3>5, ValueHolds
  <2> QED
    BY <1>1, <1>4, <2>1, <2>2, <2>3, <2>4 DEF HLKnown, Loads, x
<1>10. Holds(de', m.de, mem', s)
  BY <1>1, <1>4, <1>6, NothingHolds DEF DEKnown, Loads, x
<1>11. Holds(mem'[sp'], m.top, mem', s)
  BY <1>1, <1>4, <1>6, NothingHolds DEF TopKnown, Loads, x
<1>12. Believes(M[pc], code[pc].in)'
  BY <1>1, <1>4, <1>9, <1>10, <1>11, Believed DEF m, y
<1> QED
  BY <1>1, <1>2, <1>5, <1>12 DEF Follows

\* At the entry and at the exit nothing is known.
LEMMA EdgeLink ==
  ASSUME NEW K, NEW L, NEW M, Running(K, L, M),
         pc \in {1, 2} \/ pc \in (Len(code) - 3)..(Len(code) - 1)
  PROVE  /\ pc + 1 \in 1..Len(code) /\ PlaceOK(code[pc])
         /\ code[pc + 1].at = code[pc].at /\ code[pc + 1].in = code[pc].in
         /\ code[pc].in = <<GlobalScope, ParamScope>>
         /\ M[pc + 1].hl = Nothing /\ M[pc + 1].de = Nothing /\ M[pc + 1].top = Nothing
<1> DEFINE n == Len(code)
<1>1. /\ n \in Nat /\ n >= 7 /\ code[1].op = "pushix" /\ code[2].op = "ldix"
      /\ code[n - 3].op = "label" /\ code[n - 2].op = "ldsp" /\ code[n - 1].op = "popix"
  BY Places DEF Running
<1>2. pc \in 1..(n - 1) /\ pc + 1 \in 1..n /\ pc \in 1..n
  BY <1>1
<1>3. /\ Link(prog, code[pc], M[pc], code[pc + 1], M[pc + 1]) /\ PlaceOK(code[pc])
  BY <1>2 DEF Running, Linking
<1>4. CASE pc \in {1, 2}
  <2>1. /\ code[pc + 1].at = code[pc].at /\ code[pc + 1].in = code[pc].in
        /\ code[1].in = <<GlobalScope, ParamScope>>
        /\ Goes1(code[pc], code[pc].in, M[pc], M[pc + 1])
    BY <1>4, EntryPlaces
  <2>2. code[pc].in = <<GlobalScope, ParamScope>>
    <3>1. CASE pc = 1
      BY <2>1, <3>1
    <3>2. CASE pc = 2
      <4>1. /\ Link(prog, code[1], M[1], code[2], M[2])
        <5>1. 1 \in 1..(n - 1) /\ 1 + 1 = 2
          BY <1>1
        <5>2. Link(prog, code[1], M[1], code[1 + 1], M[1 + 1])
          BY <5>1 DEF Running, Linking
        <5> QED
          BY <5>1, <5>2
      <4>2. ~Completes(prog[code[1].at], code[1], code[1].in, M[1], code[2].in)
        BY <1>1 DEF Completes, StoresTo
      <4>3. code[2].in = code[1].in
        BY <1>1, <4>1, <4>2 DEF Link
      <4> QED
        BY <2>1, <3>2, <4>3
    <3> QED
      BY <1>4, <3>1, <3>2
  <2>3. code[pc].op \in {"pushix", "ldix"}
    BY <1>1, <1>4
  <2>4. M[pc + 1].hl = Nothing /\ M[pc + 1].de = Nothing /\ M[pc + 1].top = Nothing
    BY <2>1, <2>3 DEF Goes1, HLKnown, DEKnown, TopKnown, Loads
  <2> QED
    BY <1>2, <1>3, <2>1, <2>2, <2>4
<1>5. CASE pc \in (n - 3)..(n - 1)
  <2>1. code[pc].op \in {"label", "ldsp", "popix"}
    <3>1. pc = n - 3 \/ pc = n - 2 \/ pc = n - 1
      BY <1>1, <1>5
    <3> QED
      BY <1>1, <3>1
  <2>2. pc \in (n - 3)..n /\ pc + 1 \in (n - 3)..n
    BY <1>1, <1>5
  <2>3. code[pc].at = Pos /\ code[pc + 1].at = Pos
        /\ code[pc].in = <<GlobalScope, ParamScope>> /\ code[pc + 1].in = <<GlobalScope, ParamScope>>
    BY <1>2, <2>2, ExitPlaces
  <2>4. Pos \notin DOMAIN prog
    BY SeqFacts DEF Running, Pos
  <2>5. Goes1(code[pc], code[pc].in, M[pc], M[pc + 1])
    BY <1>3, <2>1, <2>3, <2>4 DEF Link
  <2>6. M[pc + 1].hl = Nothing /\ M[pc + 1].de = Nothing /\ M[pc + 1].top = Nothing
    BY <2>1, <2>5 DEF Goes1, HLKnown, DEKnown, TopKnown, Loads
  <2> QED
    BY <1>2, <1>3, <2>3, <2>6
<1> QED
  BY <1>4, <1>5

\* Nothing is known.
LEMMA NoneBelieved ==
  ASSUME NEW M, UNCHANGED code, NEW j, pc' = j,
         M[j].hl = Nothing, M[j].de = Nothing, M[j].top = Nothing
  PROVE  Believes(M[pc], code[pc].in)'
<1> DEFINE s == code[j].in
<1>1. Holds(hl', Nothing, mem', s) /\ Holds(de', Nothing, mem', s) /\ Holds(mem'[sp'], Nothing, mem', s)
  BY NothingHolds
<1> QED
  BY <1>1 DEF Believes

\* A step at the entry or the exit.
LEMMA EdgeFollows ==
  ASSUME NEW K, NEW L, NEW M, Running(K, L, M), Held', UNCHANGED <<prog, code, phase, passed, hl>>,
         pc \in {1, 2} \/ pc \in (Len(code) - 3)..(Len(code) - 1), pc' = pc + 1,
         \A o : InScope(code[pc].in, o) => mem'[Base + o] = mem[Base + o]
  PROVE  Follows(M)
<1>1. /\ pc + 1 \in 1..Len(code)
      /\ code[pc + 1].at = code[pc].at /\ code[pc + 1].in = code[pc].in
      /\ M[pc + 1].hl = Nothing /\ M[pc + 1].de = Nothing /\ M[pc + 1].top = Nothing
  BY EdgeLink
<1>2. UNCHANGED C!cvars
  BY <1>1, StayStep
<1>3. Believes(M[pc], code[pc].in)'
  BY <1>1, NoneBelieved
<1> QED
  BY <1>1, <1>2, <1>3 DEF Follows

\* The frame is linked or given back.
LEMMA LinkFollows ==
  ASSUME NEW K, NEW L, NEW M, Running(K, L, M), Held', LinkFrame
  PROVE  Follows(M)
<1>1. /\ code[pc].op \in {"ldix", "ldsp"} /\ pc' = pc + 1
      /\ UNCHANGED <<prog, code, phase, passed, hl, mem>>
  BY DEF LinkFrame, Op, Onward, parser
<1>2. pc \in 1..Len(code) /\ Len(code) \in Nat /\ Len(code) >= 7
  BY Places DEF Running, Runs
<1>3. code[pc].op = "ldix" => pc = 2
  BY <1>2, Here DEF Running
<1>4. code[pc].op = "ldsp" => pc = Len(code) - 2
  BY <1>2, Here DEF Running
<1>5. pc \in {1, 2} \/ pc \in (Len(code) - 3)..(Len(code) - 1)
  BY <1>1, <1>2, <1>3, <1>4
<1>6. \A o : InScope(code[pc].in, o) => mem'[Base + o] = mem[Base + o]
  BY <1>1
<1> QED
  BY <1>1, <1>5, <1>6, EdgeFollows

\* What is pushed goes below SP, where nobody's variable is.
LEMMA PutBelow ==
  ASSUME NEW K, NEW L, NEW M, Running(K, L, M), pc \in 3..(Len(code) - 4), PlaceOK(code[pc]),
         NEW x \in Cells, mem' = Put(sp - 2, x)
  PROVE  /\ sp - 2 \in Words /\ A(sp - 2) = sp - 2 /\ sp \in Words /\ sp # sp - 2
         /\ mem'[sp - 2] = x /\ mem'[sp] = mem[sp]
         /\ \A o : InScope(code[pc].in, o) => mem'[Base + o] = mem[Base + o]
<1>1. K[pc] \in Known /\ Knows(K[pc]) /\ Held /\ Flat /\ Ready(K, L) /\ Runs(K)
  <2>1. Ready(K, L) /\ Runs(K) /\ Held /\ Flat
    BY DEF Running
  <2>2. K[pc] \in Known
    BY <2>1, Places
  <2> QED
    BY <2>1, <2>2 DEF Runs
<1>2. sp - 2 \in Words /\ A(sp - 2) = sp - 2 /\ sp \in Int
  BY <1>1, StackFacts
<1>3. Stored(mem) /\ sp \in Words
  BY <1>1 DEF Held
<1>4. /\ mem'[sp - 2] = x /\ \A a \in Words \ {sp - 2} : mem'[a] = mem[a]
  BY <1>2, <1>3, PutFacts
<1>5. sp # sp - 2
  BY <1>2
<1>6. \A o : InScope(code[pc].in, o) => Base + o \in Words /\ Base + o # sp - 2
  BY <1>1, ScopeAbove
<1> QED
  BY <1>2, <1>3, <1>4, <1>5, <1>6

\* The address of a variable.
LEMMA LeaFollows ==
  ASSUME NEW K, NEW L, NEW M, Running(K, L, M), Held', LoadAddress
  PROVE  Follows(M)
<1> DEFINE x == code[pc]
           y == code[pc + 1]
           k == M[pc]
           m == M[pc + 1]
           s == x.in
<1>1. /\ x.op = "lea" /\ pc' = pc + 1 /\ UNCHANGED <<prog, code, phase, passed, sp>>
      /\ mem' = Put(sp - 2, ix) /\ hl' = ix + x.n
  BY DEF LoadAddress, Op, Onward, parser, N, IxD
<1>2. /\ pc \in 3..(Len(code) - 4) /\ pc \in 1..(Len(code) - 4) /\ pc + 1 \in 1..Len(code)
      /\ ix = Base /\ PlaceOK(x) /\ (Remains(x, y, k, m) \/ Moves(x, y, k, m))
  BY <1>1, BodyLink DEF BodyOps
<1>3. Remains(x, y, k, m)
  BY <1>1, <1>2 DEF Moves, Completes, StoresTo
<1>4. y.at = x.at /\ y.in = s /\ HLKnown(x, s, k, m) /\ DEKnown(x, k, m) /\ TopKnown(x, k, m)
  BY <1>3 DEF Remains, Goes1
<1>5. ix \in Cells /\ IsSeq(s)
  BY <1>2 DEF Running, Held, PlaceOK, ScopesOK
<1>6. /\ mem'[sp] = mem[sp] /\ \A o : InScope(s, o) => mem'[Base + o] = mem[Base + o]
  BY <1>1, <1>2, <1>5, PutBelow
<1>7. UNCHANGED C!cvars
  BY <1>1, <1>2, <1>4, <1>6, StayStep
<1>8. Holds(mem[sp], k.top, mem, s)
  BY DEF Running, Believes
<1> HIDE DEF x, y, k, m, s
<1>9. Holds(hl', m.hl, mem', s)
  <2>1. m.hl = Nothing \/ m.hl = Address(x.n)
    BY <1>1, <1>4 DEF HLKnown
  <2>2. hl' = Base + x.n
    BY <1>1, <1>2
  <2> QED
    BY <2>1, <2>2, NothingHolds, AddressHolds
<1>10. Holds(de', m.de, mem', s)
  BY <1>1, <1>4, NothingHolds DEF DEKnown, Loads
<1>11. Holds(mem'[sp'], m.top, mem', s)
  <2>1. m.top = Nothing \/ m.top = k.top
    BY <1>1, <1>4 DEF TopKnown, Loads
  <2>2. Holds(mem[sp], k.top, mem', s)
    BY <1>5, <1>6, <1>8, HoldsSame
  <2> QED
    BY <1>1, <1>6, <2>1, <2>2, NothingHolds
<1>12. Believes(M[pc], code[pc].in)'
  BY <1>1, <1>4, <1>9, <1>10, <1>11, Believed DEF m, y
<1> QED
  BY <1>1, <1>2, <1>7, <1>12 DEF Follows

\* A value or an address goes to the stack, at the entry the caller's IX.
LEMMA PushFollows ==
  ASSUME NEW K, NEW L, NEW M, Running(K, L, M), Held', Push
  PROVE  Follows(M)
<1> DEFINE x == code[pc]
           y == code[pc + 1]
           k == M[pc]
           m == M[pc + 1]
           s == x.in
<1>1. /\ x.op \in {"push", "pushix"} /\ pc' = pc + 1
      /\ UNCHANGED <<prog, code, phase, passed, hl>>
      /\ mem' = Put(sp - 2, IF x.op = "push" THEN hl ELSE ix) /\ sp' = A(sp - 2)
  BY DEF Push, Op, Onward, parser
<1>2. CASE x.op = "push"
  <2>1. /\ pc \in 3..(Len(code) - 4) /\ pc \in 1..(Len(code) - 4) /\ pc + 1 \in 1..Len(code)
        /\ PlaceOK(x) /\ (Remains(x, y, k, m) \/ Moves(x, y, k, m))
    BY <1>2, BodyLink DEF BodyOps
  <2>2. Remains(x, y, k, m)
    BY <1>2, <2>1 DEF Moves, Completes, StoresTo
  <2>3. y.at = x.at /\ y.in = s /\ HLKnown(x, s, k, m) /\ DEKnown(x, k, m) /\ TopKnown(x, k, m)
    BY <2>2 DEF Remains, Goes1
  <2>4. hl \in Cells /\ IsSeq(s) /\ mem' = Put(sp - 2, hl)
    BY <1>1, <1>2, <2>1 DEF Running, Held, PlaceOK, ScopesOK
  <2>5. /\ A(sp - 2) = sp - 2 /\ mem'[sp - 2] = hl
        /\ \A o : InScope(s, o) => mem'[Base + o] = mem[Base + o]
    BY <2>1, <2>4, PutBelow
  <2>6. UNCHANGED C!cvars
    BY <1>1, <2>1, <2>3, <2>5, StayStep
  <2>7. Holds(hl, k.hl, mem, s)
    BY DEF Running, Believes
  <2> HIDE DEF x, y, k, m, s
  <2>8. Holds(hl, k.hl, mem', s)
    BY <2>4, <2>5, <2>7, HoldsSame
  <2>9. Holds(hl', m.hl, mem', s)
    <3>1. m.hl = Nothing \/ m.hl = k.hl
      BY <1>2, <2>3 DEF HLKnown
    <3> QED
      BY <1>1, <2>8, <3>1, NothingHolds
  <2>10. Holds(de', m.de, mem', s)
    BY <1>2, <2>3, NothingHolds DEF DEKnown, Loads
  <2>11. Holds(mem'[sp'], m.top, mem', s)
    <3>1. m.top = Nothing \/ m.top = k.hl
      BY <1>2, <2>3 DEF TopKnown, Loads
    <3> QED
      BY <1>1, <2>5, <2>8, <3>1, NothingHolds
  <2>12. Believes(M[pc], code[pc].in)'
    BY <1>1, <2>3, <2>9, <2>10, <2>11, Believed DEF m, y
  <2> QED
    BY <1>1, <2>1, <2>6, <2>12 DEF Follows
<1>3. CASE x.op = "pushix"
  <2>1. pc = 1
    BY <1>3, Here DEF Running, Runs
  <2>2. sp = Base + 2 /\ Held
    BY <2>1 DEF Running, Runs, Called
  <2>3. Base \in Words /\ Base \in Int
    BY FrameFacts
  <2>4. sp - 2 = Base
    BY <2>2, <2>3
  <2>5. Stored(mem) /\ ix \in Cells /\ mem' = Put(Base, ix)
    BY <1>1, <1>3, <2>2, <2>4 DEF Held
  <2>6. \A a \in Words \ {Base} : mem'[a] = mem[a]
    BY <2>3, <2>5, PutFacts
  <2>7. PlaceOK(code[pc]) /\ code[pc].in = <<GlobalScope, ParamScope>>
    BY <2>1, EdgeLink
  <2>8. \A o : InScope(code[pc].in, o) => mem'[Base + o] = mem[Base + o]
    <3> DEFINE t == code[pc].in
    <3> SUFFICES ASSUME NEW o, InScope(t, o)
                 PROVE  mem'[Base + o] = mem[Base + o]
      OBVIOUS
    <3>1. ScopesOK(t) /\ Flat
      BY <2>7 DEF PlaceOK, Running
    <3>2. DOMAIN t = {1, 2}
      BY <2>7
    <3> HIDE DEF t
    <3>3. PICK i \in {1, 2} : \E v \in DOMAIN t[i] : o = t[i][v]
      BY <3>2 DEF InScope
    <3>4. PICK v \in DOMAIN t[i] : o = t[i][v]
      BY <3>3
    <3>5. o \in Int /\ o >= 4
      BY <3>1, <3>4, FirstAbove
    <3>6. o \in Slots
      BY <3>1, <3>2, <3>4 DEF ScopesOK
    <3>7. Base + o \in Words
      BY <3>6, FrameFacts
    <3>8. Base + o # Base
      BY <2>3, <3>5
    <3> QED
      BY <2>6, <3>7, <3>8
  <2> QED
    BY <1>1, <2>1, <2>8, EdgeFollows
<1> QED
  BY <1>1, <1>2, <1>3

\* What was pushed comes back.
LEMMA PopFollows ==
  ASSUME NEW K, NEW L, NEW M, Running(K, L, M), Held', Pop
  PROVE  Follows(M)
<1> DEFINE x == code[pc]
           y == code[pc + 1]
           k == M[pc]
           m == M[pc + 1]
           s == x.in
<1>1. /\ x.op \in {"pop", "popde", "popix"} /\ pc' = pc + 1
      /\ UNCHANGED <<prog, code, phase, passed, hl, mem>>
      /\ de' = IF x.op = "popde" THEN Cell(sp) ELSE de
  BY DEF Pop, Op, Onward, parser
<1>2. \A o : InScope(s, o) => mem'[Base + o] = mem[Base + o]
  BY <1>1
<1>3. CASE x.op = "popix"
  <2>1. pc = Len(code) - 1 /\ Len(code) \in Nat
    BY <1>3, Here, Places DEF Running, Runs
  <2>2. pc \in (Len(code) - 3)..(Len(code) - 1)
    BY <2>1
  <2> QED
    BY <1>1, <1>2, <2>2, EdgeFollows
<1>4. CASE x.op \in {"pop", "popde"}
  <2>1. /\ pc \in 3..(Len(code) - 4) /\ pc \in 1..(Len(code) - 4) /\ pc + 1 \in 1..Len(code)
        /\ (Remains(x, y, k, m) \/ Moves(x, y, k, m))
    BY <1>4, BodyLink DEF BodyOps
  <2>2. Remains(x, y, k, m)
    BY <1>4, <2>1 DEF Moves, Completes, StoresTo
  <2>3. y.at = x.at /\ y.in = s /\ HLKnown(x, s, k, m) /\ DEKnown(x, k, m) /\ TopKnown(x, k, m)
    BY <2>2 DEF Remains, Goes1
  <2>4. UNCHANGED C!cvars
    BY <1>1, <1>2, <2>1, <2>3, StayStep
  <2>5. Holds(hl, k.hl, mem, s) /\ Holds(mem[sp], k.top, mem, s)
    BY DEF Running, Believes
  <2>6. Held /\ Stored(mem) /\ sp \in Words
    BY DEF Running, Held
  <2>7. Cell(sp) = mem[sp]
    BY <2>6, CellFacts
  <2> HIDE DEF x, y, k, m, s
  <2>8. Holds(hl', m.hl, mem', s)
    <3>1. m.hl = Nothing \/ m.hl = k.hl
      BY <1>4, <2>3 DEF HLKnown
    <3> QED
      BY <1>1, <2>5, <3>1, NothingHolds
  <2>9. Holds(de', m.de, mem', s)
    <3>1. m.de = Nothing \/ (x.op = "popde" /\ m.de = k.top)
      BY <1>4, <2>3 DEF DEKnown, Loads
    <3> QED
      BY <1>1, <2>5, <2>7, <3>1, NothingHolds
  <2>10. Holds(mem'[sp'], m.top, mem', s)
    BY <1>4, <2>3, NothingHolds DEF TopKnown, Loads
  <2>11. Believes(M[pc], code[pc].in)'
    BY <1>1, <2>3, <2>8, <2>9, <2>10, Believed DEF m, y
  <2> QED
    BY <1>1, <2>1, <2>4, <2>11 DEF Follows
<1> QED
  BY <1>1, <1>3, <1>4

\* A declaration is complete: the name is bound to a word with its value.
LEMMA DeclareFollows ==
  ASSUME NEW K, NEW L, NEW M, Running(K, L, M), Held', UNCHANGED <<prog, code, phase, passed>>,
         pc' = pc + 1, pc + 1 \in 1..Len(code), NEW x, x = code[pc], NEW y, y = code[pc + 1],
         x.at \in DOMAIN prog, M[pc + 1] = Idle, y.at = x.at + 1,
         NEW it, it = prog[x.at], it.k = "decl", NEW o, y.in = Bind(x.in, it.v, o),
         \A z : InScope(y.in, z) /\ z # o => mem'[Base + z] = mem[Base + z],
         mem'[Base + o] \in MayHave(it.e)
  PROVE  Follows(M)
<1>1. /\ ScopesOK(x.in) /\ ScopesOK(y.in)
      /\ Env = EnvOf(mem, x.in) /\ Env' = EnvOf(mem', y.in)
  BY SeenFacts
<1>2. Goes2(x.at, y.at) /\ Res' = Res
  BY MoveStep
<1> DEFINE E == EnvOf(mem, x.in)
           c == mem'[Base + o]
<1>3. EnvOf(mem', y.in) = [E EXCEPT ![Len(E)] = C!Bind(@, it.v, c)]
  BY <1>1, EnvBind
<1>4. Env' = [Env EXCEPT ![Len(Env)] = C!Bind(@, it.v, c)]
  BY <1>1, <1>3
<1> HIDE DEF c, E
<1>5. C!Declare
  <2>1. c \in MayHave(it.e)
    BY DEF c
  <2>2. Goes2(x.at, x.at + 1)
    BY <1>2
  <2> QED
    BY <1>2, <1>4, <2>1, <2>2, DeclareIs
<1>6. Believes(M[pc], code[pc].in)'
  BY IdleBelieved
<1> QED
  BY <1>5, <1>6 DEF Follows, C!Next

\* A local is made; without an initializer the declaration is complete.
LEMMA AllocFollows ==
  ASSUME NEW K, NEW L, NEW M, Running(K, L, M), Held', Alloc
  PROVE  Follows(M)
<1> DEFINE x == code[pc]
           y == code[pc + 1]
           k == M[pc]
           m == M[pc + 1]
           s == x.in
<1>1. /\ x.op = "alloc" /\ pc' = pc + 1 /\ UNCHANGED <<prog, code, phase, passed, mem>>
  BY DEF Alloc, Op, Onward, parser
<1>2. /\ pc \in 3..(Len(code) - 4) /\ pc \in 1..(Len(code) - 4) /\ pc + 1 \in 1..Len(code)
      /\ (Remains(x, y, k, m) \/ Moves(x, y, k, m))
  BY <1>1, BodyLink DEF BodyOps
<1>3. CASE Remains(x, y, k, m)
  <2>1. y.at = x.at /\ y.in = s /\ HLKnown(x, s, k, m) /\ DEKnown(x, k, m) /\ TopKnown(x, k, m)
    BY <1>3 DEF Remains, Goes1
  <2>2. m.hl = Nothing /\ m.de = Nothing /\ m.top = Nothing
    BY <1>1, <2>1 DEF HLKnown, DEKnown, TopKnown, Loads
  <2>3. UNCHANGED C!cvars
    BY <1>1, <1>2, <2>1, StayStep
  <2>4. Believes(M[pc], code[pc].in)'
    BY <1>1, <2>2, NoneBelieved
  <2> QED
    BY <1>1, <1>2, <2>3, <2>4 DEF Follows
<1>4. CASE Moves(x, y, k, m)
  <2>1. /\ x.at \in DOMAIN prog /\ m = Idle /\ y.at = x.at + 1
        /\ Completes(prog[x.at], x, x.in, k, y.in)
    BY <1>4 DEF Moves
  <2>2. /\ prog[x.at].k = "decl" /\ prog[x.at].e = "none"
        /\ \E o \in Slots : y.in = Bind(x.in, prog[x.at].v, o)
    BY <1>1, <2>1 DEF Completes, StoresTo
  <2>3. PICK o \in Slots : y.in = Bind(x.in, prog[x.at].v, o)
    BY <2>2
  <2>4. mem'[Base + o] \in MayHave(prog[x.at].e)
    <3>1. Base + o \in Words
      BY FrameFacts
    <3>2. mem[Base + o] \in Cells
      BY <3>1 DEF Running, Held, Stored
    <3> QED
      BY <1>1, <2>2, <3>2 DEF MayHave
  <2>5. \A z : InScope(y.in, z) /\ z # o => mem'[Base + z] = mem[Base + z]
    BY <1>1
  <2> DEFINE it == prog[x.at]
  <2>6. it.k = "decl" /\ y.in = Bind(x.in, it.v, o) /\ mem'[Base + o] \in MayHave(it.e)
    BY <2>2, <2>3, <2>4
  <2> HIDE DEF it
  <2> QED
    BY <1>1, <1>2, <2>1, <2>5, <2>6, DeclareFollows DEF it
<1> QED
  BY <1>2, <1>3, <1>4

\* Two offsets are two words.
LEMMA OtherPlace ==
  ASSUME NEW a \in Int, NEW b \in Int, NEW c \in Int, a # c
  PROVE  b + a # b + c
OBVIOUS

\* A store puts the value where the variable is.
LEMMA StoredValue ==
  ASSUME NEW K, NEW L, NEW M, Running(K, L, M), StoreWord, ix = Base, NEW x, x = code[pc],
         NEW o \in Slots, NEW e, StoresTo(x, M[pc], o, e)
  PROVE  /\ e \in DOMAIN Lits \/ Visible(x.in, e)
         /\ mem'[Base + o] = ValueIn(mem, e, x.in)
         /\ \A z \in Slots : z # o => mem'[Base + z] = mem[Base + z]
<1> DEFINE k == M[pc]
           s == x.in
           v == ValueIn(mem, e, s)
<1>1. /\ x.op = "st" => mem' = Put(ix + x.n, hl)
      /\ x.op = "sthl" => mem' = Put(de, hl)
      /\ x.op = "stde" => mem' = Put(hl, de)
  BY DEF StoreWord, Op, N, IxD
<1>2. Holds(hl, k.hl, mem, s) /\ Holds(de, k.de, mem, s)
  BY DEF Running, Believes
<1>3. Held /\ Stored(mem) /\ hl \in Cells /\ de \in Cells
  BY DEF Running, Held
<1> HIDE DEF k, s
<1>4. (e \in DOMAIN Lits \/ Visible(s, e)) /\ v \in Cells /\ mem' = Put(Base + o, v)
  <2>1. CASE x.op = "st" /\ x.n = o /\ k.hl = ValueOf(e)
    <3>1. (e \in DOMAIN Lits \/ Visible(s, e)) /\ hl = v
      BY <1>2, <2>1, ValueHolds
    <3> QED
      BY <1>1, <1>3, <2>1, <3>1
  <2>2. CASE x.op = "sthl" /\ k.de = Address(o) /\ k.hl = ValueOf(e)
    <3>1. (e \in DOMAIN Lits \/ Visible(s, e)) /\ hl = v
      BY <1>2, <2>2, ValueHolds
    <3>2. de = Base + o
      BY <1>2, <2>2, AddressHolds
    <3> QED
      BY <1>1, <1>3, <2>2, <3>1, <3>2
  <2>3. CASE x.op = "stde" /\ k.hl = Address(o) /\ k.de = ValueOf(e)
    <3>1. (e \in DOMAIN Lits \/ Visible(s, e)) /\ de = v
      BY <1>2, <2>3, ValueHolds
    <3>2. hl = Base + o
      BY <1>2, <2>3, AddressHolds
    <3> QED
      BY <1>1, <1>3, <2>3, <3>1, <3>2
  <2> QED
    BY <2>1, <2>2, <2>3 DEF StoresTo, k
<1> HIDE DEF v
<1>5. Base + o \in Words
  BY FrameFacts
<1>6. /\ mem'[Base + o] = v /\ \A a \in Words \ {Base + o} : mem'[a] = mem[a]
  <2> DEFINE w == Base + o
  <2> HIDE DEF w
  <2>1. w \in Words /\ mem' = Put(w, v)
    BY <1>4, <1>5 DEF w
  <2>2. mem'[w] = v /\ \A a \in Words \ {w} : mem'[a] = mem[a]
    BY <1>3, <1>4, <2>1, PutFacts
  <2> QED
    BY <2>2 DEF w
<1>7. \A z \in Slots : z # o => Base + z \in Words /\ Base + z # Base + o
  <2>1. \A z \in Slots : z \in Int /\ Base + z \in Words
    BY FrameFacts
  <2>2. Base \in Int
    BY FrameFacts
  <2> QED
    BY <2>1, <2>2, OtherPlace
<1> QED
  BY <1>4, <1>6, <1>7 DEF v, s

\* What is in scope is at a slot.
LEMMA ScopeIsSlot ==
  ASSUME NEW s, ScopesOK(s), NEW o, InScope(s, o)
  PROVE  o \in Slots
BY DEF ScopesOK, InScope

\* A declaration with an initializer, or an assignment, is complete.
LEMMA StoreFollows ==
  ASSUME NEW K, NEW L, NEW M, Running(K, L, M), Held', StoreWord
  PROVE  Follows(M)
<1> DEFINE x == code[pc]
           y == code[pc + 1]
           k == M[pc]
           m == M[pc + 1]
           s == x.in
           it == prog[x.at]
<1>1. x.op \in Stores /\ pc' = pc + 1 /\ UNCHANGED <<prog, code, phase, passed>>
  BY DEF StoreWord, Op, Onward, parser, Stores
<1>2. /\ pc + 1 \in 1..Len(code) /\ ix = Base
      /\ PlaceOK(x) /\ PlaceOK(y) /\ (Remains(x, y, k, m) \/ Moves(x, y, k, m))
  BY <1>1, BodyLink DEF BodyOps, Stores
<1>3. ~Remains(x, y, k, m)
  BY <1>1 DEF Remains, Goes1, Silent, Stores, Loads
<1>4. /\ x.at \in DOMAIN prog /\ m = Idle /\ y.at = x.at + 1 /\ Completes(it, x, s, k, y.in)
  BY <1>2, <1>3 DEF Moves
<1>5. ScopesOK(s) /\ ScopesOK(y.in) /\ IsSeq(s)
  BY <1>2 DEF PlaceOK, ScopesOK
<1>6. /\ Env = EnvOf(mem, s) /\ Env' = EnvOf(mem', y.in)
  BY <1>1, <1>2, SeenFacts
<1>7. CASE it.k = "decl"
  <2>1. PICK o \in Slots : /\ y.in = Bind(s, it.v, o)
                           /\ IF it.e = "none" THEN x.op = "alloc" ELSE StoresTo(x, k, o, it.e)
    BY <1>4, <1>7 DEF Completes
  <2>2. it.e # "none" /\ StoresTo(x, k, o, it.e)
    BY <1>1, <2>1 DEF Stores
  <2>3. /\ it.e \in DOMAIN Lits \/ Visible(s, it.e)
        /\ mem'[Base + o] = ValueIn(mem, it.e, s)
        /\ \A z \in Slots : z # o => mem'[Base + z] = mem[Base + z]
    BY <1>2, <2>2, StoredValue
  <2>4. mem'[Base + o] = Worth(it.e)
    BY <1>5, <1>6, <2>3, FindIs
  <2>5. mem'[Base + o] \in MayHave(it.e)
    BY <2>2, <2>4 DEF MayHave
  <2>6. \A z : InScope(y.in, z) /\ z # o => mem'[Base + z] = mem[Base + z]
    BY <1>5, <2>3, ScopeIsSlot
  <2> HIDE DEF it
  <2> QED
    BY <1>1, <1>2, <1>4, <1>7, <2>1, <2>5, <2>6, DeclareFollows DEF it
<1>8. CASE it.k = "set"
  <2> DEFINE o == OffsetOf(s, it.v)
  <2>1. y.in = s /\ Visible(s, it.v) /\ StoresTo(x, k, o, it.e)
    BY <1>1, <1>4, <1>8 DEF Completes, Stores
  <2>2. o \in Slots
    <3>1. InScope(s, o)
      BY <1>5, <2>1, ScopeIs DEF InScope, OffsetOf
    <3> QED
      BY <1>5, <3>1, ScopeIsSlot
  <2> HIDE DEF o
  <2>3. /\ it.e \in DOMAIN Lits \/ Visible(s, it.e)
        /\ mem'[Base + o] = ValueIn(mem, it.e, s)
        /\ \A z \in Slots : z # o => mem'[Base + z] = mem[Base + z]
    BY <1>2, <2>1, <2>2, StoredValue
  <2>4. mem'[Base + o] = Worth(it.e) /\ Find(it.v) = ScopeOf(s, it.v)
    BY <1>5, <1>6, <2>3, FindIs
  <2>5. \A z : InScope(s, z) /\ z # o => mem'[Base + z] = mem[Base + z]
    BY <1>5, <2>3, ScopeIsSlot
  <2>6. EnvOf(mem', s) = [EnvOf(mem, s) EXCEPT ![ScopeOf(s, it.v)][it.v] = mem'[Base + o]]
    BY <1>5, <2>1, <2>5, EnvSet DEF o
  <2>7. Env' = [Env EXCEPT ![Find(it.v)][it.v] = Worth(it.e)]
    BY <1>6, <2>1, <2>4, <2>6
  <2>8. Goes2(x.at, x.at + 1) /\ Res' = Res
    <3>1. it.k # "}"
      BY <1>8
    <3>2. Goes2(x.at, y.at) /\ Res' = Res
      BY <1>1, <1>2, <1>4, <3>1, MoveStep
    <3> QED
      BY <1>4, <3>2
  <2>9. C!Assign
    BY <1>1, <1>8, <2>7, <2>8, AssignIs
  <2>10. Believes(M[pc], code[pc].in)'
    BY <1>1, <1>4, IdleBelieved
  <2> QED
    BY <1>1, <1>2, <2>9, <2>10 DEF Follows, C!Next
<1> QED
  BY <1>1, <1>4, <1>7, <1>8 DEF Completes, Stores

\* The callee is given the value, and changes nothing that is in scope.
LEMMA CallFollows ==
  ASSUME NEW K, NEW L, NEW M, Running(K, L, M), Held', CallOut
  PROVE  Follows(M)
<1> DEFINE x == code[pc]
           y == code[pc + 1]
           k == M[pc]
           m == M[pc + 1]
           s == x.in
           it == prog[x.at]
<1>1. /\ x.op = "call" /\ pc' = pc + 1 /\ UNCHANGED <<prog, code, phase, sp>>
      /\ passed' = Cell(sp) /\ mem' = [a \in DOMAIN mem |-> IF a <= sp THEN Junk ELSE mem[a]]
  BY DEF CallOut, Op, Onward, parser
<1>2. /\ pc \in 3..(Len(code) - 4) /\ pc + 1 \in 1..Len(code)
      /\ PlaceOK(x) /\ (Remains(x, y, k, m) \/ Moves(x, y, k, m))
      /\ Goes(x, K[pc], K[pc + 1], L)
  BY <1>1, BodyLink DEF BodyOps
<1>3. ~Remains(x, y, k, m)
  BY <1>1 DEF Remains, Goes1, Silent, Loads
<1>4. /\ x.at \in DOMAIN prog /\ m = Idle /\ y.at = x.at + 1 /\ Completes(it, x, s, k, y.in)
  BY <1>2, <1>3 DEF Moves
<1>5. it.k = "call" /\ y.in = s /\ k.top = ValueOf(it.v)
  BY <1>1, <1>4 DEF Completes, StoresTo
<1>6. IsSeq(s) /\ K[pc].d = 1
  BY <1>1, <1>2 DEF PlaceOK, ScopesOK, Goes, StackOK
<1>7. Held /\ Stored(mem) /\ sp \in Words /\ DOMAIN mem = Words /\ sp \in Int
      /\ Flat /\ Ready(K, L) /\ Runs(K)
  <2>1. Held /\ Flat /\ Ready(K, L) /\ Runs(K)
    BY DEF Running
  <2>2. Stored(mem) /\ sp \in Words
    BY <2>1 DEF Held
  <2> QED
    BY <2>1, <2>2, WordFacts DEF Stored
<1>8. \A o : InScope(s, o) => mem'[Base + o] = mem[Base + o]
  <2> SUFFICES ASSUME NEW o, InScope(s, o) PROVE mem'[Base + o] = mem[Base + o]
    OBVIOUS
  <2>1. Base + o \in Words /\ Base + o > sp
    BY <1>2, <1>6, <1>7, ScopeAbove
  <2>2. Base + o \in Int
    BY <2>1, WordFacts
  <2>3. ~(Base + o <= sp)
    BY <1>7, <2>1, <2>2
  <2> QED
    BY <1>1, <1>7, <2>1, <2>3
<1>9. /\ Env = EnvOf(mem, s) /\ Env' = EnvOf(mem', s)
  BY <1>1, <1>2, <1>5, SeenFacts
<1>10. Env' = Env
  BY <1>8, <1>9, EnvSame
<1>11. passed' = Worth(it.v)
  <2>1. passed' = mem[sp]
    BY <1>1, <1>7, CellFacts
  <2>2. Holds(mem[sp], k.top, mem, s)
    BY DEF Running, Believes
  <2> HIDE DEF k, s, it, x
  <2>3. (it.v \in DOMAIN Lits \/ Visible(s, it.v)) /\ mem[sp] = ValueIn(mem, it.v, s)
    BY <1>5, <2>2, ValueHolds
  <2> QED
    BY <1>6, <1>9, <2>1, <2>3, FindIs
<1>12. Goes2(x.at, x.at + 1) /\ Res' = Res
  <2>1. it.k # "}"
    BY <1>5
  <2>2. Goes2(x.at, y.at) /\ Res' = Res
    BY <1>1, <1>2, <1>4, <2>1, MoveStep
  <2> QED
    BY <1>4, <2>2
<1>13. C!Call
  BY <1>5, <1>10, <1>11, <1>12, CallIs
<1>14. Believes(M[pc], code[pc].in)'
  BY <1>1, <1>4, IdleBelieved
<1> QED
  BY <1>1, <1>2, <1>13, <1>14 DEF Follows, C!Next

\* The end of the code of an item that has nothing to store.
LEMMA MarkFollows ==
  ASSUME NEW K, NEW L, NEW M, Running(K, L, M), Held',
         UNCHANGED <<prog, code, phase, passed, mem, hl>>,
         pc' = pc + 1, pc + 1 \in 1..Len(code), NEW x, x = code[pc], NEW y, y = code[pc + 1],
         Moves(x, y, M[pc], M[pc + 1]), x.op \in {"mark", "label", "jz"}, x.op = "jz" => hl # 0
  PROVE  Follows(M)
<1> DEFINE s == x.in
           it == prog[x.at]
           k == M[pc]
<1>1. /\ x.at \in DOMAIN prog /\ M[pc + 1] = Idle /\ y.at = x.at + 1 /\ Completes(it, x, s, k, y.in)
  BY DEF Moves
<1>2. /\ ScopesOK(s) /\ ScopesOK(y.in)
      /\ Env = EnvOf(mem, s) /\ Env' = EnvOf(mem, y.in)
  BY SeenFacts
<1>3. IsSeq(s)
  BY <1>2 DEF ScopesOK
<1>4. Goes2(x.at, x.at + 1)
  <2>1. Goes2(x.at, y.at)
    BY <1>1, MoveStep
  <2> QED
    BY <1>1, <2>1
<1>5. it.k # "}" => Res' = Res
  BY <1>1, MoveStep
<1>6. C!Next
  <2>1. CASE it.k \in {"if", "while"} /\ y.in = s /\ x.op = "jz" /\ k.hl = ValueOf(it.v)
    <3>1. Holds(hl, k.hl, mem, s)
      BY DEF Running, Believes
    <3>2. hl # 0
      BY <2>1
    <3> HIDE DEF it, k, s
    <3>3. (it.v \in DOMAIN Lits \/ Visible(s, it.v)) /\ hl = ValueIn(mem, it.v, s)
      BY <2>1, <3>1, ValueHolds
    <3>4. Worth(it.v) # 0
      BY <1>2, <1>3, <3>2, <3>3, FindIs
    <3>5. Env' = Env /\ Res' = Res
      BY <1>2, <1>5, <2>1
    <3>6. C!Test
      BY <1>4, <2>1, <3>4, <3>5, TestIs DEF it
    <3> QED
      BY <3>6 DEF C!Next
  <2>2. CASE it.k \in {"empty", "fi"} /\ y.in = s
    <3>1. Env' = Env /\ Res' = Res
      BY <1>2, <1>5, <2>2
    <3>2. C!Pass
      BY <1>4, <2>2, <3>1, PassIs
    <3> QED
      BY <3>2 DEF C!Next
  <2>3. CASE it.k = "{" /\ y.in = Append(s, <<>>)
    <3>1. Env' = Append(Env, <<>>) /\ Res' = Res
      BY <1>2, <1>3, <1>5, <2>3, EnvAppend
    <3>2. C!Open
      BY <1>4, <2>3, <3>1, OpenIs
    <3> QED
      BY <3>2 DEF C!Next
  <2>4. CASE it.k = "}" /\ y.in = SubSeq(s, 1, Len(s) - 1)
    <3>1. Len(s) - 1 \in 0..Len(s) /\ Len(Env) = Len(s)
      <4>1. Len(s) \in Nat /\ Len(s) >= 2
        BY <1>2, <1>3, SeqFacts DEF ScopesOK
      <4> QED
        BY <1>2, <1>3, <4>1, EnvFacts
    <3>2. Env' = SubSeq(Env, 1, Len(Env) - 1)
      <4> DEFINE l == Len(s) - 1
      <4>1. l \in 0..Len(s) /\ y.in = SubSeq(s, 1, l) /\ l = Len(Env) - 1
        BY <2>4, <3>1
      <4>4. l \in 0..Len(s) /\ IsSeq(s)
        BY <1>3, <4>1
      <4> HIDE DEF l, s
      <4>2. EnvOf(mem, SubSeq(s, 1, l)) = SubSeq(EnvOf(mem, s), 1, l)
        BY <4>4, EnvSubSeq
      <4>3. Env' = SubSeq(Env, 1, l)
        BY <1>2, <4>1, <4>2
      <4> QED
        BY <4>1, <4>3
    <3>3. hl' \in Cells
      BY DEF Held
    <3>4. IF x.at = Len(prog) THEN Res' \in Cells ELSE Res' = Res
      <4>1. Junk \in Cells
        BY CellKinds
      <4>2. Res' \in Cells
        BY <3>3, <4>1 DEF Res
      <4>3. ASSUME x.at # Len(prog)
            PROVE  Res' = Res
        <5>1. x.at \in Int /\ Len(prog) \in Int
          <6>1. IsSeq(prog)
            BY DEF Running
          <6>2. DOMAIN prog = 1..Len(prog) /\ Len(prog) \in Nat
            BY <6>1, SeqFacts
          <6> QED
            BY <1>1, <6>2
        <5>2. y.at # Len(prog) + 1
          BY <1>1, <4>3, <5>1, NotLast
        <5> QED
          BY <1>1, <5>2, MoveStep
      <4> QED
        BY <4>2, <4>3
    <3>5. C!Close
      BY <1>4, <2>4, <3>2, <3>4, CloseIs
    <3> QED
      BY <3>5 DEF C!Next
  <2> QED
    BY <1>1, <2>1, <2>2, <2>3, <2>4 DEF Completes, StoresTo
<1>7. Believes(M[pc], code[pc].in)'
  BY <1>1, IdleBelieved
<1> QED
  BY <1>6, <1>7 DEF Follows

\* A label, a test that does not jump, the mark of an item.
LEMMA NoJumpFollows ==
  ASSUME NEW K, NEW L, NEW M, Running(K, L, M), Held', NoJump
  PROVE  Follows(M)
<1> DEFINE x == code[pc]
           y == code[pc + 1]
           k == M[pc]
           m == M[pc + 1]
           s == x.in
           n == Len(code)
<1>1. /\ x.op \in {"mark", "label", "jz"} /\ pc' = pc + 1
      /\ UNCHANGED <<prog, code, phase, passed, mem, hl>>
      /\ x.op = "jz" => hl # 0
  BY DEF NoJump, Op, Onward, parser
<1>2. n \in Nat /\ n >= 7 /\ pc \in 1..n
  BY Places DEF Running, Runs
<1>3. CASE x.op = "label" /\ pc = n - 3
  <2>1. pc \in (n - 3)..(n - 1)
    BY <1>2, <1>3
  <2> QED
    BY <1>1, <2>1, EdgeFollows
<1>4. CASE ~(x.op = "label" /\ pc = n - 3)
  <2>1. pc \in 3..(n - 4)
    <3>1. x.op \in BodyOps
      BY <1>1 DEF BodyOps, Control
    <3> QED
      BY <1>2, <1>4, <3>1, Here DEF Running
  <2>2. pc \in 1..(n - 1) /\ pc + 1 \in 1..n /\ pc \in 1..(n - 4)
    BY <1>2, <2>1
  <2>3. Link(prog, x, k, y, m)
    BY <2>2 DEF Running, Linking
  <2>4. Remains(x, y, k, m) \/ Moves(x, y, k, m)
    BY <1>1, <2>3 DEF Link, Remains, Moves
  <2>5. CASE Remains(x, y, k, m)
    <3>1. y.at = x.at /\ y.in = s /\ Goes1(x, s, k, m)
      BY <2>5 DEF Remains
    <3>2. m.hl = Nothing /\ m.de = Nothing /\ m.top = Nothing
      BY <1>1, <3>1 DEF Goes1, Silent, HLKnown, DEKnown, TopKnown, Loads
    <3>3. UNCHANGED C!cvars
      BY <1>1, <2>2, <3>1, StayStep
    <3>4. Believes(M[pc], code[pc].in)'
      BY <1>1, <3>2, NoneBelieved
    <3> QED
      BY <1>1, <2>2, <3>3, <3>4 DEF Follows
  <2>6. CASE Moves(x, y, k, m)
    BY <1>1, <2>2, <2>6, MarkFollows
  <2> QED
    BY <2>4, <2>5, <2>6
<1> QED
  BY <1>3, <1>4

\* The label of a jump.
LEMMA TargetIs ==
  ASSUME NEW K, NEW L, NEW M, Running(K, L, M), Jump, NEW x, x = code[pc]
  PROVE  /\ pc' \in 1..Len(code) /\ code[pc'].op = "label" /\ code[pc'].n = x.n
         /\ code[pc'] \in Marks(code) /\ x \in Jumps(code) /\ M[pc'] = Idle
<1>1. /\ pc' = Target(x.n) /\ x.op \in {"jp", "jz"}
      /\ \E i \in DOMAIN code : code[i].op = "label" /\ code[i].n = x.n
  BY DEF Jump, Op, N
<1>2. pc' \in DOMAIN code /\ code[pc'].op = "label" /\ code[pc'].n = x.n
  BY <1>1 DEF Target
<1>3. DOMAIN code = 1..Len(code) /\ pc \in 1..Len(code)
  BY Places DEF Running, Runs
<1>4. M[pc'] = Idle
  BY <1>2, <1>3 DEF Running, Linking
<1> QED
  BY <1>1, <1>2, <1>3, <1>4 DEF Marks, Jumps

\* A jump leads to where C goes.
LEMMA JumpFollows ==
  ASSUME NEW K, NEW L, NEW M, Running(K, L, M), Held', Jump
  PROVE  Follows(M)
<1> DEFINE x == code[pc]
           s == x.in
           k == M[pc]
           it == prog[x.at]
           n == Len(code)
<1>1. /\ x.op \in {"jp", "jz"} /\ UNCHANGED <<prog, code, phase, passed, mem, hl>>
      /\ x.op = "jz" => hl \in {0, Junk}
  BY DEF Jump, Op, parser
<1>2. PICK j \in 1..n : /\ pc' = j /\ code[j].op = "label" /\ code[j].n = x.n
                        /\ code[j] \in Marks(code) /\ x \in Jumps(code) /\ M[j] = Idle
  BY TargetIs
<1> DEFINE y == code[j]
<1>3. n \in Nat /\ n >= 7 /\ pc \in 3..(n - 4) /\ pc \in 1..n /\ pc \in 1..(n - 1)
  <2>1. n \in Nat /\ n >= 7 /\ pc \in 1..n
    BY Places DEF Running, Runs
  <2>2. x.op \in BodyOps
    BY <1>1 DEF BodyOps, Control
  <2>3. pc \in 3..(n - 4)
    BY <1>1, <2>1, <2>2, Here DEF Running
  <2> QED
    BY <2>1, <2>3
<1>4. Link(prog, x, k, code[pc + 1], M[pc + 1])
  BY <1>3 DEF Running, Linking
<1>5. /\ x.at \in DOMAIN prog
      /\ x.op = "jp" => Leaves(it, k)
      /\ x.op = "jz" => it.k \in {"if", "while"} /\ k.hl = ValueOf(it.v)
  BY <1>1, <1>4 DEF Link, Goes1, Silent, Loads, Completes, StoresTo
<1>6. /\ ScopesOK(s) /\ ScopesOK(y.in)
      /\ Env = EnvOf(mem, s) /\ Env' = EnvOf(mem, y.in)
  BY <1>1, <1>2, SeenFacts
<1>7. IsSeq(s)
  BY <1>6 DEF ScopesOK
<1>8. /\ Goes2(x.at, y.at) /\ Res = Junk
      /\ j \in 1..(n - 4) => Res' = Res
      /\ j \notin 1..(n - 4) => Res' = hl' /\ y.at = Len(prog) + 1
  BY <1>1, <1>2, <1>5, MoveStep
<1>9. Believes(M[pc], code[pc].in)'
  BY <1>1, <1>2, IdleBelieved
<1>10. Holds(hl, k.hl, mem, s)
  BY DEF Running, Believes
<1>11. CASE x.n = ExitLabel
  <2>1. x.op = "jp" /\ it.k = "ret" /\ y.at = Pos /\ y.in = <<GlobalScope, ParamScope>>
    BY <1>2, <1>11 DEF Running, JumpsRight, LeavesAt
  <2>2. y.at = Len(prog) + 1 /\ Res' = hl
    <3>1. y.at = Pos <=> j \in (n - 3)..n
      BY <1>2, ExitPlaces
    <3>2. j \notin 1..(n - 4)
      BY <1>3, <2>1, <3>1
    <3> QED
      BY <1>1, <1>8, <3>2
  <2>3. hl \in MayHave(it.e)
    <3>1. CASE it.e = "none"
      <4>1. hl \in Cells
        BY DEF Running, Held
      <4> QED
        BY <3>1, <4>1 DEF MayHave
    <3>2. CASE it.e # "none"
      <4>1. k.hl = ValueOf(it.e)
        BY <1>5, <2>1, <3>2 DEF Leaves
      <4> HIDE DEF it, k, s
      <4>2. (it.e \in DOMAIN Lits \/ Visible(s, it.e)) /\ hl = ValueIn(mem, it.e, s)
        BY <1>10, <4>1, ValueHolds
      <4>3. hl = Worth(it.e)
        BY <1>6, <1>7, <4>2, FindIs
      <4> QED
        BY <3>2, <4>3 DEF MayHave
    <3> QED
      BY <3>1, <3>2
  <2>4. Env' = SubSeq(Env, 1, 2)
    <3>1. Len(s) \in Nat /\ Len(s) >= 2 /\ s[1] = GlobalScope /\ s[2] = ParamScope
      BY <1>6, <1>7, SeqFacts DEF ScopesOK
    <3>2. 2 \in 0..Len(s)
      BY <3>1
    <3>3. SubSeq(s, 1, 2) = y.in
      <4> DEFINE t == SubSeq(s, 1, 2)
                 u == y.in
      <4>1. IsSeq(t) /\ Len(t) = 2 /\ \A i \in 1..2 : t[i] = s[i]
        BY <1>7, <3>2, SubSeqFacts
      <4>2. IsSeq(u)
        BY <1>6 DEF ScopesOK
      <4>3. Len(u) = 2 /\ u[1] = GlobalScope /\ u[2] = ParamScope
        BY <2>1
      <4> HIDE DEF t, u
      <4>4. \A i \in 1..2 : t[i] = u[i]
        BY <3>1, <4>1, <4>3
      <4>5. t = u
        BY <4>1, <4>2, <4>3, <4>4, IsSeqEqual
      <4> QED
        BY <4>5 DEF t, u
    <3>4. EnvOf(mem, SubSeq(s, 1, 2)) = SubSeq(EnvOf(mem, s), 1, 2)
      BY <1>7, <3>2, EnvSubSeq
    <3> QED
      BY <1>6, <3>3, <3>4
  <2>5. C!Return
    <3>1. Goes2(x.at, Len(prog) + 1)
      BY <1>8, <2>2
    <3>2. Res' \in MayHave(it.e)
      BY <2>2, <2>3
    <3> QED
      BY <1>1, <2>1, <2>4, <3>1, <3>2, ReturnIs
  <2> QED
    BY <1>2, <1>9, <2>5 DEF Follows, C!Next
<1>12. CASE x.n # ExitLabel
  <2>1. JumpOK(prog, x, y)
    BY <1>2, <1>12 DEF Running, JumpsRight
  <2>2. y.in = s /\ Env' = Env
    BY <1>6, <2>1 DEF JumpOK
  <2>3. Res' = Res
    <3>1. j \in 1..(n - 4)
      <4>1. code[n - 3].op = "label" /\ code[n - 3].n = ExitLabel /\ code[n - 2].op = "ldsp"
            /\ code[n - 1].op = "popix" /\ code[n].op = "ret"
        BY Places DEF Running
      <4>2. j # n - 3 /\ j # n - 2 /\ j # n - 1 /\ j # n
        BY <1>2, <1>12, <4>1
      <4> QED
        BY <1>3, <4>2
    <3> QED
      BY <1>8, <3>1
  <2>4. IsSeq(prog) /\ x.at \in 1..Len(prog)
    BY <2>1 DEF Running, JumpOK
  <2>5. CASE x.op = "jz"
    <3>1. Worth(it.v) \in {0, Junk}
      <4>1. it.k \in {"if", "while"} /\ k.hl = ValueOf(it.v) /\ hl \in {0, Junk}
        BY <1>1, <1>5, <2>5
      <4> HIDE DEF it, k, s
      <4>2. (it.v \in DOMAIN Lits \/ Visible(s, it.v)) /\ hl = ValueIn(mem, it.v, s)
        BY <1>10, <4>1, ValueHolds
      <4>3. hl = Worth(it.v)
        BY <1>6, <1>7, <4>2, FindIs
      <4> QED
        BY <4>1, <4>3
    <3>2. C!AfterFalse(x.at) = y.at
      BY <2>1, <2>4, <2>5, PastLoopIs, PastThenIs DEF JumpOK
    <3>3. C!Test
      BY <1>1, <1>5, <1>8, <2>2, <2>3, <2>5, <3>1, <3>2, TestIs
    <3> QED
      BY <1>2, <1>9, <3>3 DEF Follows, C!Next
  <2>6. CASE it.k = "od" /\ x.op = "jp" /\ BackTo(prog, x.at, y.at)
    <3>1. C!WhileOf(x.at) = y.at
      BY <2>4, <2>6, BackToIs
    <3>2. C!Pass
      BY <1>1, <1>8, <2>2, <2>3, <2>6, <3>1, PassIs
    <3> QED
      BY <1>2, <1>9, <3>2 DEF Follows, C!Next
  <2>7. CASE it.k = "else" /\ x.op = "jp" /\ PastElse(prog, x.at, y.at)
    <3>1. C!Min({i \in x.at..Len(prog) : C!Is(i, {"fi"}) /\ C!Nest(i) = C!Nest(x.at)}) = y.at
      BY <2>4, <2>7, PastElseIs
    <3>2. C!Pass
      BY <1>1, <1>8, <2>2, <2>3, <2>7, <3>1, PassIs
    <3> QED
      BY <1>2, <1>9, <3>2 DEF Follows, C!Next
  <2>8. CASE y.at = x.at
    <3>1. UNCHANGED C!cvars
      BY <1>1, <1>2, <2>2, <2>8, StayStep
    <3> QED
      BY <1>2, <1>9, <3>1 DEF Follows
  <2> QED
    BY <1>1, <2>1, <2>5, <2>6, <2>7, <2>8 DEF JumpOK
<1> QED
  BY <1>11, <1>12

\* The last instruction: C's function has come to its end.
LEMMA ReturnFollows ==
  ASSUME NEW K, NEW L, NEW M, Running(K, L, M), BackToCaller
  PROVE  C!Finish
<1>1. /\ code[pc].op = "ret" /\ phase = "run" /\ phase' = "stop"
      /\ UNCHANGED <<prog, code, mem, hl, passed>>
  BY DEF BackToCaller, Op, parser
<1>2. Ready(K, L) /\ Runs(K)
  BY DEF Running
<1>3. pc \in 1..Len(code) /\ pc = Len(code)
  BY <1>1, <1>2, Here DEF Runs
<1>4. code[pc].at = Pos /\ code[pc].in = <<GlobalScope, ParamScope>>
  <2>1. Len(code) \in (Len(code) - 3)..Len(code) /\ Len(code) \in 1..Len(code)
    BY <1>2, <1>3, Places
  <2> QED
    BY <1>3, <2>1, ExitPlaces
<1>5. Where.at = Pos /\ Where.in = <<GlobalScope, ParamScope>>
  BY <1>1, <1>4 DEF Where
<1>6. Pos' = Pos
  BY <1>1 DEF Pos
<1>7. (Where.at)' = Pos /\ (Where.in)' = <<GlobalScope, ParamScope>>
  BY <1>1, <1>6 DEF Where
<1>8. Env' = Env
  <2>1. \A w : Cell(w)' = Cell(w)
    BY <1>1 DEF Cell, IsAddr
  <2> QED
    BY <1>5, <1>7, <2>1 DEF Env
<1>9. Res' = Res
  BY <1>1, <1>5, <1>6, <1>7 DEF Res
<1>10. Where.at = Len(prog) + 1
  BY <1>5 DEF Pos
<1> QED
  BY <1>1, <1>5, <1>7, <1>8, <1>9, <1>10, FinishIs

\* While the parser reads, control is before the first item.
LEMMA AtStart ==
  ASSUME Begins(code[1]), pc = 1, phase \in {"read", "run"}, IsSeq(prog), prog # <<>>
  PROVE  Where.at = 1 /\ Where.in = <<GlobalScope, ParamScope>> /\ Res = Junk
<1>1. Where.at = 1 /\ Where.in = <<GlobalScope, ParamScope>>
  BY DEF Where, Begins
<1>2. Pos # 1
  <2>1. Len(prog) \in Nat /\ Len(prog) # 0
    BY SeqFacts
  <2> QED
    BY <2>1 DEF Pos
<1> QED
  BY <1>1, <1>2 DEF Res

\* A step of the parser reads an item of C's.
LEMMA ItemRead ==
  ASSUME Compile
  PROVE  /\ phase = "read" /\ UNCHANGED <<pc, mem, hl, passed>>
         /\ \E it \in Simple \cup [k : {"{", "}", "else", "fi", "od", "empty"}, v : {"none"}, e : {"none"}]
                      \cup [k : {"if", "while"}, v : Conds, e : {"none"}] :
              prog' = Append(prog, it)
<1> DEFINE its == Simple \cup [k : {"{", "}", "else", "fi", "od", "empty"}, v : {"none"}, e : {"none"}]
                      \cup [k : {"if", "while"}, v : Conds, e : {"none"}]
<1>1. phase = "read" /\ UNCHANGED machine /\ UNCHANGED passed
  BY DEF Compile, Declare, SimpleStatement, Statement, OpenBlock, CloseBlock, CloseBody,
         While, EndWhile, If, EndThenElse, EndThen, EndElse, Reading
<1>2. \A k \in {"{", "}", "else", "fi", "od", "empty"} : Item(k, "none", "none") \in its
  BY DEF Item
<1>3. \A k \in {"if", "while"}, c \in Conds : Item(k, c, "none") \in its
  BY DEF Item
<1>4. Simple \subseteq its
  OBVIOUS
<1> HIDE DEF its
<1>5. \E it \in its : prog' = Append(prog, it)
  <2>1. CASE Declare
    BY <1>4, <2>1 DEF Declare, Read
  <2>2. CASE SimpleStatement
    BY <1>2, <1>4, <2>2 DEF SimpleStatement, Assign, Call, Return, Empty, Read
  <2>3. CASE OpenBlock \/ CloseBlock \/ CloseBody
    BY <1>2, <2>3 DEF OpenBlock, CloseBlock, CloseBody, Read
  <2>4. CASE While \/ If
    BY <1>3, <2>4 DEF While, If, Read
  <2>5. CASE EndWhile \/ EndThenElse \/ EndThen \/ EndElse
    BY <1>2, <2>5 DEF EndWhile, EndThenElse, EndThen, EndElse, Read
  <2> QED
    BY <2>1, <2>2, <2>3, <2>4, <2>5 DEF Compile
<1> QED
  BY <1>1, <1>5 DEF machine, its

\* The first instruction belongs to the first item.
ReadsBegun == Begins(code[1]) /\ IsSeq(prog)

\* While the parser reads, the code begins at the first item.
LEMMA ReadBegins ==
  ASSUME ReadInv, Reads
  PROVE  ReadsBegun
<1>1. 1 \in DOMAIN code
  BY ReadSettled
<1>2. code # <<>>
  BY <1>1
<1> QED
  BY <1>2 DEF Reads, ReadChain, Chain, ReadsBegun

\* Reading is reading for C too.
LEMMA ReadIs ==
  ASSUME Compile, phase' \in {"read", "run"}, pc = 1, prog # <<>>, IsSeq(prog), IsSeq(prog'),
         Begins(code[1]), Begins(code'[1])
  PROVE  C!Read
<1>1. /\ phase = "read" /\ UNCHANGED <<pc, mem, hl, passed>>
      /\ \E it \in Simple \cup [k : {"{", "}", "else", "fi", "od", "empty"}, v : {"none"}, e : {"none"}]
                   \cup [k : {"if", "while"}, v : Conds, e : {"none"}] :
           prog' = Append(prog, it)
  BY ItemRead
<1>2. Where.at = 1 /\ Where.in = <<GlobalScope, ParamScope>> /\ Res = Junk
  BY <1>1, AtStart
<1>3. prog' # <<>>
  <2>1. PICK it : prog' = Append(prog, it)
    BY <1>1
  <2>2. Len(prog') = Len(prog) + 1 /\ Len(prog) \in Nat
    BY <2>1, AppendFacts, SeqFacts
  <2> QED
    BY <2>2
<1>4. (Where.at)' = 1 /\ (Where.in)' = <<GlobalScope, ParamScope>> /\ Res' = Junk
  <2>1. (Where.at)' = 1 /\ (Where.in)' = <<GlobalScope, ParamScope>>
    BY <1>1 DEF Where, Begins
  <2>2. Pos' # 1
    <3>1. Len(prog') \in Nat /\ Len(prog') # 0
      BY <1>3, SeqFacts
    <3> QED
      BY <3>1 DEF Pos
  <2> QED
    BY <2>1, <2>2 DEF Res
<1>5. \A w : Cell(w)' = Cell(w)
  BY <1>1 DEF Cell, IsAddr
<1>6. (Where.at)' = Where.at /\ (Where.in)' = Where.in /\ Res' = Res
  BY <1>2, <1>4
<1>7. Env' = Env
  BY <1>5, <1>6 DEF Env
<1> QED
  BY <1>1, <1>6, <1>7 DEF C!Read, Env, Res

\* The parser has read the brace of the body.
LEMMA BraceRead ==
  ASSUME ReadInv
  PROVE  prog # <<>>
<1>1. off \in Int /\ off <= 0 /\ 2 - off <= 2 * Cardinality(Started)
  BY ReadSettled DEF ReadInv, Settled
<1> SUFFICES ASSUME prog = <<>>
             PROVE  FALSE
  OBVIOUS
<1>2. Started = {}
  BY DEF Started
<1>3. Cardinality(Started) = 0
  BY <1>2, FS_EmptySet
<1> QED
  BY <1>1, <1>3

\* The initial states are C's.
LEMMA InitIs ==
  ASSUME Flat, Init
  PROVE  C!Init
<1>1. FrameInv /\ Reads /\ phase = "read" /\ ReadInv
  BY InitFrameInv, InitReadsOn, InitReads
<1>2. pc = 1 /\ passed = Junk /\ Len(prog) = 1
  BY DEF Init
<1>3. prog # <<>> /\ Begins(code[1]) /\ IsSeq(prog)
  BY <1>1, BraceRead, ReadBegins DEF ReadsBegun
<1>4. Where.at = 1 /\ Where.in = <<GlobalScope, ParamScope>> /\ Res = Junk
  BY <1>1, <1>2, <1>3, AtStart
<1>5. \A w : Cell(w) \in Cells
  BY <1>1, CellFacts DEF FrameInv, Held
<1>6. DOMAIN GlobalScope = Globals /\ DOMAIN ParamScope = {Params[i] : i \in DOMAIN Params}
  BY DEF GlobalScope, ParamScope
<1>7. Env = [i \in {1, 2} |-> [v \in DOMAIN Where.in[i] |-> Cell(Base + Where.in[i][v])]]
  <2>1. DOMAIN Where.in = {1, 2}
    BY <1>4
  <2> QED
    BY <2>1 DEF Env
<1>8. Len(Env) = 2
  <2>1. ScopesOK(Where.in)
    <3>1. 1 \in DOMAIN code
      BY <1>1, ReadSettled
    <3>2. IsSeq(code) /\ \A j \in 1..Len(code) : PlaceOK(code[j])
      BY <1>1 DEF Reads, ReadChain, Chain
    <3>3. DOMAIN code = 1..Len(code)
      BY <3>2, SeqFacts
    <3> QED
      BY <1>3, <1>4, <3>1, <3>2, <3>3 DEF PlaceOK, Begins
  <2>2. Env = EnvOf(mem, Where.in)
    BY <1>1, <2>1, EnvIs DEF FrameInv
  <2>3. Len(EnvOf(mem, Where.in)) = Len(Where.in)
    BY <2>1, EnvFacts DEF ScopesOK
  <2> QED
    BY <1>4, <2>2, <2>3
<1>9. Env[1] \in [Globals -> Cells]
  BY <1>4, <1>5, <1>6, <1>7
<1>10. Env[2] \in [{Params[i] : i \in DOMAIN Params} -> Cells]
  BY <1>4, <1>5, <1>6, <1>7
<1> QED
  BY <1>1, <1>2, <1>4, <1>8, <1>9, <1>10 DEF C!Init, Env, Res

-----------------------------------------------------------------------------
(* Every step *)

\* The finished function, and what is known where control is.
Proceeds ==
  /\ IsSeq(prog) /\ JumpsRight /\ Finished /\ Begins(code[1])
  /\ \E M : Linking(M) /\ Believes(M[pc], code[pc].in)
\* What the refinement needs to know.
SimInv ==
  /\ Flat /\ FrameInv
  /\ phase = "read" => Reads
  /\ phase = "run" => Proceeds

\* The last brace: nothing is known at the first instruction.
LEMMA EndsProceeds ==
  ASSUME Ends, pc = 1, code # <<>>
  PROVE  Proceeds
<1>1. Ended /\ JumpsRight /\ Finished /\ IsSeq(prog)
  BY DEF Ends, Ended
<1>2. PICK M : Linking(M) /\ M[1] = Idle
  BY <1>1, EndedLinks
<1>3. Begins(code[1])
  BY <1>1, EndedLinks
<1>4. Believes(M[pc], code[pc].in)
  BY <1>2, KindFacts, NothingHolds DEF Believes
<1> QED
  BY <1>1, <1>2, <1>3, <1>4 DEF Proceeds

\* A step of the parser.
LEMMA CompileSim ==
  ASSUME SimInv, Compile
  PROVE  SimInv' /\ C!Read
<1>1. Flat /\ FrameInv /\ phase = "read" /\ UNCHANGED pc
  BY ItemRead DEF SimInv
<1>2. ReadInv /\ pc = 1 /\ Reads
  BY <1>1 DEF FrameInv, SimInv
<1>3. FrameInv'
  BY <1>1, CompileKeeps
<1>4. Flat'
  BY <1>1 DEF Flat
<1>5. prog # <<>> /\ Begins(code[1]) /\ IsSeq(prog)
  BY <1>2, BraceRead, ReadBegins DEF ReadsBegun
<1>6. CASE phase' = "read" /\ Reads'
  <2>1. ReadInv'
    BY <1>3, <1>6 DEF FrameInv
  <2>2. ReadsBegun'
    BY <1>6, <2>1, ReadBegins, PTL
  <2>3. SimInv'
    BY <1>3, <1>4, <1>6 DEF SimInv
  <2> QED
    BY <1>2, <1>5, <1>6, <2>2, <2>3, ReadIs DEF ReadsBegun
<1>7. CASE phase' = "run" /\ Ends'
  <2>1. code' # <<>>
    <3>1. PICK K, L : Ready(K, L)'
      BY <1>3, <1>7 DEF FrameInv
    <3>2. IsSeq(code') /\ Len(code') - 4 \in 3..Len(code')
      BY <3>1 DEF Ready, Body
    <3>3. Len(code') \in Nat
      BY <3>2, SeqFacts
    <3>4. code' = <<>> <=> Len(code') = 0
      BY <3>2, SeqFacts
    <3> QED
      BY <3>2, <3>3, <3>4
  <2>2. Proceeds'
    <3>1. Ends' /\ (pc = 1)' /\ (code # <<>>)'
      BY <1>1, <1>2, <1>7, <2>1
    <3> QED
      BY <3>1, EndsProceeds, PTL
  <2>3. Begins(code'[1]) /\ IsSeq(prog')
    BY <2>2 DEF Proceeds
  <2>4. SimInv'
    BY <1>3, <1>4, <1>7, <2>2 DEF SimInv
  <2> QED
    BY <1>2, <1>5, <1>7, <2>3, <2>4, ReadIs
<1> QED
  BY <1>1, <1>2, <1>6, <1>7, CompileReads

\* A step of the machine.
LEMMA RunSim ==
  ASSUME SimInv, Run
  PROVE  SimInv' /\ (C!Next \/ UNCHANGED C!cvars)
<1>1. Flat /\ FrameInv /\ phase = "run" /\ UNCHANGED <<prog, code>>
  BY DEF SimInv, Run, LoadHL, LoadAddress, StoreWord, Push, Pop, Alloc, LinkFrame, CallOut,
         Jump, NoJump, BackToCaller, Op, parser
<1>2. Proceeds /\ Held
  BY <1>1 DEF SimInv, FrameInv
<1>3. PICK K, L : Ready(K, L) /\ Runs(K)
  BY <1>1 DEF FrameInv
<1>4. PICK M : Linking(M) /\ Believes(M[pc], code[pc].in)
  BY <1>2 DEF Proceeds
<1>5. Running(K, L, M)
  BY <1>1, <1>2, <1>3, <1>4 DEF Running, Proceeds
<1>6. Held'
  BY <1>2, <1>3, RunHeld
<1>7. FrameInv' /\ Flat'
  BY <1>1, RunKeeps DEF Flat
<1>8. CASE BackToCaller
  <2>1. C!Finish
    BY <1>5, <1>8, ReturnFollows
  <2>2. phase' = "stop"
    BY <1>8 DEF BackToCaller
  <2> QED
    BY <1>7, <2>1, <2>2 DEF SimInv, C!Next
<1>9. CASE ~BackToCaller
  <2>1. phase' = phase
    BY <1>9 DEF Run, LoadHL, LoadAddress, StoreWord, Push, Pop, Alloc, LinkFrame, CallOut,
                Jump, NoJump
  <2>2. Follows(M)
    BY <1>5, <1>6, <1>9, LoadFollows, LeaFollows, StoreFollows, PushFollows, PopFollows,
       AllocFollows, LinkFollows, CallFollows, JumpFollows, NoJumpFollows DEF Run
  <2>3. IsSeq(prog') /\ JumpsRight' /\ Finished' /\ Begins(code[1])' /\ Linking(M)'
    <3>1. prog' = prog /\ code' = code /\ Pos' = Pos
      BY <1>1 DEF Pos
    <3>2. IsSeq(prog) /\ JumpsRight /\ Finished /\ Begins(code[1])
      BY <1>2 DEF Proceeds
    <3>3. JumpsRight'
      BY <3>1, <3>2 DEF JumpsRight
    <3>4. Finished'
      BY <3>1, <3>2 DEF Finished
    <3>5. Linking(M)'
      BY <1>4, <3>1 DEF Linking
    <3>6. IsSeq(prog')
      BY <3>1, <3>2
    <3>7. Begins(code[1])'
      BY <3>1, <3>2 DEF Begins
    <3> QED
      BY <3>3, <3>4, <3>5, <3>6, <3>7
  <2>4. Proceeds'
    BY <2>2, <2>3 DEF Proceeds, Follows
  <2> QED
    BY <1>1, <1>7, <2>1, <2>2, <2>4 DEF SimInv, Follows
<1> QED
  BY <1>8, <1>9

\* A step that changes nothing.
LEMMA StutterSim ==
  ASSUME SimInv, UNCHANGED vars
  PROVE  SimInv' /\ UNCHANGED C!cvars
<1>1. UNCHANGED <<prog, code, phase, passed, pc, sp, hl, de, mem>>
  BY DEF vars, parser, machine
<1>2. FrameInv' /\ Flat'
  BY StutterKeeps DEF SimInv, Flat
<1>3. Pos' = Pos
  BY <1>1 DEF Pos
<1>4. ASSUME phase = "read"
      PROVE  Reads'
  <2>1. UNCHANGED <<ctl, mode, label, off, scopes>>
    BY DEF vars, parser
  <2>2. ReadChain /\ Structured
    BY <1>4 DEF SimInv, Reads
  <2>3. ReadChain'
    BY <1>1, <1>3, <2>1, <2>2 DEF ReadChain
  <2>4. Structured'
    BY <1>1, <1>3, <2>1, <2>2 DEF Structured, Structure
  <2> QED
    BY <2>3, <2>4 DEF Reads
<1>5. ASSUME phase = "run"
      PROVE  Proceeds'
  <2>1. IsSeq(prog) /\ JumpsRight /\ Finished /\ Begins(code[1])
    BY <1>5 DEF SimInv, Proceeds
  <2>2. PICK M : Linking(M) /\ Believes(M[pc], code[pc].in)
    BY <1>5 DEF SimInv, Proceeds
  <2>3. JumpsRight'
    BY <1>1, <1>3, <2>1 DEF JumpsRight
  <2>4. Finished'
    BY <1>1, <1>3, <2>1 DEF Finished
  <2>5. Linking(M)'
    BY <1>1, <2>2 DEF Linking
  <2>6. Believes(M[pc], code[pc].in)'
    BY <1>1, <2>2 DEF Believes
  <2>7. IsSeq(prog') /\ Begins(code'[1])
    BY <1>1, <2>1
  <2> QED
    BY <2>3, <2>4, <2>5, <2>6, <2>7 DEF Proceeds
<1>6. SimInv'
  BY <1>1, <1>2, <1>4, <1>5 DEF SimInv
<1>7. Where' = Where
  BY <1>1, <1>3 DEF Where
<1>8. Env' = Env
  <2>1. \A w : Cell(w)' = Cell(w)
    BY <1>1 DEF Cell, IsAddr
  <2> QED
    BY <1>7, <2>1 DEF Env
<1>9. Res' = Res
  BY <1>1, <1>3, <1>7 DEF Res
<1> QED
  BY <1>1, <1>6, <1>7, <1>8, <1>9, StaysIs

\* Compiling the body of a function and running its code is one of the
\* executions C allows for it: when nothing is declared inside an if or a
\* while and there are no names at file scope, every step of parser and
\* machine is a step of C's abstract machine or leaves its state alone.  The
\* tests go as they must, the calls get their arguments in the order of the
\* text, and the result is in HL.
THEOREM FrameImplementsC ==
  ASSUME Globals = {}, Conditional = FALSE
  PROVE  Spec => Implements
<1>1. Flat
  BY DEF Flat
<1>2. Init => SimInv /\ C!Init
  <2> SUFFICES ASSUME Init
               PROVE  SimInv /\ C!Init
    OBVIOUS
  <2>1. FrameInv /\ Reads /\ phase = "read"
    BY <1>1, InitFrameInv, InitReadsOn, InitReads
  <2> QED
    BY <1>1, <2>1, InitIs DEF SimInv
<1>3. SimInv /\ [Next]_vars => SimInv' /\ [C!Next]_C!cvars
  <2> SUFFICES ASSUME SimInv, [Next]_vars
               PROVE  SimInv' /\ (C!Next \/ UNCHANGED C!cvars)
    OBVIOUS
  <2>1. CASE Compile
    BY <2>1, CompileSim DEF C!Next
  <2>2. CASE Run
    BY <2>2, RunSim
  <2>3. CASE UNCHANGED vars
    BY <2>3, StutterSim
  <2> QED
    BY <2>1, <2>2, <2>3 DEF Next, Done
<1>4. Spec => C!Init /\ [][C!Next]_C!cvars
  BY <1>2, <1>3, PTL DEF Spec
<1> QED
  BY <1>4 DEF Implements, C!Spec
=============================================================================
