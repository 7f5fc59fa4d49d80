-------------------------- MODULE ToolLookupProofs --------------------------
(***************************************************************************)
(* Theorems about ToolLookup: for every way to start the driver, every     *)
(* file system and any number of changes to it, the order in which tools   *)
(* and sysroots are preferred is kept, and the tools beside the driver are *)
(* the ones that run.                                                      *)
(***************************************************************************)
EXTENDS ToolLookup, SeqLemmas

-----------------------------------------------------------------------------
(* Walking along a path *)

\* The directories on the way.
Way(from, c) ==
  CHOOSE at : at = [i \in 0..Len(c) |-> IF i = 0 THEN from ELSE Enter(at[i - 1], c[i])]
Follows(at, from, c) ==
  at = [i \in 0..Len(c) |-> IF i = 0 THEN from ELSE Enter(at[i - 1], c[i])]

\* There is a way along every path.
LEMMA WayExists ==
  ASSUME NEW from, NEW c, IsSeq(c)
  PROVE  Follows(Way(from, c), from, c)
<1> DEFINE To(at, m) == at = [i \in 0..m |-> IF i = 0 THEN from ELSE Enter(at[i - 1], c[i])]
           T == {m \in Nat : \E at : To(at, m)}
<1>1. 0 \in T
  <2>1. To([i \in 0..0 |-> from], 0)
    OBVIOUS
  <2> QED
    BY <2>1
<1>2. ASSUME NEW m \in Nat, m \in T PROVE m + 1 \in T
  <2>1. PICK at : To(at, m)
    BY <1>2
  <2> DEFINE on == [i \in 0..(m + 1) |-> IF i = m + 1 THEN Enter(at[m], c[m + 1]) ELSE at[i]]
  <2>2. ASSUME NEW i \in 0..(m + 1)
        PROVE  on[i] = IF i = 0 THEN from ELSE Enter(on[i - 1], c[i])
    <3>1. CASE i = m + 1
      BY <3>1
    <3>2. CASE i # m + 1 /\ i # 0
      <4>1. i \in 0..m /\ i - 1 \in 0..m /\ on[i] = at[i] /\ on[i - 1] = at[i - 1]
        BY <3>2
      <4>2. at[i] = Enter(at[i - 1], c[i])
        BY <2>1, <4>1, <3>2
      <4> QED
        BY <4>1, <4>2, <3>2
    <3>3. CASE i = 0 /\ i # m + 1
      BY <3>3, <2>1
    <3> QED
      BY <3>1, <3>2, <3>3
  <2>3. To(on, m + 1)
    BY <2>2
  <2> HIDE DEF on
  <2> QED
    BY <2>3
<1> HIDE DEF T
<1>3. Len(c) \in T
  BY <1>1, <1>2, SetInduction, SeqFacts
<1> QED
  BY <1>3 DEF T, Way, Follows

\* A longer path goes the same way as far as the shorter one.
LEMMA WaysAgree ==
  ASSUME NEW from, NEW c, NEW d, NEW u, NEW v, IsSeq(c), IsSeq(d),
         Len(c) <= Len(d), \A i \in 1..Len(c) : d[i] = c[i],
         Follows(u, from, c), Follows(v, from, d)
  PROVE  \A i \in 0..Len(c) : v[i] = u[i]
<1> DEFINE T == {i \in Nat : i <= Len(c) => v[i] = u[i]}
<1>0. Len(c) \in Nat /\ Len(d) \in Nat
  BY SeqFacts
<1>1. 0 \in T
  BY <1>0 DEF Follows
<1>2. ASSUME NEW i \in Nat, i \in T PROVE i + 1 \in T
  <2> SUFFICES ASSUME i + 1 <= Len(c) PROVE v[i + 1] = u[i + 1]
    OBVIOUS
  <2>1. v[i] = u[i] /\ d[i + 1] = c[i + 1]
    BY <1>0, <1>2
  <2>2. u[i + 1] = Enter(u[i], c[i + 1]) /\ v[i + 1] = Enter(v[i], d[i + 1])
    BY <1>0 DEF Follows
  <2> QED
    BY <2>1, <2>2
<1>3. \A i \in Nat : i \in T
  <2> HIDE DEF T
  <2> QED
    BY <1>1, <1>2, SetInduction
<1> QED
  BY <1>0, <1>3

\* The last component is entered from where the others lead.
LEMMA WalkOn ==
  ASSUME NEW from, NEW c, NEW x, IsSeq(c)
  PROVE  Walk(from, Append(c, x)) = Enter(Walk(from, c), x)
<1> DEFINE d == Append(c, x)
           u == Way(from, c)
           v == Way(from, d)
<1>1. /\ IsSeq(d) /\ Len(c) \in Nat /\ Len(d) = Len(c) + 1
      /\ \A i \in 1..Len(c) : d[i] = c[i]
      /\ d[Len(c) + 1] = x
  BY AppendFacts
<1>2. Follows(u, from, c) /\ Follows(v, from, d)
  BY <1>1, WayExists
<1>3. Walk(from, c) = u[Len(c)] /\ Walk(from, d) = v[Len(d)]
  BY DEF Walk, Way
<1> HIDE DEF u, v, d
<1>4. v[Len(c)] = u[Len(c)]
  BY <1>1, <1>2, WaysAgree
<1>5. v[Len(d)] = Enter(v[Len(c)], x)
  BY <1>1, <1>2 DEF Follows
<1> QED
  BY <1>3, <1>4, <1>5 DEF d

\* And no component leads nowhere else.
LEMMA WalkNowhere ==
  ASSUME NEW from
  PROVE  Walk(from, <<>>) = from
<1>1. IsSeq(<<>>)
  BY DEF IsSeq
<1>2. Follows(Way(from, <<>>), from, <<>>)
  BY <1>1, WayExists
<1>3. Way(from, <<>>)[0] = from
  BY <1>2 DEF Follows
<1> QED
  BY <1>3 DEF Walk, Way

\* A sequence is its front and its last element.
LEMMA FrontLast ==
  ASSUME NEW S, NEW s \in Seq(S), s # <<>>
  PROVE  Front(s) \in Seq(S) /\ Last(s) \in S /\ s = Append(Front(s), Last(s))
<1>1. Len(s) \in Nat \ {0}
  OBVIOUS
<1>2. /\ Front(s) \in Seq(S) /\ Len(Front(s)) = Len(s) - 1
      /\ \A i \in 1..(Len(s) - 1) : Front(s)[i] = s[i]
  <2>1. Len(s) - 1 \in 0..Len(s)
    BY <1>1
  <2>2. IsSeq(s)
    BY DEF IsSeq
  <2>3. Front(s) \in Seq(S)
    BY <1>1 DEF Front
  <2> QED
    BY <2>1, <2>2, <2>3, SubSeqFacts DEF Front
<1>3. Last(s) \in S
  BY <1>1 DEF Last
<1> DEFINE u == Append(Front(s), Last(s))
<1>4. u \in Seq(S) /\ Len(u) = Len(s)
  BY <1>1, <1>2, <1>3
<1>5. \A i \in 1..Len(s) : u[i] = s[i]
  BY <1>1, <1>2, <1>3 DEF Last
<1> HIDE DEF u
<1>6. u = s
  BY <1>4, <1>5, SeqEqual
<1> QED
  BY <1>2, <1>3, <1>6 DEF u

\* From a directory one comes to directories.
LEMMA WalkType ==
  ASSUME NEW from \in Seq(Names), NEW c \in Seq(Names)
  PROVE  Walk(from, c) \in Seq(Names)
<1> DEFINE u == Way(from, c)
           T == {i \in Nat : i <= Len(c) => u[i] \in Seq(Names)}
<1>1. Follows(u, from, c) /\ Len(c) \in Nat
  <2>1. IsSeq(c)
    BY DEF IsSeq
  <2> QED
    BY <2>1, WayExists, SeqFacts
<1> HIDE DEF u
<1>2. 0 \in T
  BY <1>1 DEF Follows
<1>3. ASSUME NEW i \in Nat, i \in T PROVE i + 1 \in T
  <2> SUFFICES ASSUME i + 1 <= Len(c) PROVE u[i + 1] \in Seq(Names)
    OBVIOUS
  <2>1. u[i] \in Seq(Names) /\ c[i + 1] \in Names
    BY <1>1, <1>3
  <2>2. u[i + 1] = Enter(u[i], c[i + 1])
    BY <1>1 DEF Follows
  <2>3. Enter(u[i], c[i + 1]) \in Seq(Names)
    <3>1. u[i] # <<>> => Front(u[i]) \in Seq(Names)
      BY <2>1, FrontLast
    <3>2. Append(u[i], c[i + 1]) \in Seq(Names)
      BY <2>1
    <3> QED
      BY <2>1, <3>1, <3>2 DEF Enter
  <2> QED
    BY <2>2, <2>3
<1>4. \A i \in Nat : i \in T
  <2> HIDE DEF T
  <2> QED
    BY <1>2, <1>3, SetInduction
<1>5. u[Len(c)] \in Seq(Names)
  BY <1>1, <1>4
<1> QED
  BY <1>5 DEF Walk, Way, u

\* The front of a sequence with one more element.
LEMMA FrontAppend ==
  ASSUME NEW S, NEW s \in Seq(S), NEW x \in S
  PROVE  Front(Append(s, x)) = s
<1> DEFINE u == Append(s, x)
<1>1. u \in Seq(S) /\ Len(u) = Len(s) + 1 /\ u # <<>> /\ Len(s) \in Nat
      /\ \A i \in 1..Len(s) : u[i] = s[i]
  OBVIOUS
<1> HIDE DEF u
<1>2. /\ Front(u) \in Seq(S) /\ Len(Front(u)) = Len(s)
      /\ \A i \in 1..Len(s) : Front(u)[i] = u[i]
  <2>1. Len(u) - 1 \in 0..Len(u)
    BY <1>1
  <2>2. IsSeq(u)
    BY <1>1 DEF IsSeq
  <2> QED
    BY <1>1, <2>1, <2>2, FrontLast, SubSeqFacts DEF Front
<1>3. Front(u) = s
  BY <1>1, <1>2, SeqEqual
<1> QED
  BY <1>3 DEF u

-----------------------------------------------------------------------------
(* Paths *)

\* Not the empty name, and so something to join to.
NotEmpty(p) == p \in Paths /\ (p.abs \/ p.c # <<>>)
Dots == {".", ".."}

\* A join is a path.
LEMMA JoinType ==
  ASSUME NEW p \in Paths, NEW c \in Seq(Names)
  PROVE  /\ Join(p, c) \in Paths /\ Join(p, c).c = p.c \o c /\ Join(p, c).abs = p.abs
         /\ Len(Join(p, c).c) = Len(p.c) + Len(c) /\ Len(p.c) \in Nat /\ Len(c) \in Nat
<1>1. p.c \in Seq(Names) /\ p.c \o c \in Seq(Names) /\ Len(p.c \o c) = Len(p.c) + Len(c)
  BY DEF Paths
<1>2. Join(p, c).c = p.c \o c /\ Join(p, c).abs = p.abs /\ Join(p, c) \in Paths
  BY <1>1 DEF Join, Paths
<1> QED
  BY <1>1, <1>2

\* A name in a directory is in that directory.
LEMMA JoinPlace ==
  ASSUME NEW cwd \in Seq(Names), NEW p \in Paths, NEW x \in Names
  PROVE  PlaceFrom(cwd, Join(p, <<x>>)) = Enter(PlaceFrom(cwd, p), x)
<1>1. /\ Join(p, <<x>>).c = p.c \o <<x>> /\ Join(p, <<x>>).abs = p.abs
      /\ p.c \in Seq(Names)
  <2>1. <<x>> \in Seq(Names)
    OBVIOUS
  <2> QED
    BY <2>1, JoinType DEF Paths
<1>2. p.c \o <<x>> = Append(p.c, x) /\ IsSeq(p.c)
  BY <1>1 DEF IsSeq
<1>3. ASSUME NEW from PROVE Walk(from, Append(p.c, x)) = Enter(Walk(from, p.c), x)
  BY <1>2, WalkOn
<1> QED
  BY <1>1, <1>2, <1>3 DEF PlaceFrom

\* zdk_dirname gives something to join to.
LEMMA DirnameType ==
  ASSUME NEW p, NotEmpty(p)
  PROVE  NotEmpty(Dirname(p))
<1>0. p.c \in Seq(Names) /\ p.abs \in BOOLEAN
  BY DEF NotEmpty, Paths
<1>1. CASE ~HasSlash(p)
  <2>1. Dirname(p) = [abs |-> FALSE, c |-> <<".">>]
    BY <1>1 DEF Dirname, Dot, Rel
  <2>2. <<".">> \in Seq(Names) /\ <<".">> # <<>>
    BY NamesAssumption
  <2> QED
    BY <2>1, <2>2 DEF NotEmpty, Paths
<1>2. CASE HasSlash(p)
  <2> DEFINE c == SubSeq(p.c, 1, IF p.c = <<>> THEN 0 ELSE Len(p.c) - 1)
  <2>1. c \in Seq(Names) /\ (Len(p.c) > 1 => c # <<>>)
    BY <1>0
  <2>2. Dirname(p) = [p EXCEPT !.c = c]
    BY <1>2 DEF Dirname
  <2> HIDE DEF c
  <2>3. Dirname(p) \in Paths /\ Dirname(p).c = c /\ Dirname(p).abs = p.abs
    BY <2>1, <2>2 DEF NotEmpty, Paths
  <2> QED
    BY <1>2, <2>1, <2>3 DEF HasSlash, NotEmpty
<1> QED
  BY <1>1, <1>2

\* And it is the directory the file is in.
LEMMA DirnamePlace ==
  ASSUME NEW cwd \in Seq(Names), NEW p \in Paths, p.c # <<>>, Last(p.c) \notin Dots
  PROVE  PlaceFrom(cwd, p) = Append(PlaceFrom(cwd, Dirname(p)), Last(p.c))
<1>0. p.c \in Seq(Names) /\ p.abs \in BOOLEAN
  BY DEF Paths
<1>1. /\ Front(p.c) \in Seq(Names) /\ Last(p.c) \in Names
      /\ p.c = Append(Front(p.c), Last(p.c))
  BY <1>0, FrontLast
<1>2. ASSUME NEW from
      PROVE  Walk(from, p.c) = Append(Walk(from, Front(p.c)), Last(p.c))
  <2>1. IsSeq(Front(p.c))
    BY <1>1 DEF IsSeq
  <2>2. Walk(from, Append(Front(p.c), Last(p.c))) = Enter(Walk(from, Front(p.c)), Last(p.c))
    BY <2>1, WalkOn
  <2>3. Enter(Walk(from, Front(p.c)), Last(p.c)) = Append(Walk(from, Front(p.c)), Last(p.c))
    BY DEF Enter, Dots
  <2> QED
    BY <1>1, <2>2, <2>3
<1>3. CASE HasSlash(p)
  <2>1. Dirname(p) = [p EXCEPT !.c = Front(p.c)]
    BY <1>3 DEF Dirname, Front
  <2>2. Dirname(p).c = Front(p.c) /\ Dirname(p).abs = p.abs
    BY <2>1 DEF Paths
  <2> QED
    BY <1>2, <2>2 DEF PlaceFrom
<1>4. CASE ~HasSlash(p)
  <2>0. ~p.abs
    BY <1>4 DEF HasSlash
  <2>1. Len(p.c) = 1
    <3>1. Len(p.c) \in Nat \ {0}
      BY <1>0
    <3>2. ~(Len(p.c) > 1)
      BY <1>4 DEF HasSlash
    <3>3. \A m \in Nat \ {0} : ~(m > 1) => m = 1
      OBVIOUS
    <3> QED
      BY <3>1, <3>2, <3>3
  <2>2. Front(p.c) = <<>>
    BY <1>0, <2>1 DEF Front
  <2>3. Walk(cwd, Front(p.c)) = cwd
    BY <2>2, WalkNowhere
  <2>4. Walk(cwd, <<".">>) = cwd
    <3>1. IsSeq(<<>>)
      BY DEF IsSeq
    <3>2. ASSUME NEW x PROVE Walk(cwd, Append(<<>>, x)) = Enter(Walk(cwd, <<>>), x)
      BY <3>1, WalkOn
    <3>3. Enter(cwd, ".") = cwd
      BY DEF Enter
    <3>4. <<".">> = Append(<<>>, ".")
      OBVIOUS
    <3> QED
      BY <3>2, <3>3, <3>4, WalkNowhere
  <2>5. PlaceFrom(cwd, Dirname(p)) = cwd
    BY <1>4, <2>4 DEF Dirname, Dot, Rel, PlaceFrom
  <2> QED
    BY <1>2, <2>0, <2>3, <2>5 DEF PlaceFrom
<1> QED
  BY <1>3, <1>4

-----------------------------------------------------------------------------
(* The inductive invariant *)

\* Not there all the time, or not there ever.
Missing(p) == Place(p) \notin always
Was(p) == Place(p) \in ever

Seg(i) == IF run.path[i] = EmptyPath THEN run.argv0 ELSE Join(run.path[i], run.argv0.c)
At(i) == Append(Place(run.path[i]), run.argv0.c[1])
\* what leads the driver to itself, as in BesideDriver
Led ==
  \/ HasSlash(run.argv0)
  \/ \E i \in DOMAIN run.path :
       /\ At(i) = run.real /\ run.real \in always
       /\ \A j \in 1..(i - 1) : At(j) \notin ever \/ At(j) = run.real
       /\ i = Len(run.path) => run.path[i] # EmptyPath

Early == {"resolve", "dirs", "sysroot", "default", "died"}
\* the directories are set
Placed == stage \notin {"resolve", "dirs"}

TypesInv ==
  /\ run \in Invocations /\ set \in Settings
  /\ always \subseteq fs /\ fs \subseteq ever /\ ever \subseteq Places
  /\ changes \in 0..MaxChanges
  /\ stage \in Early \cup Tools \cup {"done"} /\ k \in Nat \ {0}
  /\ driver_path \in Paths /\ driver_dir \in Paths /\ prefix \in Paths /\ sysroot \in Paths
  /\ tool \in [Tools -> Paths]
  /\ stage \in Early => \A t \in Tools : tool[t] = None

\* The segments passed by held no driver all the time.
ResolveInv == stage = "resolve" => \A j \in 1..(k - 1) : j \in DOMAIN run.path => Missing(Seg(j))

\* The driver's own path ends in a name, and is the driver's when it was led there.
SelfInv ==
  stage # "resolve" =>
    /\ driver_path.c # <<>> /\ Last(driver_path.c) \notin Dots
    /\ Led => Place(driver_path) = run.real

DirsInv ==
  /\ stage \in {"dirs", "sysroot", "default"} => k = 1
  /\ Placed => /\ NotEmpty(driver_dir) /\ NotEmpty(prefix)
               /\ cc_name = Basename(driver_path) /\ cc_name \in Names
               /\ Led => Place(driver_dir) = Front(run.real)

SysrootInv ==
  stage = "default" =>
    set.sysroot = None /\ set.target # EmptyPath /\ Missing(Default(ToolchainNames))

\* The candidates passed by were not there all the time.
LookInv ==
  \A t \in Tools : stage = t =>
    /\ k <= Len(Candidates(t)) + 1
    /\ \A j \in 1..(k - 1) : Missing(Candidates(t)[j])

TInv ==
  /\ TypesInv /\ ResolveInv /\ SelfInv /\ DirsInv /\ SysrootInv /\ LookInv
  /\ SysrootOfName /\ OrderOfPreference

-----------------------------------------------------------------------------
(* The paths the driver makes *)

\* A join of something and a name has a slash.
LEMMA JoinNew ==
  ASSUME NEW p, NotEmpty(p), NEW c \in Seq(Names)
  PROVE  NotEmpty(Join(p, c)) /\ (c # <<>> => HasSlash(Join(p, c)))
<1>1. /\ Join(p, c) \in Paths /\ Join(p, c).abs = p.abs
      /\ Len(Join(p, c).c) = Len(p.c) + Len(c) /\ Len(p.c) \in Nat /\ Len(c) \in Nat
  BY JoinType DEF NotEmpty
<1>2. p.c \in Seq(Names) /\ Join(p, c).c \in Seq(Names) /\ (p.c # <<>> => Len(p.c) # 0)
  BY <1>1 DEF NotEmpty, Paths
<1>3. c # <<>> => Len(c) # 0
  OBVIOUS
<1>4. p.abs \/ Len(p.c) # 0
  BY <1>2 DEF NotEmpty
<1> DEFINE a == Len(p.c)
           b == Len(c)
           d == Len(Join(p, c).c)
<1>5. a \in Nat /\ b \in Nat /\ d = a + b
  BY <1>1
<1>6. Join(p, c).c = <<>> => d = 0
  BY <1>2
<1> HIDE DEF a, b, d
<1>7. (a # 0 => d # 0) /\ (a # 0 /\ b # 0 => d > 1)
  BY <1>5
<1>8. (p.abs \/ d # 0) /\ (b # 0 => p.abs \/ d > 1)
  BY <1>4, <1>7 DEF a
<1> QED
  BY <1>1, <1>3, <1>6, <1>8 DEF NotEmpty, HasSlash, b, d

\* A name has none.
LEMMA NamesBare ==
  /\ EmptyPath \in Paths /\ ~HasSlash(EmptyPath)
  /\ None \in Paths /\ ~HasSlash(None) /\ None # EmptyPath
  /\ \A x \in Names : Rel(<<x>>) \in Paths /\ ~HasSlash(Rel(<<x>>))
<1>1. EmptyPath \in Paths /\ ~HasSlash(EmptyPath) /\ Len(EmptyPath.c) = 0
  BY DEF EmptyPath, Rel, Paths, HasSlash
<1>2. None \in Paths /\ ~HasSlash(None) /\ Len(None.c) = 1
  BY NoneAssumption DEF HasSlash
<1>3. ASSUME NEW x \in Names PROVE Rel(<<x>>) \in Paths /\ ~HasSlash(Rel(<<x>>))
  BY DEF Rel, Paths, HasSlash
<1> QED
  BY <1>1, <1>2, <1>3

\* The list of candidates for cc1.
LEMMA SixOfThree ==
  ASSUME NEW a, NEW b, NEW c, NEW d, NEW l
  PROVE  <<a, a, l>> \o <<b, c, d>> = <<a, a, l, b, c, d>>
<1> DEFINE S == {a, b, c, d, l}
           u == <<a, a, l>> \o <<b, c, d>>
           v == <<a, a, l, b, c, d>>
<1>1. <<a, a, l>> \in Seq(S) /\ <<b, c, d>> \in Seq(S)
  OBVIOUS
<1>2. u \in Seq(S) /\ Len(u) = 6 /\ u[1] = a /\ u[2] = a /\ u[3] = l /\ u[4] = b /\ u[5] = c /\ u[6] = d
  BY <1>1
<1>3. v \in Seq(S) /\ Len(v) = 6 /\ v[1] = a /\ v[2] = a /\ v[3] = l /\ v[4] = b /\ v[5] = c /\ v[6] = d
  OBVIOUS
<1> HIDE DEF u, v
<1>4. Len(u) = Len(v) /\ \A i \in 1..Len(u) : u[i] = v[i]
  BY <1>2, <1>3
<1>5. u = v
  BY <1>2, <1>3, <1>4, SeqEqual
<1> QED
  BY <1>5 DEF u, v

\* The one for another tool.
LEMMA FourOfThree ==
  ASSUME NEW a, NEW b, NEW c, NEW d
  PROVE  <<a>> \o <<b, c, d>> = <<a, b, c, d>>
<1> DEFINE S == {a, b, c, d}
           u == <<a>> \o <<b, c, d>>
           v == <<a, b, c, d>>
<1>1. <<a>> \in Seq(S) /\ <<b, c, d>> \in Seq(S)
  OBVIOUS
<1>2. u \in Seq(S) /\ Len(u) = 4 /\ u[1] = a /\ u[2] = b /\ u[3] = c /\ u[4] = d
  BY <1>1
<1>3. v \in Seq(S) /\ Len(v) = 4 /\ v[1] = a /\ v[2] = b /\ v[3] = c /\ v[4] = d
  OBVIOUS
<1> HIDE DEF u, v
<1>4. Len(u) = Len(v) /\ \A i \in 1..Len(u) : u[i] = v[i]
  BY <1>2, <1>3
<1>5. u = v
  BY <1>2, <1>3, <1>4, SeqEqual
<1> QED
  BY <1>5 DEF u, v

\* The order asked for, for cc1.
LEMMA FourOfTwo ==
  ASSUME NEW a, NEW b, NEW c, NEW l
  PROVE  <<a>> \o <<l>> \o <<b, c>> = <<a, l, b, c>>
<1> DEFINE S == {a, b, c, l}
           u == <<a>> \o <<l>> \o <<b, c>>
           v == <<a, l, b, c>>
<1>1. <<a>> \in Seq(S) /\ <<l>> \in Seq(S) /\ <<b, c>> \in Seq(S)
  OBVIOUS
<1>2. u \in Seq(S) /\ Len(u) = 4 /\ u[1] = a /\ u[2] = l /\ u[3] = b /\ u[4] = c
  BY <1>1
<1>3. v \in Seq(S) /\ Len(v) = 4 /\ v[1] = a /\ v[2] = l /\ v[3] = b /\ v[4] = c
  OBVIOUS
<1> HIDE DEF u, v
<1>4. Len(u) = Len(v) /\ \A i \in 1..Len(u) : u[i] = v[i]
  BY <1>2, <1>3
<1>5. u = v
  BY <1>2, <1>3, <1>4, SeqEqual
<1> QED
  BY <1>5 DEF u, v

\* And for another tool.
LEMMA ThreeOfTwo ==
  ASSUME NEW a, NEW b, NEW c
  PROVE  <<a>> \o <<>> \o <<b, c>> = <<a, b, c>>
<1> DEFINE S == {a, b, c}
           u == <<a>> \o <<>> \o <<b, c>>
           v == <<a, b, c>>
<1>1. <<a>> \in Seq(S) /\ <<>> \in Seq(S) /\ <<b, c>> \in Seq(S)
  OBVIOUS
<1>2. u \in Seq(S) /\ Len(u) = 3 /\ u[1] = a /\ u[2] = b /\ u[3] = c
  BY <1>1
<1>3. v \in Seq(S) /\ Len(v) = 3 /\ v[1] = a /\ v[2] = b /\ v[3] = c
  OBVIOUS
<1> HIDE DEF u, v
<1>4. Len(u) = Len(v) /\ \A i \in 1..Len(u) : u[i] = v[i]
  BY <1>2, <1>3
<1>5. u = v
  BY <1>2, <1>3, <1>4, SeqEqual
<1> QED
  BY <1>5 DEF u, v

\* The five places a tool can be in.
Beside(t) == Join(driver_dir, <<t>>)
Libexec(t) == Bin(<<"libexec", cc_name, t>>)
InBin(t) == Bin(<<"bin", t>>)
InBinPrefixed(t) == Bin(<<"bin", Prefixed(t)>>)
InTarget(t) == Join(TargetDir, <<"bin", Prefixed(t)>>)
\* the ones the order is about
List(t) ==
  IF t = "cc1" THEN <<Beside(t), Libexec(t), InBin(t), InBinPrefixed(t)>>
               ELSE <<Beside(t), InBin(t), InBinPrefixed(t)>>

\* Each place is a path with a slash, and the search tries them in this order.
LEMMA CandidatesFacts ==
  ASSUME TypesInv, DirsInv, Placed, NEW t \in Tools
  PROVE  /\ \A p \in {Beside(t), Libexec(t), InBin(t), InBinPrefixed(t), InTarget(t)} :
              p \in Paths /\ HasSlash(p)
         /\ Candidates(t) = IF t = "cc1" THEN <<Beside(t), Beside(t), Libexec(t), InBin(t),
                                                InBinPrefixed(t), InTarget(t)>>
                            ELSE <<Beside(t), InBin(t), InBinPrefixed(t), InTarget(t)>>
         /\ NotEmpty(TargetDir)
<1>1. t \in Names /\ cc_name \in Names /\ Prefixed(t) \in Names /\ "bin" \in Names
      /\ "libexec" \in Names /\ NotEmpty(driver_dir) /\ NotEmpty(prefix)
  BY NamesAssumption, SettingAssumption DEF TypesInv, DirsInv, Prefixed
<1>2. set.target \in Paths
  BY SettingAssumption DEF TypesInv
<1>3. NotEmpty(TargetDir)
  <2>1. set.target.c \in Seq(Names)
    BY <1>2 DEF Paths
  <2> QED
    BY <1>1, <2>1, JoinNew DEF TargetDir
<1>4. ASSUME NEW c, c \in Seq(Names), c # <<>>, NEW p, NotEmpty(p)
      PROVE  Join(p, c) \in Paths /\ HasSlash(Join(p, c))
  BY <1>4, JoinNew DEF NotEmpty
<1>5. /\ <<t>> \in Seq(Names) /\ <<"libexec", cc_name, t>> \in Seq(Names)
      /\ <<"bin", t>> \in Seq(Names) /\ <<"bin", Prefixed(t)>> \in Seq(Names)
  BY <1>1
<1>6. <<t>> # <<>> /\ <<"libexec", cc_name, t>> # <<>> /\ <<"bin", t>> # <<>>
      /\ <<"bin", Prefixed(t)>> # <<>>
  OBVIOUS
<1>7. Beside(t) \in Paths /\ HasSlash(Beside(t))
  BY <1>1, <1>4, <1>5, <1>6 DEF Beside
<1>8. Libexec(t) \in Paths /\ HasSlash(Libexec(t))
  BY <1>1, <1>4, <1>5, <1>6 DEF Libexec, Bin
<1>9. InBin(t) \in Paths /\ HasSlash(InBin(t))
  BY <1>1, <1>4, <1>5, <1>6 DEF InBin, Bin
<1>10. InBinPrefixed(t) \in Paths /\ HasSlash(InBinPrefixed(t))
  BY <1>1, <1>4, <1>5, <1>6 DEF InBinPrefixed, Bin
<1>11. InTarget(t) \in Paths /\ HasSlash(InTarget(t))
  BY <1>3, <1>4, <1>5, <1>6 DEF InTarget
<1>12. Candidates(t) = IF t = "cc1" THEN <<Beside(t), Beside(t), Libexec(t), InBin(t),
                                           InBinPrefixed(t), InTarget(t)>>
                       ELSE <<Beside(t), InBin(t), InBinPrefixed(t), InTarget(t)>>
  <2>1. Candidates(t) = (IF t = "cc1" THEN <<Beside(t), Beside(t), Libexec(t)>>
                         ELSE <<Beside(t)>>) \o <<InBin(t), InBinPrefixed(t), InTarget(t)>>
    BY DEF Candidates, Beside, Libexec, InBin, InBinPrefixed, InTarget
  <2> DEFINE A == Beside(t)
             L == Libexec(t)
             B == InBin(t)
             C == InBinPrefixed(t)
             D == InTarget(t)
  <2> HIDE DEF A, L, B, C, D
  <2>2. <<A, A, L>> \o <<B, C, D>> = <<A, A, L, B, C, D>>
    BY SixOfThree
  <2>4. <<A>> \o <<B, C, D>> = <<A, B, C, D>>
    BY FourOfThree
  <2>5. (IF t = "cc1" THEN <<A, A, L>> ELSE <<A>>) \o <<B, C, D>>
        = IF t = "cc1" THEN <<A, A, L, B, C, D>> ELSE <<A, B, C, D>>
    BY <2>2, <2>4
  <2> QED
    BY <2>1, <2>5 DEF A, L, B, C, D
<1> QED
  BY <1>3, <1>7, <1>8, <1>9, <1>10, <1>11, <1>12

OrderOfList ==
  \A t \in Tools : tool[t] # None =>
    IF set.env[t] # None THEN tool[t] = set.env[t] ELSE FirstOf(tool[t], List(t))

\* So the order asked for is an order of this list.
LEMMA PreferenceList == OrderOfPreference <=> OrderOfList
<1>1. ASSUME NEW t \in Tools
      PROVE  << Join(driver_dir, <<t>>) >>
               \o (IF t = "cc1" THEN << Bin(<<"libexec", cc_name, t>>) >> ELSE <<>>)
               \o << Bin(<<"bin", t>>), Bin(<<"bin", Prefixed(t)>>) >> = List(t)
  <2> DEFINE A == Join(driver_dir, <<t>>)
             L == Bin(<<"libexec", cc_name, t>>)
             B == Bin(<<"bin", t>>)
             C == Bin(<<"bin", Prefixed(t)>>)
  <2>2. List(t) = IF t = "cc1" THEN <<A, L, B, C>> ELSE <<A, B, C>>
    BY DEF List, Beside, Libexec, InBin, InBinPrefixed
  <2> HIDE DEF A, L, B, C
  <2>1. <<A>> \o <<L>> \o <<B, C>> = <<A, L, B, C>>
    BY FourOfTwo
  <2>4. <<A>> \o <<>> \o <<B, C>> = <<A, B, C>>
    BY ThreeOfTwo
  <2>3. <<A>> \o (IF t = "cc1" THEN <<L>> ELSE <<>>) \o <<B, C>>
        = IF t = "cc1" THEN <<A, L, B, C>> ELSE <<A, B, C>>
    BY <2>1, <2>4
  <2> QED
    BY <2>2, <2>3 DEF A, L, B, C
<1> QED
  BY <1>1 DEF OrderOfPreference, OrderOfList

-----------------------------------------------------------------------------
(* What time does not change *)

\* As FirstOf, of any file system.
FirstIn(cwd, there, was, p, places) ==
  \A i \in DOMAIN places :
    /\ PlaceFrom(cwd, places[i]) \in there => \E j \in 1..i : p = places[j]
    /\ p = places[i] => PlaceFrom(cwd, p) \in was

\* Every step of every process.
Onward == run' = run /\ set' = set /\ always' \subseteq always /\ ever \subseteq ever'

\* The first of a list stays the first.
LEMMA FirstStays ==
  ASSUME NEW cwd, NEW there, NEW was, NEW there1, NEW was1,
         there1 \subseteq there, was \subseteq was1,
         NEW p, NEW places, FirstIn(cwd, there, was, p, places)
  PROVE  FirstIn(cwd, there1, was1, p, places)
  BY DEF FirstIn

\* What leads the driver to itself later did so before.
LEMMA LedBefore ==
  ASSUME Onward, Led'
  PROVE  Led
<1>1. CASE HasSlash(run'.argv0)
  BY <1>1 DEF Onward, Led
<1>2. CASE ~HasSlash(run'.argv0)
  <2>1. PICK i \in DOMAIN run.path :
          /\ Append(PlaceFrom(run.cwd, run.path[i]), run.argv0.c[1]) = run.real
          /\ run.real \in always'
          /\ \A j \in 1..(i - 1) :
               \/ Append(PlaceFrom(run.cwd, run.path[j]), run.argv0.c[1]) \notin ever'
               \/ Append(PlaceFrom(run.cwd, run.path[j]), run.argv0.c[1]) = run.real
          /\ i = Len(run.path) => run.path[i] # EmptyPath
    BY <1>2 DEF Led, At, Place, Onward
  <2>2. run.real \in always /\ \A x : x \notin ever' => x \notin ever
    BY <2>1 DEF Onward
  <2> QED
    BY <2>1, <2>2 DEF Led, At, Place
<1> QED
  BY <1>1, <1>2

\* The order is kept while the directories and the tools stay.
LEMMA OrderStays ==
  ASSUME OrderOfPreference, Onward, UNCHANGED <<dirs, tool>>
  PROVE  OrderOfPreference'
<1>1. ASSUME NEW t \in Tools PROVE List(t)' = List(t)
  BY DEF Onward, dirs, List, Beside, Libexec, InBin, InBinPrefixed, Bin, Prefixed
<1>2. ASSUME NEW t \in Tools, tool'[t] # None
      PROVE  IF set'.env[t] # None THEN tool'[t] = set'.env[t]
             ELSE FirstIn(run'.cwd, always', ever', tool'[t], List(t)')
  <2>1. IF set.env[t] # None THEN tool[t] = set.env[t]
        ELSE FirstIn(run.cwd, always, ever, tool[t], List(t))
    BY <1>2, PreferenceList DEF OrderOfList, FirstOf, FirstIn, Place
  <2>2. ASSUME NEW p, NEW l, FirstIn(run.cwd, always, ever, p, l)
        PROVE  FirstIn(run.cwd, always', ever', p, l)
    BY <2>2, FirstStays DEF Onward
  <2> QED
    BY <1>1, <2>1, <2>2 DEF Onward
<1>3. OrderOfList'
  BY <1>2 DEF OrderOfList, FirstOf, FirstIn, Place
<1>4. (OrderOfPreference <=> OrderOfList)'
  BY PreferenceList, PTL
<1> QED
  BY <1>3, <1>4

\* And the sysroot's.
LEMMA SysrootStays ==
  ASSUME SysrootOfName, Onward, UNCHANGED <<dirs, sysroot>>,
         stage' \in Tools \cup {"done"} => stage \in Tools \cup {"done"}
  PROVE  SysrootOfName'
<1> SUFFICES ASSUME stage' \in Tools \cup {"done"}, set'.sysroot = None
             PROVE  LET shared == Join(TargetDir, <<"sysroot">>)'
                        named == Join(TargetDir, <<cc_name, "sysroot">>)'
                    IN /\ FirstIn(run'.cwd, always', ever', sysroot', <<named, shared>>)
                       /\ sysroot' \in {named, shared, None}
  BY DEF SysrootOfName, Onward, FirstOf, FirstIn, Place
<1> DEFINE shared == Join(TargetDir, <<"sysroot">>)
           named == Join(TargetDir, <<cc_name, "sysroot">>)
<1>1. FirstIn(run.cwd, always, ever, sysroot, <<named, shared>>)
      /\ sysroot \in {named, shared, None}
  BY DEF SysrootOfName, Onward, FirstOf, FirstIn, Place
<1>2. shared' = shared /\ named' = named
  BY DEF Onward, dirs, TargetDir
<1> HIDE DEF shared, named
<1>3. FirstIn(run.cwd, always', ever', sysroot, <<named, shared>>)
  BY <1>1, FirstStays DEF Onward
<1>4. FirstIn(run'.cwd, always', ever', sysroot', <<named', shared'>>)
      /\ sysroot' \in {named', shared', None}
  BY <1>1, <1>2, <1>3 DEF Onward
<1> QED
  BY <1>4 DEF shared, named

-----------------------------------------------------------------------------
(* Every step keeps the invariant *)

\* At first nothing is found.
LEMMA InitInv == Init => TInv
<1> SUFFICES ASSUME Init PROVE TInv
  OBVIOUS
<1>1. TypesInv
  BY NamesBare, ChangesAssumption DEF Init, TypesInv, Early
<1>2. ResolveInv
  BY DEF Init, ResolveInv
<1>3. SelfInv /\ DirsInv /\ SysrootInv /\ LookInv
  BY DEF Init, SelfInv, DirsInv, SysrootInv, LookInv, Placed, Tools
<1>4. SysrootOfName /\ OrderOfPreference
  BY DEF Init, SysrootOfName, OrderOfPreference, Tools
<1> QED
  BY <1>1, <1>2, <1>3, <1>4 DEF TInv

\* Before a tool is looked for nothing is said of one.
LEMMA NothingYet ==
  ASSUME TypesInv', stage' \in Early
  PROVE  LookInv' /\ SysrootOfName' /\ OrderOfPreference'
<1>1. LookInv' /\ SysrootOfName'
  BY DEF Early, LookInv, SysrootOfName, Tools
<1>2. \A t \in Tools : tool'[t] = None
  BY DEF TypesInv
<1> QED
  BY <1>1, <1>2 DEF OrderOfPreference

\* The driver's own path is settled.
LEMMA FoundInv ==
  ASSUME TInv, stage = "resolve", NEW p \in Paths, Found(p),
         p.c # <<>>, Last(p.c) \notin Dots, Led => Place(p) = run.real
  PROVE  TInv'
<1>1. stage' = "dirs" /\ k' = 1 /\ driver_path' = p /\ Onward
  BY DEF Found, world, Onward, TInv, TypesInv
<1>2. TypesInv'
  BY DEF TInv, TypesInv, Found, world, Early, Tools
<1>3. ResolveInv'
  BY <1>1 DEF ResolveInv
<1>4. SelfInv'
  <2>1. Led' => Led
    BY <1>1, LedBefore
  <2>2. Place(driver_path)' = Place(p) /\ run' = run
    BY <1>1 DEF Place, Onward
  <2> QED
    BY <1>1, <2>1, <2>2 DEF SelfInv
<1>5. DirsInv' /\ SysrootInv'
  BY <1>1 DEF DirsInv, SysrootInv, Placed
<1>6. LookInv' /\ SysrootOfName' /\ OrderOfPreference'
  BY <1>1, <1>2, NothingYet DEF Early
<1> QED
  BY <1>2, <1>3, <1>4, <1>5, <1>6 DEF TInv

\* What a name on PATH leads to.
LEMMA SegPlace ==
  ASSUME TypesInv, ~HasSlash(run.argv0), NEW j \in DOMAIN run.path
  PROVE  /\ Seg(j) \in Paths /\ Seg(j).c # <<>> /\ Last(Seg(j).c) \notin Dots
         /\ Seg(j) # EmptyPath /\ Place(Seg(j)) = At(j)
<1>1. /\ run.argv0 \in Paths /\ run.argv0.c # <<>> /\ Last(run.argv0.c) \notin Dots
      /\ run.cwd \in Seq(Names) /\ run.path \in Seq(Paths)
  BY InvocationAssumption DEF TypesInv, Dots
<1> DEFINE x == run.argv0.c[1]
<1>2. run.argv0 = Rel(<<x>>) /\ x \in Names /\ Last(run.argv0.c) = x
  <2>1. run.argv0.c \in Seq(Names) /\ ~run.argv0.abs /\ run.argv0.abs \in BOOLEAN
    BY <1>1 DEF Paths, HasSlash
  <2>2. Len(run.argv0.c) = 1
    <3>1. Len(run.argv0.c) \in Nat \ {0}
      BY <1>1, <2>1
    <3>2. ~(Len(run.argv0.c) > 1)
      BY DEF HasSlash
    <3>3. \A m \in Nat \ {0} : ~(m > 1) => m = 1
      OBVIOUS
    <3> QED
      BY <3>1, <3>2, <3>3
  <2>3. run.argv0.c = <<x>> /\ x \in Names /\ Last(run.argv0.c) = x
    <3>1. x \in Names /\ Last(run.argv0.c) = x
      BY <2>1, <2>2 DEF Last
    <3>2. <<x>> \in Seq(Names) /\ Len(<<x>>) = 1 /\ <<x>>[1] = x
      BY <3>1
    <3> QED
      BY <2>1, <2>2, <3>1, <3>2, SeqEqual
  <2>4. run.argv0 = [abs |-> run.argv0.abs, c |-> run.argv0.c]
    BY <1>1 DEF Paths
  <2>5. run.argv0.abs = FALSE
    BY <2>1
  <2> QED
    BY <2>3, <2>4, <2>5 DEF Rel
<1>3. x \notin Dots
  BY <1>1, <1>2
<1> HIDE DEF x
<1>4. ASSUME NEW d, d \in Seq(Names) PROVE Enter(d, x) = Append(d, x)
  BY <1>3 DEF Enter, Dots
<1>5. CASE run.path[j] = EmptyPath
  <2>1. Seg(j) = run.argv0
    BY <1>5 DEF Seg
  <2>2. Seg(j) # EmptyPath
    BY <1>1, <2>1 DEF EmptyPath, Rel
  <2>3. Place(Seg(j)) = Walk(run.cwd, <<x>>)
    BY <1>2, <2>1 DEF Place, PlaceFrom, Rel
  <2>4. Walk(run.cwd, <<x>>) = Append(run.cwd, x)
    <3>1. IsSeq(<<>>) /\ <<x>> = Append(<<>>, x)
      BY DEF IsSeq
    <3>2. Walk(run.cwd, Append(<<>>, x)) = Enter(Walk(run.cwd, <<>>), x)
      BY <3>1, WalkOn
    <3> QED
      BY <1>1, <1>4, <3>1, <3>2, WalkNowhere
  <2>5. At(j) = Append(run.cwd, x)
    <3>1. Place(EmptyPath) = run.cwd
      BY WalkNowhere DEF Place, PlaceFrom, EmptyPath, Rel
    <3> QED
      BY <1>5, <3>1 DEF At, x
  <2> QED
    BY <1>1, <2>1, <2>2, <2>3, <2>4, <2>5
<1>6. CASE run.path[j] # EmptyPath
  <2> DEFINE q == run.path[j]
  <2>1. q \in Paths
    BY <1>1
  <2>2. Seg(j) = Join(q, <<x>>)
    BY <1>2, <1>6 DEF Seg, Rel
  <2>3. q.c \in Seq(Names) /\ q = [abs |-> q.abs, c |-> q.c]
    BY <2>1 DEF Paths
  <2>4. NotEmpty(q)
    BY <1>6, <2>1, <2>3 DEF NotEmpty, EmptyPath, Rel, Paths
  <2> HIDE DEF q
  <2>5. Join(q, <<x>>) \in Paths /\ HasSlash(Join(q, <<x>>)) /\ Join(q, <<x>>).c = q.c \o <<x>>
    <3>1. <<x>> \in Seq(Names) /\ <<x>> # <<>>
      BY <1>2
    <3> QED
      BY <2>1, <2>4, <3>1, JoinNew, JoinType DEF NotEmpty
  <2>6. q.c \o <<x>> = Append(q.c, x)
    BY <1>2, <2>3
  <2>7. Append(q.c, x) # <<>> /\ Last(Append(q.c, x)) = x
    BY <1>2, <2>3 DEF Last
  <2>8. Seg(j) # EmptyPath
    BY <2>2, <2>5, NamesBare
  <2>9. Place(Seg(j)) = Append(Place(q), x)
    <3>1. PlaceFrom(run.cwd, Join(q, <<x>>)) = Enter(PlaceFrom(run.cwd, q), x)
      BY <1>1, <1>2, <2>1, JoinPlace
    <3>2. PlaceFrom(run.cwd, q) \in Seq(Names)
      <4>1. <<>> \in Seq(Names)
        OBVIOUS
      <4> QED
        BY <1>1, <2>3, <4>1, WalkType DEF PlaceFrom
    <3> QED
      BY <1>4, <2>2, <3>1, <3>2 DEF Place
  <2>10. At(j) = Append(Place(q), x)
    BY DEF At, x, q
  <2> QED
    BY <1>3, <2>2, <2>5, <2>6, <2>7, <2>8, <2>9, <2>10
<1> QED
  BY <1>5, <1>6

\* A name with a slash is the driver's own.
LEMMA ByNameInv ==
  ASSUME TInv, ByName
  PROVE  TInv'
<1>1. run \in Invocations /\ stage = "resolve" /\ HasSlash(run.argv0) /\ Found(run.argv0)
  BY DEF TInv, TypesInv, ByName
<1>2. /\ run.argv0 \in Paths /\ run.argv0.c # <<>> /\ Last(run.argv0.c) \notin Dots
      /\ Place(run.argv0) = run.real
  BY <1>1, InvocationAssumption DEF Dots, Place
<1> QED
  BY <1>1, <1>2, FoundInv

\* One step along PATH.
LEMMA OnPathInv ==
  ASSUME TInv, OnPath
  PROVE  TInv'
<1>1. /\ stage = "resolve" /\ ~HasSlash(run.argv0) /\ k <= Len(run.path)
      /\ k \in Nat \ {0} /\ run.path \in Seq(Paths) /\ TypesInv
  BY InvocationAssumption DEF TInv, TypesInv, OnPath, SegmentLeft
<1>2. k \in DOMAIN run.path /\ DOMAIN run.path = 1..Len(run.path) /\ Len(run.path) \in Nat
  BY <1>1
<1>3. Segment = Seg(k)
  BY DEF Segment, Seg
<1>4. \A j \in DOMAIN run.path :
        /\ Seg(j) \in Paths /\ Seg(j).c # <<>> /\ Last(Seg(j).c) \notin Dots
        /\ Seg(j) # EmptyPath /\ Place(Seg(j)) = At(j)
  BY <1>1, SegPlace
<1>5. CASE FileExists(Segment)
  <2>1. Place(Seg(k)) \in ever
    BY <1>3, <1>5 DEF FileExists, TInv, TypesInv
  <2>2. ASSUME Led PROVE Place(Seg(k)) = run.real
    <3>1. PICK i \in DOMAIN run.path :
            /\ At(i) = run.real /\ run.real \in always
            /\ \A j \in 1..(i - 1) : At(j) \notin ever \/ At(j) = run.real
      BY <1>1, <2>2 DEF Led
    <3>2. ~(i < k)
      <4>1. ASSUME i < k PROVE FALSE
        <5>1. i \in 1..(k - 1)
          BY <1>1, <1>2, <4>1
        <5>2. Place(Seg(i)) \notin always
          BY <1>1, <5>1 DEF TInv, ResolveInv, Missing
        <5> QED
          BY <1>4, <3>1, <5>2
      <4> QED
        BY <4>1
    <3>3. CASE i = k
      BY <1>2, <1>4, <3>1, <3>3
    <3>4. CASE k < i
      <4>1. k \in 1..(i - 1)
        BY <1>1, <1>2, <3>4
      <4> QED
        BY <1>2, <1>4, <2>1, <3>1, <4>1
    <3> QED
      BY <1>1, <1>2, <3>2, <3>3, <3>4
  <2>3. Found(Seg(k))
    BY <1>3, <1>5 DEF OnPath
  <2> QED
    BY <1>1, <1>2, <1>4, <2>2, <2>3, FoundInv
<1>6. CASE ~FileExists(Segment)
  <2>1. k' = k + 1 /\ UNCHANGED <<run, set, world, stage, dirs, sysroot, tool>>
    BY <1>6 DEF OnPath, NextSegment
  <2>2. TypesInv'
    BY <1>1, <2>1 DEF TypesInv, dirs, world
  <2>3. ResolveInv'
    <3>1. Place(Seg(k)) \notin always
      BY <1>1, <1>2, <1>3, <1>4, <1>6 DEF FileExists, TypesInv
    <3>2. \A j \in 1..k : j \in DOMAIN run.path => Place(Seg(j)) \notin always
      <4>1. \A j \in 1..k : j \in 1..(k - 1) \/ j = k
        BY <1>1
      <4> QED
        BY <1>1, <3>1, <4>1 DEF TInv, ResolveInv, Missing
    <3>3. k' - 1 = k
      BY <1>1, <2>1
    <3>4. \A j : Place(Seg(j))' = Place(Seg(j))
      BY <2>1 DEF Place, Seg
    <3> QED
      BY <2>1, <3>2, <3>3, <3>4 DEF ResolveInv, Missing, world
  <2>4. SelfInv' /\ DirsInv' /\ SysrootInv'
    BY <1>1, <2>1 DEF SelfInv, DirsInv, SysrootInv, Placed
  <2>5. LookInv' /\ SysrootOfName' /\ OrderOfPreference'
    BY <1>1, <2>1, <2>2, NothingYet DEF Early
  <2> QED
    BY <2>2, <2>3, <2>4, <2>5 DEF TInv
<1> QED
  BY <1>5, <1>6

\* Not on PATH, the driver takes its name for a file of the working directory.
LEMMA NotOnPathInv ==
  ASSUME TInv, NotOnPath
  PROVE  TInv'
<1>1. /\ stage = "resolve" /\ ~HasSlash(run.argv0) /\ ~SegmentLeft /\ Found(run.argv0)
      /\ k \in Nat \ {0} /\ run.path \in Seq(Paths) /\ TypesInv
      /\ run.argv0 \in Paths /\ run.argv0.c # <<>> /\ Last(run.argv0.c) \notin Dots
  BY InvocationAssumption DEF TInv, TypesInv, NotOnPath, Dots
<1>2. ASSUME Led PROVE FALSE
  <2>1. PICK i \in DOMAIN run.path :
          /\ At(i) = run.real /\ run.real \in always
          /\ i = Len(run.path) => run.path[i] # EmptyPath
    BY <1>1, <1>2 DEF Led
  <2>2. i \in 1..Len(run.path) /\ Len(run.path) \in Nat
    BY <1>1, <2>1
  <2>3. i < k
    <3>1. k > Len(run.path) \/ (k = Len(run.path) /\ run.path[k] = EmptyPath)
      BY <1>1, <2>2 DEF SegmentLeft
    <3>2. k = Len(run.path) /\ run.path[k] = EmptyPath => i # k
      BY <2>1
    <3> QED
      BY <1>1, <2>2, <3>1, <3>2
  <2>4. Place(Seg(i)) \notin always
    <3>1. i \in 1..(k - 1)
      BY <1>1, <2>2, <2>3
    <3> QED
      BY <1>1, <2>1, <3>1 DEF TInv, ResolveInv, Missing
  <2> QED
    BY <1>1, <2>1, <2>4, SegPlace
<1> QED
  BY <1>1, <1>2, FoundInv

\* The directories are taken from the path.
LEMMA DirsStepInv ==
  ASSUME TInv, Dirs
  PROVE  TInv'
<1>1. /\ stage = "dirs" /\ stage' = "sysroot" /\ k' = k /\ k = 1
      /\ driver_dir' = Dirname(driver_path)
      /\ cc_name' = Basename(driver_path) /\ prefix' = Dirname(Dirname(Dirname(driver_path)))
      /\ UNCHANGED <<run, set, world, driver_path, sysroot, tool>>
  BY DEF Dirs, TInv, DirsInv
<1>2. /\ TypesInv /\ driver_path \in Paths /\ driver_path.c # <<>>
      /\ Last(driver_path.c) \notin Dots /\ (Led => Place(driver_path) = run.real)
  BY <1>1 DEF TInv, TypesInv, SelfInv
<1>3. NotEmpty(driver_dir') /\ NotEmpty(prefix') /\ cc_name' \in Names
  <2>1. NotEmpty(driver_path)
    BY <1>2 DEF NotEmpty
  <2>2. NotEmpty(Dirname(driver_path))
    BY <2>1, DirnameType
  <2>3. NotEmpty(Dirname(Dirname(driver_path)))
    BY <2>2, DirnameType
  <2>4. NotEmpty(Dirname(Dirname(Dirname(driver_path))))
    BY <2>3, DirnameType
  <2>5. Basename(driver_path) \in Names
    <3>1. driver_path.c \in Seq(Names)
      BY <1>2 DEF Paths
    <3> QED
      BY <1>2, <3>1, FrontLast DEF Basename
  <2> QED
    BY <1>1, <2>2, <2>4, <2>5
<1>4. TypesInv'
  BY <1>1, <1>2, <1>3 DEF TypesInv, NotEmpty, world, Early
<1>5. Led' => Led
  BY <1>1, LedBefore DEF Onward, world, TInv, TypesInv
<1>6. SelfInv'
  BY <1>1, <1>2, <1>5 DEF SelfInv, Place
<1>7. DirsInv'
  <2>1. ASSUME Led PROVE Place(Dirname(driver_path)) = Front(run.real)
    <3>1. run.cwd \in Seq(Names)
      BY <1>2, InvocationAssumption DEF TypesInv
    <3>2. Place(driver_path) = Append(Place(Dirname(driver_path)), Last(driver_path.c))
      BY <1>2, <3>1, DirnamePlace DEF Place
    <3>3. Place(Dirname(driver_path)) \in Seq(Names) /\ Last(driver_path.c) \in Names
      <4>1. Dirname(driver_path).c \in Seq(Names) /\ <<>> \in Seq(Names)
        BY <1>1, <1>3 DEF NotEmpty, Paths
      <4> QED
        BY <1>1, <1>3, <3>1, <4>1, WalkType DEF Place, PlaceFrom, Basename
    <3>4. Front(Append(Place(Dirname(driver_path)), Last(driver_path.c)))
            = Place(Dirname(driver_path))
      BY <3>3, FrontAppend
    <3>5. Place(driver_path) = run.real
      BY <1>2, <2>1
    <3> QED
      BY <3>2, <3>4, <3>5
  <2>2. Place(driver_dir)' = Place(Dirname(driver_path)) /\ run' = run
    BY <1>1 DEF Place
  <2> QED
    BY <1>1, <1>3, <1>5, <2>1, <2>2 DEF DirsInv
<1>8. ResolveInv' /\ SysrootInv' /\ LookInv' /\ SysrootOfName' /\ OrderOfPreference'
  BY <1>1, <1>4, NothingYet DEF ResolveInv, SysrootInv, Early
<1> QED
  BY <1>4, <1>6, <1>7, <1>8 DEF TInv

\* The sysroot is settled, or the next place for it is looked at.
LEMMA SysrootStepInv ==
  ASSUME TInv, stage \in {"sysroot", "default"}, NEW s \in Paths,
         NEW to \in {"died", "default", "cc1"}, Sysroot(s, to),
         to = "default" => set.sysroot = None /\ set.target # EmptyPath
                             /\ Missing(Default(ToolchainNames)),
         to = "cc1" =>
           IF set.sysroot # None THEN s = set.sysroot
           ELSE LET shared == Join(TargetDir, <<"sysroot">>)
                    named == Join(TargetDir, <<cc_name, "sysroot">>)
                IN FirstOf(s, <<named, shared>>) /\ s \in {named, shared, None}
  PROVE  TInv'
<1>1. /\ sysroot' = s /\ stage' = to /\ k' = k /\ k = 1 /\ TypesInv /\ Onward
      /\ UNCHANGED <<run, set, world, dirs, tool>>
  BY DEF Sysroot, TInv, DirsInv, TypesInv, Onward, world
<1>2. TypesInv'
  BY <1>1 DEF TypesInv, Early, Tools, world, dirs
<1>3. Led' => Led
  BY <1>1, LedBefore
<1>4. ResolveInv'
  BY <1>1 DEF ResolveInv
<1>5. SelfInv' /\ DirsInv'
  <2>1. /\ Placed /\ Placed' /\ stage # "resolve"
        /\ Place(driver_path)' = Place(driver_path) /\ Place(driver_dir)' = Place(driver_dir)
    BY <1>1 DEF Placed, Place, dirs
  <2> QED
    BY <1>1, <1>3, <2>1 DEF TInv, SelfInv, DirsInv, dirs
<1>6. SysrootInv'
  <2>1. Default(ToolchainNames)' = Default(ToolchainNames)
    BY <1>1 DEF Default, ToolchainNames, TargetDir, dirs
  <2> QED
    BY <1>1, <2>1 DEF SysrootInv, Missing, Place, world
<1>7. SysrootOfName'
  <2>1. /\ Join(TargetDir, <<"sysroot">>)' = Join(TargetDir, <<"sysroot">>)
        /\ Join(TargetDir, <<cc_name, "sysroot">>)' = Join(TargetDir, <<cc_name, "sysroot">>)
    BY <1>1 DEF TargetDir, dirs
  <2>2. \A p, l : FirstOf(p, l)' <=> FirstOf(p, l)
    BY <1>1 DEF FirstOf, Place, world
  <2> QED
    BY <1>1, <2>1, <2>2 DEF SysrootOfName, FirstOf, Place, Tools, world
<1>8. LookInv'
  BY <1>1 DEF LookInv, Tools
<1>9. OrderOfPreference'
  BY <1>1, OrderStays DEF TInv
<1> QED
  BY <1>2, <1>4, <1>5, <1>6, <1>7, <1>8, <1>9 DEF TInv

\* The two defaults, as the driver and as the order write them.
LEMMA DefaultNames ==
  ASSUME TInv, Placed
  PROVE  /\ Default(ToolchainNames) = Join(TargetDir, <<cc_name, "sysroot">>)
         /\ Default(<<>>) = Join(TargetDir, <<"sysroot">>)
         /\ \A p \in {Default(ToolchainNames), Default(<<>>)} :
              p \in Paths /\ p \notin {None, EmptyPath}
<1>1. ASSUME NEW x PROVE <<x>> \o <<"sysroot">> = <<x, "sysroot">>
  <2>1. \A y : <<x>> \o <<y>> = <<x, y>>
    BY TwoJoined
  <2> QED
    BY <2>1
<1>2. <<>> \o <<"sysroot">> = <<"sysroot">>
  OBVIOUS
<1>3. /\ Default(ToolchainNames) = Join(TargetDir, <<cc_name, "sysroot">>)
      /\ Default(<<>>) = Join(TargetDir, <<"sysroot">>)
  BY <1>1, <1>2 DEF Default, ToolchainNames
<1>4. NotEmpty(TargetDir)
  BY CandidatesFacts DEF TInv, Tools
<1>5. /\ <<cc_name, "sysroot">> \in Seq(Names) /\ <<"sysroot">> \in Seq(Names)
      /\ <<cc_name, "sysroot">> # <<>> /\ <<"sysroot">> # <<>>
  <2>1. cc_name \in Names /\ "sysroot" \in Names
    BY NamesAssumption DEF TInv, DirsInv
  <2> QED
    BY <2>1
<1>6. ASSUME NEW c, c \in Seq(Names), c # <<>>
      PROVE  Join(TargetDir, c) \in Paths /\ Join(TargetDir, c) \notin {None, EmptyPath}
  BY <1>4, <1>6, JoinNew, NamesBare DEF NotEmpty
<1> QED
  BY <1>3, <1>5, <1>6

\* The first default there is, in one look and in two.
LEMMA NamedSysrootInv ==
  ASSUME TInv, NamedSysroot
  PROVE  TInv'
<1> DEFINE named == Default(ToolchainNames)
           shared == Default(<<>>)
<1>1. /\ stage = "sysroot" /\ set.sysroot = None /\ set.target # EmptyPath
      /\ IF FileExists(named) THEN Sysroot(named, "cc1") ELSE Sysroot(None, "default")
  BY DEF NamedSysroot
<1>2. /\ named = Join(TargetDir, <<cc_name, "sysroot">>) /\ shared = Join(TargetDir, <<"sysroot">>)
      /\ named \in Paths /\ named # EmptyPath /\ None \in Paths
  BY <1>1, DefaultNames, NamesBare DEF Placed
<1> HIDE DEF named, shared
<1>3. CASE FileExists(named)
  <2>1. FirstOf(named, <<named, shared>>)
    <3>1. Place(named) \in ever
      BY <1>3 DEF FileExists, TInv, TypesInv
    <3> QED
      BY <3>1 DEF FirstOf
  <2> QED
    BY <1>1, <1>2, <1>3, <2>1, SysrootStepInv
<1>4. CASE ~FileExists(named)
  <2>1. Missing(named)
    BY <1>2, <1>4 DEF FileExists, Missing, TInv, TypesInv
  <2> QED
    BY <1>1, <1>2, <1>4, <2>1, SysrootStepInv DEF named
<1> QED
  BY <1>3, <1>4

\* The second look.
LEMMA DefaultSysrootInv ==
  ASSUME TInv, DefaultSysroot
  PROVE  TInv'
<1> DEFINE named == Default(ToolchainNames)
           shared == Default(<<>>)
           s == IF FileExists(shared) THEN shared ELSE None
<1>1. stage = "default" /\ Sysroot(s, "cc1") /\ set.sysroot = None /\ Missing(named)
  BY DEF DefaultSysroot, TInv, SysrootInv
<1>2. /\ named = Join(TargetDir, <<cc_name, "sysroot">>) /\ shared = Join(TargetDir, <<"sysroot">>)
      /\ shared \in Paths /\ shared # EmptyPath /\ None \in Paths
      /\ named # None /\ shared # None
  BY <1>1, DefaultNames, NamesBare DEF Placed
<1> HIDE DEF named, shared
<1>3. FirstOf(s, <<named, shared>>)
  <2>1. Place(shared) \in always => s = shared
    BY <1>2 DEF FileExists, TInv, TypesInv
  <2>2. s # None => s = shared /\ Place(shared) \in ever
    BY DEF FileExists, TInv, TypesInv
  <2>3. Place(named) \notin always
    BY <1>1 DEF Missing
  <2> HIDE DEF s
  <2> QED
    BY <1>2, <2>1, <2>2, <2>3 DEF FirstOf
<1>4. s \in Paths /\ s \in {named, shared, None}
  BY <1>2
<1> HIDE DEF s
<1> QED
  BY <1>1, <1>2, <1>3, <1>4, SysrootStepInv

\* No sysroot can be made, or one was asked for.
LEMMA DieInv ==
  ASSUME TInv, Die
  PROVE  TInv'
<1>1. stage = "sysroot" /\ Sysroot(None, "died") /\ None \in Paths
  BY NamesBare DEF Die
<1> QED
  BY <1>1, SysrootStepInv

\* The one asked for.
LEMMA GivenSysrootInv ==
  ASSUME TInv, GivenSysroot
  PROVE  TInv'
<1>1. stage = "sysroot" /\ Sysroot(set.sysroot, "cc1") /\ set.sysroot # None
      /\ set.sysroot \in Paths
  BY SettingAssumption DEF GivenSysroot, TInv, TypesInv
<1> QED
  BY <1>1, SysrootStepInv

\* A tool is chosen.
LEMMA ChooseInv ==
  ASSUME TInv, NEW t \in Tools, NEW p \in Paths, Choose(t, p),
         IF set.env[t] # None THEN p = set.env[t] ELSE FirstOf(p, List(t))
  PROVE  TInv'
<1>1. /\ stage = t /\ tool' = [tool EXCEPT ![t] = p] /\ k' = 1 /\ TypesInv /\ Onward
      /\ stage' \in {"as", "ld", "done"} /\ UNCHANGED <<run, set, world, dirs, sysroot>>
  BY DEF Choose, TInv, TypesInv, Onward, world, Tools
<1>2. TypesInv'
  BY <1>1 DEF TypesInv, Early, Tools, world, dirs
<1>3. Led' => Led
  BY <1>1, LedBefore
<1>4. Placed /\ Placed' /\ stage \notin Early /\ stage' \notin Early
  BY <1>1 DEF Placed, Tools, Early
<1>5. ResolveInv' /\ SysrootInv'
  BY <1>1 DEF ResolveInv, SysrootInv
<1>6. SelfInv' /\ DirsInv'
  <2>1. Place(driver_path)' = Place(driver_path) /\ Place(driver_dir)' = Place(driver_dir)
    BY <1>1 DEF Place, dirs
  <2> QED
    BY <1>1, <1>3, <1>4, <2>1 DEF TInv, SelfInv, DirsInv, dirs, Early
<1>7. SysrootOfName'
  BY <1>1, SysrootStays DEF TInv
<1>8. LookInv'
  <2>1. ASSUME NEW u \in Tools PROVE Len(Candidates(u))' \in Nat
    <3>1. Candidates(u)' = Candidates(u)
      BY <1>1 DEF Candidates, Bin, TargetDir, Prefixed, dirs
    <3>2. Candidates(u) = IF u = "cc1" THEN <<Beside(u), Beside(u), Libexec(u), InBin(u),
                                              InBinPrefixed(u), InTarget(u)>>
                          ELSE <<Beside(u), InBin(u), InBinPrefixed(u), InTarget(u)>>
      BY <1>4, CandidatesFacts DEF TInv
    <3> QED
      BY <3>1, <3>2
  <2> QED
    BY <1>1, <2>1 DEF LookInv
<1>9. OrderOfPreference'
  <2>1. ASSUME NEW u \in Tools PROVE List(u)' = List(u)
    BY <1>1 DEF dirs, List, Beside, Libexec, InBin, InBinPrefixed, Bin, Prefixed
  <2>2. \A q, l : FirstOf(q, l)' <=> FirstOf(q, l)
    BY <1>1 DEF FirstOf, Place, world
  <2>3. ASSUME NEW u \in Tools, tool'[u] # None
        PROVE  IF set.env[u] # None THEN tool'[u] = set.env[u] ELSE FirstOf(tool'[u], List(u))
    <3>1. CASE u = t
      BY <1>1, <3>1 DEF TypesInv
    <3>2. CASE u # t
      BY <1>1, <2>3, <3>2, PreferenceList DEF TInv, TypesInv, OrderOfList
    <3> QED
      BY <3>1, <3>2
  <2>4. OrderOfList'
    <3> SUFFICES ASSUME NEW u \in Tools, tool'[u] # None
                 PROVE  IF set'.env[u] # None THEN tool'[u] = set'.env[u]
                        ELSE FirstOf(tool[u], List(u))'
      BY DEF OrderOfList
    <3>1. FirstOf(tool[u], List(u))' <=> FirstOf(tool'[u], List(u))
      BY <1>1, <2>1 DEF FirstOf, Place, world
    <3> QED
      BY <1>1, <2>3, <3>1
  <2>5. (OrderOfPreference <=> OrderOfList)'
    BY PreferenceList, PTL
  <2> QED
    BY <2>4, <2>5
<1> QED
  BY <1>2, <1>5, <1>6, <1>7, <1>8, <1>9 DEF TInv

\* The one named in the environment.
LEMMA FromEnvInv ==
  ASSUME TInv, NEW t \in Tools, FromEnv(t)
  PROVE  TInv'
<1>1. set.env[t] # None /\ Choose(t, set.env[t]) /\ set.env[t] \in Paths
  BY SettingAssumption DEF FromEnv, TInv, TypesInv
<1> QED
  BY <1>1, ChooseInv

\* Where a tool is looked for, and that the order is the one asked for.
LEMMA CandidatesOrder ==
  ASSUME TInv, NEW t \in Tools, stage = t
  PROVE  /\ Len(Candidates(t)) \in Nat /\ Last0(t) \in Nat /\ Last0(t) <= Len(Candidates(t))
         /\ \A j \in 1..Len(Candidates(t)) :
              Candidates(t)[j] \in Paths /\ HasSlash(Candidates(t)[j])
         /\ \A n \in 1..Last0(t) :
              /\ Place(Candidates(t)[n]) \in ever
              /\ \A j \in 1..(n - 1) : Place(Candidates(t)[j]) \notin always
              => FirstOf(Candidates(t)[n], List(t))
         /\ \A q : /\ ~HasSlash(q)
                   /\ \A j \in 1..Last0(t) : Place(Candidates(t)[j]) \notin always
                   => FirstOf(q, List(t))
<1> DEFINE A == Beside(t)
           L == Libexec(t)
           B == InBin(t)
           C == InBinPrefixed(t)
           D == InTarget(t)
           c == Candidates(t)
           l == List(t)
           n0 == Last0(t)
<1>1. /\ \A p \in {A, L, B, C, D} : p \in Paths /\ HasSlash(p)
      /\ c = IF t = "cc1" THEN <<A, A, L, B, C, D>> ELSE <<A, B, C, D>>
  BY CandidatesFacts DEF TInv, Placed, Tools
<1>2. l = IF t = "cc1" THEN <<A, L, B, C>> ELSE <<A, B, C>>
  BY DEF List
<1>3. n0 = Len(c) \/ n0 = Len(c) - 1
  BY DEF Last0
<1> HIDE DEF A, L, B, C, D, c, l, n0
<1>4. CASE t = "cc1"
  <2>1. c = <<A, A, L, B, C, D>> /\ l = <<A, L, B, C>>
    BY <1>1, <1>2, <1>4
  <2>2. /\ Len(c) = 6 /\ c[1] = A /\ c[2] = A /\ c[3] = L /\ c[4] = B /\ c[5] = C /\ c[6] = D
    BY <2>1
  <2>3. /\ DOMAIN l = 1..4 /\ l[1] = A /\ l[2] = L /\ l[3] = B /\ l[4] = C
    BY <2>1
  <2>4. ASSUME NEW n \in 1..n0, Place(c[n]) \in ever,
               \A j \in 1..(n - 1) : Place(c[j]) \notin always
        PROVE  FirstOf(c[n], l)
    <3>1. CASE n = 1 \/ n = 2
      BY <2>2, <2>3, <2>4, <3>1 DEF FirstOf
    <3>2. CASE n = 3
      BY <2>2, <2>3, <2>4, <3>2 DEF FirstOf
    <3>3. CASE n = 4
      BY <2>2, <2>3, <2>4, <3>3 DEF FirstOf
    <3>4. CASE n = 5
      BY <2>2, <2>3, <2>4, <3>4 DEF FirstOf
    <3>5. CASE n = 6
      BY <2>2, <2>3, <2>4, <3>5 DEF FirstOf
    <3> QED
      BY <1>3, <2>2, <3>1, <3>2, <3>3, <3>4, <3>5
  <2>5. ASSUME NEW q, ~HasSlash(q), \A j \in 1..n0 : Place(c[j]) \notin always
        PROVE  FirstOf(q, l)
    <3>1. q \notin {A, L, B, C}
      BY <1>1, <2>5
    <3>2. /\ Place(A) \notin always /\ Place(L) \notin always
          /\ Place(B) \notin always /\ Place(C) \notin always
      BY <1>3, <2>2, <2>5
    <3> QED
      BY <2>3, <3>1, <3>2 DEF FirstOf
  <2>6. \A j \in 1..Len(c) : c[j] \in Paths /\ HasSlash(c[j])
    BY <1>1, <2>2
  <2> QED
    BY <1>3, <2>2, <2>4, <2>5, <2>6 DEF c, l, n0
<1>5. CASE t # "cc1"
  <2>1. c = <<A, B, C, D>> /\ l = <<A, B, C>>
    BY <1>1, <1>2, <1>5
  <2>2. /\ Len(c) = 4 /\ c[1] = A /\ c[2] = B /\ c[3] = C /\ c[4] = D
    BY <2>1
  <2>3. /\ DOMAIN l = 1..3 /\ l[1] = A /\ l[2] = B /\ l[3] = C
    BY <2>1
  <2>4. ASSUME NEW n \in 1..n0, Place(c[n]) \in ever,
               \A j \in 1..(n - 1) : Place(c[j]) \notin always
        PROVE  FirstOf(c[n], l)
    <3>1. CASE n = 1
      BY <2>2, <2>3, <2>4, <3>1 DEF FirstOf
    <3>2. CASE n = 2
      BY <2>2, <2>3, <2>4, <3>2 DEF FirstOf
    <3>3. CASE n = 3
      BY <2>2, <2>3, <2>4, <3>3 DEF FirstOf
    <3>4. CASE n = 4
      BY <2>2, <2>3, <2>4, <3>4 DEF FirstOf
    <3> QED
      BY <1>3, <2>2, <3>1, <3>2, <3>3, <3>4
  <2>5. ASSUME NEW q, ~HasSlash(q), \A j \in 1..n0 : Place(c[j]) \notin always
        PROVE  FirstOf(q, l)
    <3>1. q \notin {A, B, C}
      BY <1>1, <2>5
    <3>2. Place(A) \notin always /\ Place(B) \notin always /\ Place(C) \notin always
      BY <1>3, <2>2, <2>5
    <3> QED
      BY <2>3, <3>1, <3>2 DEF FirstOf
  <2>6. \A j \in 1..Len(c) : c[j] \in Paths /\ HasSlash(c[j])
    BY <1>1, <2>2
  <2> QED
    BY <1>3, <2>2, <2>4, <2>5, <2>6 DEF c, l, n0
<1> QED
  BY <1>4, <1>5

\* One candidate is looked at.
LEMMA LookStepInv ==
  ASSUME TInv, NEW t \in Tools, Look(t)
  PROVE  TInv'
<1> DEFINE p == Candidates(t)[k]
<1>1. /\ stage = t /\ set.env[t] = None /\ k \in 1..Last0(t) /\ TypesInv
      /\ \A j \in 1..(k - 1) : Place(Candidates(t)[j]) \notin always
  <2>1. stage = t /\ set.env[t] = None /\ k <= Last0(t) /\ k \in Nat \ {0} /\ TypesInv
    BY DEF Look, TInv, TypesInv
  <2>2. Last0(t) \in Nat
    BY <2>1, CandidatesOrder
  <2> QED
    BY <2>1, <2>2 DEF TInv, LookInv, Missing
<1>2. k \in 1..Len(Candidates(t)) /\ Len(Candidates(t)) \in Nat /\ p \in Paths /\ p # EmptyPath
  <2>1. k \in 1..Len(Candidates(t)) /\ Len(Candidates(t)) \in Nat
    BY <1>1, CandidatesOrder
  <2>2. p \in Paths /\ HasSlash(p)
    BY <1>1, <2>1, CandidatesOrder
  <2> QED
    BY <2>1, <2>2, NamesBare
<1>3. CASE FileExists(p)
  <2>1. Choose(t, p)
    BY <1>3 DEF Look
  <2>2. Place(p) \in ever
    BY <1>1, <1>3 DEF FileExists, TypesInv
  <2>3. FirstOf(p, List(t))
    BY <1>1, <2>2, CandidatesOrder
  <2> HIDE DEF p
  <2> QED
    BY <1>1, <1>2, <2>1, <2>3, ChooseInv
<1>4. CASE ~FileExists(p)
  <2>1. /\ k' = k + 1 /\ UNCHANGED <<run, set, world, stage, dirs, sysroot, tool>> /\ Onward
    BY <1>1, <1>4 DEF Look, Onward, TypesInv, world
  <2>2. TypesInv'
    BY <1>1, <2>1 DEF TypesInv, dirs, world
  <2>3. ResolveInv' /\ SysrootInv'
    BY <1>1, <2>1 DEF ResolveInv, SysrootInv, Tools
  <2>4. SelfInv' /\ DirsInv'
    <3>1. Place(driver_path)' = Place(driver_path) /\ Place(driver_dir)' = Place(driver_dir)
      BY <2>1 DEF Place, dirs
    <3>2. (Led' => Led) /\ stage' \notin {"dirs", "sysroot", "default"}
      BY <1>1, <2>1, LedBefore DEF Tools
    <3> QED
      BY <2>1, <3>1, <3>2 DEF TInv, SelfInv, DirsInv, Placed, dirs
  <2>5. LookInv'
    <3>1. Place(p) \notin always
      BY <1>1, <1>2, <1>4 DEF FileExists, TypesInv
    <3>2. \A j \in 1..k : Place(Candidates(t)[j]) \notin always
      <4>1. \A j \in 1..k : j \in 1..(k - 1) \/ j = k
        BY <1>2
      <4> QED
        BY <1>1, <3>1, <4>1
    <3>3. k' - 1 = k /\ k' <= Len(Candidates(t)) + 1
      BY <1>2, <2>1
    <3>4. Candidates(t)' = Candidates(t) /\ always' = always /\ stage' = stage
          /\ \A q : Place(q)' = Place(q)
      BY <2>1 DEF Candidates, Bin, TargetDir, Prefixed, dirs, Place, world
    <3> QED
      BY <1>1, <3>2, <3>3, <3>4 DEF LookInv, Missing
  <2>6. SysrootOfName' /\ OrderOfPreference'
    BY <2>1, OrderStays, SysrootStays DEF TInv
  <2> QED
    BY <2>2, <2>3, <2>4, <2>5, <2>6 DEF TInv
<1> QED
  BY <1>3, <1>4

\* The tool is left to PATH.
LEMMA GiveUpInv ==
  ASSUME TInv, NEW t \in Tools, GiveUp(t)
  PROVE  TInv'
<1>1. set.env[t] = None /\ k > Last0(t) /\ Choose(t, OnItsOwn(t)) /\ stage = t
      /\ k \in Nat \ {0}
  BY DEF GiveUp, Choose, TInv, TypesInv
<1>2. \A j \in 1..Last0(t) : Place(Candidates(t)[j]) \notin always
  <2>1. Last0(t) \in Nat
    BY <1>1, CandidatesOrder
  <2> QED
    BY <1>1, <2>1 DEF TInv, LookInv, Missing
<1>3. OnItsOwn(t) \in Paths /\ ~HasSlash(OnItsOwn(t))
  <2>1. t \in Names /\ Prefixed(t) \in Names
    BY NamesAssumption, SettingAssumption DEF TInv, TypesInv, Prefixed
  <2> QED
    BY <2>1, NamesBare DEF OnItsOwn
<1>4. FirstOf(OnItsOwn(t), List(t))
  BY <1>1, <1>2, <1>3, CandidatesOrder
<1> QED
  BY <1>1, <1>3, <1>4, ChooseInv

\* The driver stands still.
LEMMA IdleInv ==
  ASSUME TInv, TypesInv', Onward, UNCHANGED <<stage, k, dirs, sysroot, tool>>
  PROVE  TInv'
<1>1. UNCHANGED <<run, set, stage, k, dirs, sysroot, tool>> /\ Onward
  BY DEF Onward
<1>2. TypesInv'
  OBVIOUS
<1>3. \A p : Place(p)' = Place(p) /\ (Missing(p) => Missing(p)')
  BY <1>1 DEF Place, Missing, Onward
<1>4. ResolveInv'
  <2>1. \A j : Seg(j)' = Seg(j)
    BY <1>1 DEF Seg
  <2>2. \A j : Missing(Seg(j)) => Missing(Seg(j))'
    BY <1>1, <1>3, <2>1 DEF Missing, Place, Onward
  <2> QED
    BY <1>1, <2>2 DEF TInv, ResolveInv
<1>5. SelfInv' /\ DirsInv'
  <2>1. Place(driver_path)' = Place(driver_path) /\ Place(driver_dir)' = Place(driver_dir)
    BY <1>1 DEF Place, dirs
  <2>2. Led' => Led
    BY <1>1, LedBefore
  <2> QED
    BY <1>1, <2>1, <2>2 DEF TInv, SelfInv, DirsInv, Placed, dirs
<1>6. SysrootInv'
  <2>1. Default(ToolchainNames)' = Default(ToolchainNames)
    BY <1>1 DEF Default, ToolchainNames, TargetDir, dirs
  <2> QED
    BY <1>1, <2>1 DEF TInv, SysrootInv, Missing, Place, Onward
<1>7. LookInv'
  <2>1. \A t : Candidates(t)' = Candidates(t)
    BY <1>1 DEF Candidates, Bin, TargetDir, Prefixed, dirs
  <2>2. \A t, j : Missing(Candidates(t)[j]) => Missing(Candidates(t)[j])'
    BY <1>1, <2>1 DEF Missing, Place, Onward
  <2> QED
    BY <1>1, <2>1, <2>2 DEF TInv, LookInv
<1>8. SysrootOfName' /\ OrderOfPreference'
  BY <1>1, OrderStays, SysrootStays DEF TInv
<1> QED
  BY <1>2, <1>4, <1>5, <1>6, <1>7, <1>8 DEF TInv

\* The file system changes.
LEMMA ChangeInv ==
  ASSUME TInv, NEW to \in SUBSET Places, Change(to)
  PROVE  TInv'
<1>1. UNCHANGED <<run, set, stage, k, dirs, sysroot, tool>> /\ Onward /\ TypesInv
  BY DEF Change, Onward, TInv
<1>2. TypesInv'
  <2>1. always' \subseteq fs' /\ fs' \subseteq ever' /\ ever' \subseteq Places
    BY <1>1 DEF Change, TypesInv
  <2>2. changes' \in 0..MaxChanges
    BY <1>1, ChangesAssumption DEF Change, TypesInv
  <2> QED
    BY <1>1, <2>1, <2>2 DEF TypesInv, dirs
<1> QED
  BY <1>1, <1>2, IdleInv

\* Nothing happens.
LEMMA StutterInv ==
  ASSUME TInv, UNCHANGED vars
  PROVE  TInv'
<1>1. TypesInv' /\ Onward /\ UNCHANGED <<stage, k, dirs, sysroot, tool>>
  BY DEF TInv, vars, world, dirs, TypesInv, Onward
<1> QED
  BY <1>1, IdleInv

\* The invariant holds in every state the driver comes to.
LEMMA TInvHolds == Spec => []TInv
<1>1. Init => TInv
  BY InitInv
<1>2. ASSUME TInv, [Next]_vars PROVE TInv'
  <2>1. CASE Driver
    BY <1>2, <2>1, ByNameInv, OnPathInv, NotOnPathInv, DirsStepInv, DieInv, GivenSysrootInv,
       NamedSysrootInv, DefaultSysrootInv, FromEnvInv, LookStepInv, GiveUpInv DEF Driver
  <2>2. CASE Comes
    BY <1>2, <2>2, ChangeInv DEF Comes, TInv, TypesInv
  <2>3. CASE Goes
    BY <1>2, <2>3, ChangeInv DEF Goes, TInv, TypesInv
  <2>4. CASE UNCHANGED vars
    BY <1>2, <2>4, StutterInv
  <2> QED
    BY <1>2, <2>1, <2>2, <2>3, <2>4 DEF Next, Over
<1> QED
  BY <1>1, <1>2, PTL DEF Spec

-----------------------------------------------------------------------------
(* The theorems *)

\* The order in which tools are preferred (zdk_find_tool): the environment's,
\* the one next to the driver, the plain name, the prefixed name; none that was
\* there all the time is passed over, whatever else comes and goes.
THEOREM ToolsInOrder == Spec => []OrderOfPreference
<1>1. TInv => OrderOfPreference
  BY DEF TInv
<1> QED
  BY <1>1, TInvHolds, PTL

\* The sysroot is the one asked for, or the one of the driver's own name before
\* the shared one.
THEOREM SysrootInOrder == Spec => []SysrootOfName
<1>1. TInv => SysrootOfName
  BY DEF TInv
<1> QED
  BY <1>1, TInvHolds, PTL

\* However the driver was started, a tool beside it is the one that runs.
THEOREM ToolsBesideDriver == Spec => []BesideDriver
<1>1. ASSUME TInv PROVE BesideDriver
  <2> SUFFICES ASSUME NEW t \in Tools, tool[t] # None, set.env[t] = None,
                      Append(Front(run.real), t) \in always, Led
               PROVE  Place(tool[t]) = Append(Front(run.real), t)
    BY DEF BesideDriver, Led, At
  <2>1. Placed /\ stage # "resolve"
    BY <1>1 DEF TInv, TypesInv, Placed, Early
  <2>2. /\ Place(driver_dir) = Front(run.real) /\ driver_dir \in Paths
        /\ t \in Names /\ run.cwd \in Seq(Names)
    BY <1>1, <2>1, NamesAssumption, InvocationAssumption DEF TInv, TypesInv, DirsInv
  <2>3. Place(Beside(t)) = Append(Front(run.real), t)
    <3>1. PlaceFrom(run.cwd, Join(driver_dir, <<t>>)) = Enter(PlaceFrom(run.cwd, driver_dir), t)
      BY <2>2, JoinPlace
    <3>2. t \notin {".", ".."}
      BY DEF Tools
    <3> QED
      BY <2>2, <3>1, <3>2 DEF Beside, Place, Enter
  <2>4. FirstOf(tool[t], List(t))
    BY <1>1, PreferenceList DEF TInv, OrderOfList
  <2>5. 1 \in DOMAIN List(t) /\ List(t)[1] = Beside(t)
    BY DEF List
  <2>6. tool[t] = Beside(t)
    <3>1. \E j \in 1..1 : tool[t] = List(t)[j]
      BY <2>3, <2>4, <2>5 DEF FirstOf
    <3> QED
      BY <2>5, <3>1
  <2> QED
    BY <2>3, <2>6
<1> QED
  BY <1>1, TInvHolds, PTL

\* Every directory the driver keeps can be joined to, and no search goes past
\* the end of its list.
THEOREM TypeCorrect == Spec => []TypeOK
<1>1. ASSUME TInv PROVE TypeOK
  <2>1. stage \notin {"resolve", "dirs"} =>
          EmptyPath \notin {driver_dir, prefix} /\ cc_name = Basename(driver_path)
    <3>1. ~NotEmpty(EmptyPath)
      BY DEF NotEmpty, EmptyPath, Rel
    <3> QED
      BY <1>1, <3>1 DEF TInv, DirsInv, Placed
  <2>2. \A t \in Tools : stage = t => k <= Len(Candidates(t)) + 1
    BY <1>1 DEF TInv, LookInv
  <2>3. \A p \in {driver_path, driver_dir, prefix, sysroot} \cup {tool[t] : t \in Tools} : p \in Paths
    BY <1>1 DEF TInv, TypesInv
  <2>4. /\ run \in Invocations /\ set \in Settings
        /\ always \subseteq fs /\ fs \subseteq ever /\ ever \subseteq Places
        /\ changes \in 0..MaxChanges /\ k \in Nat \ {0}
        /\ stage \in {"resolve", "dirs", "sysroot", "default", "died", "done"} \cup Tools
    BY <1>1 DEF TInv, TypesInv, Early
  <2> QED
    BY <2>1, <2>2, <2>3, <2>4 DEF TypeOK
<1> QED
  BY <1>1, TInvHolds, PTL

=============================================================================
