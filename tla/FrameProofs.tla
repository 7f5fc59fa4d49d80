----------------------------- MODULE FrameProofs -----------------------------
(***************************************************************************)
(* For every body, however long and however nested: no label is defined    *)
(* twice and no jump is left without its label (LabelsPaired).             *)
(*                                                                         *)
(* LabelsPaired alone is not inductive.  A statement that ends defines the *)
(* labels its frame holds, so these must not be in the code yet, must not  *)
(* be another open statement's, and must be below the counter from which   *)
(* new ones come; and the jump that closes a while goes back to a label    *)
(* that must be in the code already.  LInv says so.                        *)
(***************************************************************************)
EXTENDS Frame, SeqLemmas, FiniteSetTheorems, TLAPS

HasLabel(t, l) == \E i \in DOMAIN t : t[i].op = "label" /\ t[i].n = l
HasJump(t, l) == \E i \in DOMAIN t : t[i].op \in {"jp", "jz"} /\ t[i].n = l
Once(t) == \A i, j \in DOMAIN t :
             t[i].op = "label" /\ t[j].op = "label" /\ t[i].n = t[j].n => i = j

Labels(f) == IF f.k = "block" THEN {} ELSE {f.l1, f.l2}
OwedBy(f) == IF f.k = "block" THEN {} ELSE IF f.k = "then" THEN {f.l1, f.l2} ELSE {f.l2}
Owes(c, l) == \E i \in DOMAIN c : l \in OwedBy(c[i])
Loops(c, l) == \E i \in DOMAIN c : c[i].k = "while" /\ l = c[i].l1

\* A statement of the parser holds two labels of its own, taken before n.
OpenOK(f, n) ==
  /\ DOMAIN f = {"k", "l1", "l2", "decls"}
  /\ f.k # "block" => f.l1 \in 2..(n - 1) /\ f.l2 \in 2..(n - 1) /\ f.l1 # f.l2

CtlOK(c, n) ==
  /\ IsSeq(c)
  /\ \A i \in DOMAIN c : OpenOK(c[i], n)
  /\ \A i, j \in DOMAIN c : i # j => Labels(c[i]) \cap Labels(c[j]) = {}
  /\ c # <<>> => c[1].k = "block"

CodeOK(t, n) ==
  /\ IsSeq(t) /\ Once(t)
  /\ \A l : HasLabel(t, l) \/ HasJump(t, l) => l \in 1..(n - 1)

LInv ==
  /\ label \in Nat /\ label >= 2
  /\ CtlOK(ctl, label) /\ CodeOK(code, label)
  /\ ctl = <<>> <=> phase # "read"
  /\ \A l : Owes(ctl, l) => ~HasLabel(code, l)
  /\ phase = "read" => ~HasLabel(code, ExitLabel)
  /\ \A l : HasJump(code, l) =>
       HasLabel(code, l) \/ Owes(ctl, l) \/ (phase = "read" /\ l = ExitLabel)
  /\ \A l : Loops(ctl, l) => HasLabel(code, l)

-----------------------------------------------------------------------------
(* Emitted pieces *)

\* What a piece of code, tagged with its item, defines and jumps to.
LEMMA AtFacts ==
  ASSUME NEW ops, NEW p, NEW s, IsSeq(ops)
  PROVE  /\ IsSeq(At(ops, p, s))
         /\ \A l : HasLabel(At(ops, p, s), l) <=> HasLabel(ops, l)
         /\ \A l : HasJump(At(ops, p, s), l) <=> HasJump(ops, l)
         /\ Once(ops) => Once(At(ops, p, s))
<1> DEFINE t == At(ops, p, s)
<1>1. /\ DOMAIN t = DOMAIN ops
      /\ \A i \in DOMAIN ops : t[i].op = ops[i].op /\ t[i].n = ops[i].n
  BY DEF At
<1>2. t = [i \in DOMAIN ops |-> t[i]]
  BY DEF At
<1>3. IsSeq(t)
  BY <1>2, MapFacts
<1> HIDE DEF t
<1>4. \A l : HasLabel(t, l) <=> HasLabel(ops, l)
  BY <1>1 DEF HasLabel
<1>5. \A l : HasJump(t, l) <=> HasJump(ops, l)
  BY <1>1 DEF HasJump
<1>6. Once(ops) => Once(t)
  BY <1>1 DEF Once
<1> QED
  BY <1>3, <1>4, <1>5, <1>6 DEF t

\* What two pieces define and jump to one after the other.
LEMMA JoinFacts ==
  ASSUME NEW s, NEW t, IsSeq(s), IsSeq(t)
  PROVE  /\ IsSeq(s \o t)
         /\ \A l : HasLabel(s \o t, l) <=> HasLabel(s, l) \/ HasLabel(t, l)
         /\ \A l : HasJump(s \o t, l) <=> HasJump(s, l) \/ HasJump(t, l)
         /\ Once(s) /\ Once(t) /\ (\A l : HasLabel(t, l) => ~HasLabel(s, l))
              => Once(s \o t)
<1> DEFINE r == s \o t
           m == Len(s)
           n == Len(t)
<1>1. /\ IsSeq(r) /\ m \in Nat /\ n \in Nat
      /\ DOMAIN s = 1..m /\ DOMAIN t = 1..n /\ DOMAIN r = 1..(m + n)
      /\ \A i \in 1..m : r[i] = s[i]
      /\ \A i \in 1..n : r[m + i] = t[i]
  BY ConcatFacts
<1> HIDE DEF r, m, n
<1>2. \A i \in DOMAIN r : \/ i \in 1..m /\ r[i] = s[i]
                          \/ i - m \in 1..n /\ r[i] = t[i - m]
  <2> SUFFICES ASSUME NEW i \in DOMAIN r, i \notin 1..m
               PROVE  i - m \in 1..n /\ r[i] = t[i - m]
    BY <1>1
  <2>1. i - m \in 1..n /\ i = m + (i - m)
    BY <1>1
  <2> QED
    BY <1>1, <2>1
<1>3. \A l : HasLabel(r, l) <=> HasLabel(s, l) \/ HasLabel(t, l)
  <2> TAKE l
  <2>1. HasLabel(r, l) => HasLabel(s, l) \/ HasLabel(t, l)
    BY <1>1, <1>2 DEF HasLabel
  <2>2. HasLabel(s, l) => HasLabel(r, l)
    BY <1>1 DEF HasLabel
  <2>3. ASSUME NEW i \in DOMAIN t, t[i].op = "label", t[i].n = l
        PROVE  HasLabel(r, l)
    <3>1. m + i \in DOMAIN r /\ r[m + i] = t[i]
      BY <1>1, <2>3
    <3> QED
      BY <2>3, <3>1 DEF HasLabel
  <2> QED
    BY <2>1, <2>2, <2>3 DEF HasLabel
<1>4. \A l : HasJump(r, l) <=> HasJump(s, l) \/ HasJump(t, l)
  <2> TAKE l
  <2>1. HasJump(r, l) => HasJump(s, l) \/ HasJump(t, l)
    BY <1>1, <1>2 DEF HasJump
  <2>2. HasJump(s, l) => HasJump(r, l)
    BY <1>1 DEF HasJump
  <2>3. ASSUME NEW i \in DOMAIN t, t[i].op \in {"jp", "jz"}, t[i].n = l
        PROVE  HasJump(r, l)
    <3>1. m + i \in DOMAIN r /\ r[m + i] = t[i]
      BY <1>1, <2>3
    <3> QED
      BY <2>3, <3>1 DEF HasJump
  <2> QED
    BY <2>1, <2>2, <2>3 DEF HasJump
<1>5. ASSUME Once(s), Once(t), \A l : HasLabel(t, l) => ~HasLabel(s, l)
      PROVE  Once(r)
  <2> SUFFICES ASSUME NEW i \in DOMAIN r, NEW j \in DOMAIN r,
                      r[i].op = "label", r[j].op = "label", r[i].n = r[j].n
               PROVE  i = j
    BY DEF Once
  <2>1. CASE i \in 1..m /\ j \in 1..m
    BY <1>1, <1>5, <2>1 DEF Once
  <2>2. CASE i - m \in 1..n /\ r[i] = t[i - m] /\ j - m \in 1..n /\ r[j] = t[j - m]
    <3>1. i - m = j - m
      BY <1>1, <1>5, <2>2 DEF Once
    <3> QED
      BY <1>1, <3>1
  <2>3. CASE i \in 1..m /\ r[i] = s[i] /\ j - m \in 1..n /\ r[j] = t[j - m]
    <3>1. HasLabel(s, r[i].n) /\ HasLabel(t, r[i].n)
      BY <1>1, <2>3 DEF HasLabel
    <3> QED
      BY <1>5, <3>1
  <2>4. CASE j \in 1..m /\ r[j] = s[j] /\ i - m \in 1..n /\ r[i] = t[i - m]
    <3>1. HasLabel(s, r[j].n) /\ HasLabel(t, r[j].n)
      BY <1>1, <2>4 DEF HasLabel
    <3> QED
      BY <1>5, <3>1
  <2> QED
    BY <1>2, <2>1, <2>2, <2>3, <2>4
<1> QED
  BY <1>1, <1>3, <1>4, <1>5 DEF r

\* A piece of code that defines the labels D, once each, and jumps to J.
Piece(t, D, J) ==
  /\ IsSeq(t) /\ Once(t)
  /\ \A l : HasLabel(t, l) <=> l \in D
  /\ \A l : HasJump(t, l) <=> l \in J

\* Tagging a piece with its item leaves its labels and jumps alone.
LEMMA AtPiece ==
  ASSUME NEW t, NEW D, NEW J, NEW p, NEW s, Piece(t, D, J)
  PROVE  Piece(At(t, p, s), D, J)
BY AtFacts DEF Piece

\* Two pieces in a row, with no label in common, are a piece.
LEMMA JoinPiece ==
  ASSUME NEW s, NEW t, NEW D, NEW E, NEW J, NEW K,
         Piece(s, D, J), Piece(t, E, K), D \cap E = {}
  PROVE  Piece(s \o t, D \cup E, J \cup K)
BY JoinFacts DEF Piece

\* The same for two pieces without labels.
LEMMA JoinStraight ==
  ASSUME NEW s, NEW t, NEW J, NEW K, Piece(s, {}, J), Piece(t, {}, K)
  PROVE  Piece(s \o t, {}, J \cup K)
BY JoinFacts DEF Piece

\* A piece of one instruction: what it defines or jumps to is in its operand.
LEMMA OnePiece ==
  ASSUME NEW op, NEW n
  PROVE  Piece(<<I(op, n)>>, IF op = "label" THEN {n} ELSE {},
                             IF op \in {"jp", "jz"} THEN {n} ELSE {})
<1> DEFINE t == <<I(op, n)>>
<1>1. IsSeq(t)
  <2>1. t \in Seq({I(op, n)})
    OBVIOUS
  <2> QED
    BY <2>1 DEF IsSeq
<1>2. DOMAIN t = {1} /\ t[1].op = op /\ t[1].n = n
  BY DEF I
<1> HIDE DEF t
<1> QED
  BY <1>1, <1>2 DEF Piece, Once, HasLabel, HasJump, t

\* One label: it defines its own and refers to none.
LEMMA LabelPiece ==
  ASSUME NEW n
  PROVE  Piece(<<I("label", n)>>, {n}, {})
<1>1. Piece(<<I("label", n)>>, IF "label" = "label" THEN {n} ELSE {},
                               IF "label" \in {"jp", "jz"} THEN {n} ELSE {})
  BY OnePiece
<1> QED
  BY <1>1

\* One jump: it defines no label and refers to its own.
LEMMA JumpPiece ==
  ASSUME NEW op \in {"jp", "jz"}, NEW n
  PROVE  Piece(<<I(op, n)>>, {}, {n})
<1>1. Piece(<<I(op, n)>>, IF op = "label" THEN {n} ELSE {},
                          IF op \in {"jp", "jz"} THEN {n} ELSE {})
  BY OnePiece
<1> QED
  BY <1>1

\* One instruction that is neither label nor jump.
LEMMA StraightOne ==
  ASSUME NEW op, NEW n, op \notin {"label", "jp", "jz"}
  PROVE  Piece(<<I(op, n)>>, {}, {})
<1>1. Piece(<<I(op, n)>>, IF op = "label" THEN {n} ELSE {},
                          IF op \in {"jp", "jz"} THEN {n} ELSE {})
  BY OnePiece
<1> QED
  BY <1>1

\* Two straight instructions.
LEMMA StraightTwo ==
  ASSUME NEW op1, NEW n1, NEW op2, NEW n2,
         op1 \notin {"label", "jp", "jz"}, op2 \notin {"label", "jp", "jz"}
  PROVE  Piece(<<I(op1, n1), I(op2, n2)>>, {}, {})
<1>1. Piece(<<I(op1, n1)>>, {}, {}) /\ Piece(<<I(op2, n2)>>, {}, {})
  BY StraightOne
<1>2. Piece(<<I(op1, n1)>> \o <<I(op2, n2)>>, {}, {} \cup {})
  BY <1>1, JoinStraight
<1> QED
  BY <1>2, TwoJoined

\* The code of an expression is straight.
LEMMA EvalPiece ==
  ASSUME NEW s, NEW e
  PROVE  Piece(Eval(s, e), {}, {})
<1>1. \A n : Piece(<<I("imm", n)>>, {}, {}) /\ Piece(<<I("ld", n)>>, {}, {})
  BY StraightOne
<1>2. \A n : Piece(<<I("lea", n), I("ldind", 0)>>, {}, {})
  BY StraightTwo
<1>3. \A o : Piece(LoadLocal(o), {}, {})
  BY <1>1, <1>2 DEF LoadLocal
<1> QED
  BY <1>1, <1>3 DEF Eval
\* No code at all.
LEMMA EmptyPiece == Piece(<<>>, {}, {})
<1>1. <<>> \in Seq({}) /\ DOMAIN <<>> = {}
  OBVIOUS
<1> QED
  BY <1>1 DEF Piece, IsSeq, Once, HasLabel, HasJump

\* The mark of a statement is straight.
LEMMA MarkPiece == Piece(Mark, {}, {})
BY StraightOne DEF Mark

\* The store of an initializer, near or far, is straight.
LEMMA InitStorePiece == \A o : Piece(InitStore(o), {}, {})
<1> TAKE o
<1>1. CASE InReach(o)
  <2>1. Piece(<<I("st", o)>>, {}, {})
    BY StraightOne
  <2> QED
    BY <1>1, <2>1 DEF InitStore
<1>2. CASE ~InReach(o)
  <2>1. /\ Piece(<<I("push", 0), I("lea", o)>>, {}, {})
        /\ Piece(<<I("popde", 0), I("stde", 0)>>, {}, {})
    BY StraightTwo
  <2>2. Piece(<<I("push", 0), I("lea", o)>> \o <<I("popde", 0), I("stde", 0)>>, {}, {} \cup {})
    BY <2>1, JoinStraight
  <2>3. <<I("push", 0), I("lea", o), I("popde", 0), I("stde", 0)>>
          = <<I("push", 0), I("lea", o)>> \o <<I("popde", 0), I("stde", 0)>>
    BY FourJoined
  <2> QED
    BY <1>2, <2>2, <2>3 DEF InitStore
<1> QED
  BY <1>1, <1>2

\* So is an assignment whose value is.
LEMMA AssignToPiece ==
  ASSUME NEW o, NEW value, Piece(value, {}, {})
  PROVE  Piece(AssignTo(o, value), {}, {})
<1>1. CASE InReach(o)
  <2>1. Piece(<<I("st", o)>>, {}, {})
    BY StraightOne
  <2>2. Piece(value \o <<I("st", o)>>, {}, {} \cup {})
    BY <2>1, JoinStraight
  <2> QED
    BY <1>1, <2>2 DEF AssignTo
<1>2. CASE ~InReach(o)
  <2>1. /\ Piece(<<I("lea", o), I("push", 0)>>, {}, {})
        /\ Piece(<<I("popde", 0), I("sthl", 0)>>, {}, {})
    BY StraightTwo
  <2>2. Piece(<<I("lea", o), I("push", 0)>> \o value, {}, {} \cup {})
    BY <2>1, JoinStraight
  <2>3. Piece((<<I("lea", o), I("push", 0)>> \o value) \o <<I("popde", 0), I("sthl", 0)>>,
              {}, {} \cup {})
    BY <2>1, <2>2, JoinStraight
  <2> QED
    BY <1>2, <2>3 DEF AssignTo
<1> QED
  BY <1>1, <1>2

-----------------------------------------------------------------------------
(* The open statements *)

\* One more open statement, with labels of its own.
LEMMA Deeper ==
  ASSUME NEW c, NEW n \in Nat, NEW m \in Nat, NEW f, CtlOK(c, n), m >= n, OpenOK(f, m),
         \A i \in DOMAIN c : Labels(c[i]) \cap Labels(f) = {},
         c = <<>> => f.k = "block"
  PROVE  /\ CtlOK(Append(c, f), m) /\ Append(c, f) # <<>>
         /\ \A l : Owes(Append(c, f), l) <=> Owes(c, l) \/ l \in OwedBy(f)
         /\ \A l : Loops(Append(c, f), l) <=> Loops(c, l) \/ (f.k = "while" /\ l = f.l1)
<1> DEFINE d == Append(c, f)
           k == Len(c)
<1>1. /\ IsSeq(d) /\ k \in Nat /\ DOMAIN c = 1..k /\ DOMAIN d = 1..(k + 1)
      /\ Len(d) = k + 1 /\ d[k + 1] = f /\ \A i \in 1..k : d[i] = c[i]
  BY AppendFacts DEF CtlOK
<1> HIDE DEF d, k
<1>2. d # <<>>
  <2>1. Len(d) # 0
    BY <1>1
  <2> QED
    BY <1>1, <2>1, SeqFacts
<1>3. \A i \in DOMAIN d : OpenOK(d[i], m)
  <2> SUFFICES ASSUME NEW i \in 1..k
               PROVE  OpenOK(c[i], m)
    BY <1>1
  <2>1. OpenOK(c[i], n)
    BY <1>1 DEF CtlOK
  <2> QED
    BY <2>1 DEF OpenOK
<1>4. ASSUME NEW i \in DOMAIN d, NEW j \in DOMAIN d, i # j
      PROVE  Labels(d[i]) \cap Labels(d[j]) = {}
  <2>1. CASE i \in 1..k /\ j \in 1..k
    BY <1>1, <1>4, <2>1 DEF CtlOK
  <2>2. CASE i = k + 1 /\ j \in 1..k
    BY <1>1, <2>2
  <2>3. CASE j = k + 1 /\ i \in 1..k
    BY <1>1, <2>3
  <2> QED
    BY <1>1, <1>4, <2>1, <2>2, <2>3
<1>5. CtlOK(d, m)
  <2>1. CASE c = <<>>
    <3>1. k = 0
      BY <1>1, <2>1, SeqFacts DEF CtlOK, k
    <3> QED
      BY <1>1, <1>3, <1>4, <2>1, <3>1 DEF CtlOK
  <2>2. CASE c # <<>>
    <3>1. k # 0
      BY <1>1, <2>2, SeqFacts DEF CtlOK, k
    <3>2. d[1] = c[1]
      BY <1>1, <3>1
    <3> QED
      BY <1>1, <1>3, <1>4, <2>2, <3>2 DEF CtlOK
  <2> QED
    BY <2>1, <2>2
<1>6. \A l : Owes(d, l) <=> Owes(c, l) \/ l \in OwedBy(f)
  BY <1>1 DEF Owes
<1>7. \A l : Loops(d, l) <=> Loops(c, l) \/ (f.k = "while" /\ l = f.l1)
  BY <1>1 DEF Loops
<1> QED
  BY <1>2, <1>5, <1>6, <1>7 DEF d

\* Without the innermost one, whose labels nobody else holds.
LEMMA TopOut ==
  ASSUME NEW c, NEW n, CtlOK(c, n), c # <<>>
  PROVE  /\ CtlOK(Butlast(c), n) /\ OpenOK(c[Len(c)], n)
         /\ Butlast(c) = <<>> => c[Len(c)].k = "block"
         /\ \A l : Owes(c, l) <=> Owes(Butlast(c), l) \/ l \in OwedBy(c[Len(c)])
         /\ \A l : Loops(c, l) <=> \/ Loops(Butlast(c), l)
                                   \/ c[Len(c)].k = "while" /\ l = c[Len(c)].l1
         /\ \A i \in DOMAIN Butlast(c) : Labels(Butlast(c)[i]) \cap Labels(c[Len(c)]) = {}
         /\ \A l \in Labels(c[Len(c)]) : ~Owes(Butlast(c), l) /\ ~Loops(Butlast(c), l)
<1> DEFINE b == Butlast(c)
           k == Len(c)
<1>1. /\ IsSeq(c) /\ IsSeq(b) /\ k \in Nat \ {0} /\ DOMAIN c = 1..k /\ DOMAIN b = 1..(k - 1)
      /\ \A i \in 1..(k - 1) : b[i] = c[i]
  BY ButlastFacts DEF CtlOK
<1> HIDE DEF b, k
<1>2. CtlOK(b, n) /\ OpenOK(c[k], n) /\ (b = <<>> => c[k].k = "block")
  <2>1. /\ b = <<>> <=> k = 1
        /\ c[1].k = "block"
    <3>1. Len(b) = k - 1
      BY ButlastFacts DEF CtlOK, b, k
    <3> QED
      BY <1>1, <3>1, SeqFacts DEF CtlOK
  <2>2. b # <<>> => b[1] = c[1]
    BY <1>1, <2>1
  <2> QED
    BY <1>1, <2>1, <2>2 DEF CtlOK
<1>3. \A l : Owes(c, l) <=> Owes(b, l) \/ l \in OwedBy(c[k])
  BY <1>1 DEF Owes
<1>4. \A l : Loops(c, l) <=> Loops(b, l) \/ (c[k].k = "while" /\ l = c[k].l1)
  BY <1>1 DEF Loops
<1>5. \A i \in DOMAIN b : Labels(b[i]) \cap Labels(c[k]) = {}
  BY <1>1 DEF CtlOK
<1>6. \A l \in Labels(c[k]) : ~Owes(b, l) /\ ~Loops(b, l)
  <2>1. \A i \in DOMAIN b : \A l : l \in OwedBy(b[i]) => l \in Labels(b[i])
    BY DEF OwedBy, Labels
  <2>2. \A i \in DOMAIN b : b[i].k = "while" => b[i].l1 \in Labels(b[i])
    BY DEF Labels
  <2> QED
    BY <1>5, <2>1, <2>2 DEF Owes, Loops
<1> QED
  BY <1>2, <1>3, <1>4, <1>5, <1>6 DEF b, k

\* A statement that closes the declarations of its block changes no label.
LEMMA OpenedFacts ==
  ASSUME LInv, ctl # <<>>
  PROVE  /\ CtlOK(Opened, label) /\ Opened # <<>>
         /\ \A l : Owes(Opened, l) <=> Owes(ctl, l)
         /\ \A l : Loops(Opened, l) <=> Loops(ctl, l)
<1> DEFINE f == [Top EXCEPT !.decls = FALSE]
<1>1. CtlOK(ctl, label) /\ label \in Nat
  BY DEF LInv
<1>2. Below = Butlast(ctl)
  BY DEF Below, Butlast
<1>3. /\ CtlOK(Below, label) /\ OpenOK(Top, label)
      /\ \A l : Owes(ctl, l) <=> Owes(Below, l) \/ l \in OwedBy(Top)
      /\ \A l : Loops(ctl, l) <=> Loops(Below, l) \/ (Top.k = "while" /\ l = Top.l1)
      /\ \A i \in DOMAIN Below : Labels(Below[i]) \cap Labels(Top) = {}
      /\ Below = <<>> => Top.k = "block"
  BY <1>1, <1>2, TopOut DEF Top
<1>4. /\ DOMAIN f = {"k", "l1", "l2", "decls"}
      /\ f.k = Top.k /\ f.l1 = Top.l1 /\ f.l2 = Top.l2
  BY <1>3 DEF OpenOK
<1> HIDE DEF f
<1>5. OpenOK(f, label) /\ Labels(f) = Labels(Top) /\ OwedBy(f) = OwedBy(Top)
  BY <1>3, <1>4 DEF OpenOK, Labels, OwedBy
<1>6. /\ CtlOK(Append(Below, f), label) /\ Append(Below, f) # <<>>
      /\ \A l : Owes(Append(Below, f), l) <=> Owes(Below, l) \/ l \in OwedBy(f)
      /\ \A l : Loops(Append(Below, f), l) <=> Loops(Below, l) \/ (f.k = "while" /\ l = f.l1)
  BY <1>1, <1>3, <1>4, <1>5, Deeper
<1>7. CASE mode = "stmt"
  BY <1>1, <1>7 DEF Opened
<1>8. CASE mode # "stmt"
  <2>1. Opened = Append(Below, f)
    BY <1>8 DEF Opened, f
  <2> QED
    BY <1>3, <1>4, <1>5, <1>6, <2>1
<1> QED
  BY <1>7, <1>8

\* Code that grows by a piece whose labels are new.
LEMMA Emitted ==
  ASSUME LInv, NEW t, NEW D, NEW J, Piece(t, D, J), code' = code \o t,
         NEW m \in Nat, m >= label, D \subseteq 1..(m - 1), J \subseteq 1..(m - 1),
         \A l \in D : ~HasLabel(code, l)
  PROVE  /\ CodeOK(code', m)
         /\ \A l : HasLabel(code', l) <=> HasLabel(code, l) \/ l \in D
         /\ \A l : HasJump(code', l) <=> HasJump(code, l) \/ l \in J
<1>1. IsSeq(code) /\ IsSeq(t) /\ Once(code) /\ Once(t)
  BY DEF LInv, CodeOK, Piece
<1>2. /\ IsSeq(code')
      /\ \A l : HasLabel(code', l) <=> HasLabel(code, l) \/ HasLabel(t, l)
      /\ \A l : HasJump(code', l) <=> HasJump(code, l) \/ HasJump(t, l)
      /\ (\A l : HasLabel(t, l) => ~HasLabel(code, l)) => Once(code')
  BY <1>1, JoinFacts
<1>3. /\ \A l : HasLabel(code', l) <=> HasLabel(code, l) \/ l \in D
      /\ \A l : HasJump(code', l) <=> HasJump(code, l) \/ l \in J
      /\ Once(code')
  BY <1>2 DEF Piece
<1>4. \A l : HasLabel(code', l) \/ HasJump(code', l) => l \in 1..(m - 1)
  <2>1. \A l \in 1..(label - 1) : l \in 1..(m - 1)
    BY DEF LInv
  <2> QED
    BY <1>3, <2>1 DEF LInv, CodeOK
<1> QED
  BY <1>2, <1>3, <1>4 DEF CodeOK

-----------------------------------------------------------------------------
(* Steps of the parser *)

\* What a step has to show: the labels it defines are new and no longer owed,
\* and nothing that is needed is forgotten.
LEMMA Stepped ==
  ASSUME LInv, NEW t, NEW D, NEW J, Piece(t, D, J), code' = code \o t,
         label' \in Nat, label' >= label,
         D \subseteq 1..(label' - 1), J \subseteq 1..(label' - 1),
         \A l \in D : ~HasLabel(code, l),
         CtlOK(ctl', label'), ctl' = <<>> <=> phase' # "read",
         \A l : Owes(ctl', l) => ~HasLabel(code, l) /\ l \notin D,
         phase' = "read" => phase = "read" /\ ExitLabel \notin D,
         \A l : l \in J \/ HasJump(code, l) =>
           \/ HasLabel(code, l) \/ l \in D \/ Owes(ctl', l)
           \/ phase' = "read" /\ l = ExitLabel,
         \A l : Loops(ctl', l) => HasLabel(code, l) \/ l \in D
  PROVE  LInv'
<1>1. /\ CodeOK(code', label')
      /\ \A l : HasLabel(code', l) <=> HasLabel(code, l) \/ l \in D
      /\ \A l : HasJump(code', l) <=> HasJump(code, l) \/ l \in J
  BY Emitted
<1>2. label' >= 2
  BY DEF LInv
<1>3. \A l : Owes(ctl', l) => ~HasLabel(code', l)
  BY <1>1
<1>4. phase' = "read" => ~HasLabel(code', ExitLabel)
  BY <1>1 DEF LInv
<1>5. \A l : HasJump(code', l) =>
        HasLabel(code', l) \/ Owes(ctl', l) \/ (phase' = "read" /\ l = ExitLabel)
  BY <1>1
<1>6. \A l : Loops(ctl', l) => HasLabel(code', l)
  BY <1>1
<1> QED
  BY <1>1, <1>2, <1>3, <1>4, <1>5, <1>6 DEF LInv, ExitLabel

\* A step that defines no label and jumps at most to the exit.
LEMMA StraightStep ==
  ASSUME LInv, NEW t, NEW J, Piece(t, {}, J), code' = code \o t, J \subseteq {ExitLabel},
         phase = "read", phase' = "read", label' = label,
         CtlOK(ctl', label), ctl' # <<>>,
         \A l : Owes(ctl', l) <=> Owes(ctl, l),
         \A l : Loops(ctl', l) <=> Loops(ctl, l)
  PROVE  LInv'
<1>1. label' \in Nat /\ label' >= label /\ J \subseteq 1..(label' - 1)
  BY DEF LInv, ExitLabel
<1>2. CtlOK(ctl', label')
  OBVIOUS
<1>3. \A l : Owes(ctl', l) => ~HasLabel(code, l) /\ l \notin {}
  BY DEF LInv
<1>4. \A l : l \in J \/ HasJump(code, l) =>
        \/ HasLabel(code, l) \/ l \in {} \/ Owes(ctl', l)
        \/ phase' = "read" /\ l = ExitLabel
  BY DEF LInv
<1>5. \A l : Loops(ctl', l) => HasLabel(code, l) \/ l \in {}
  BY DEF LInv
<1> DEFINE D == {}
<1>6. /\ Piece(t, D, J) /\ D \subseteq 1..(label' - 1)
      /\ \A l \in D : ~HasLabel(code, l)
      /\ ctl' = <<>> <=> phase' # "read"
      /\ phase' = "read" => phase = "read" /\ ExitLabel \notin D
  OBVIOUS
<1>7. /\ \A l : Owes(ctl', l) => ~HasLabel(code, l) /\ l \notin D
      /\ \A l : l \in J \/ HasJump(code, l) =>
           \/ HasLabel(code, l) \/ l \in D \/ Owes(ctl', l)
           \/ phase' = "read" /\ l = ExitLabel
      /\ \A l : Loops(ctl', l) => HasLabel(code, l) \/ l \in D
  BY <1>3, <1>4, <1>5
<1> HIDE DEF D
<1> QED
  BY <1>1, <1>2, <1>6, <1>7, Stepped

\* A declaration leaves the open statements and their labels alone.
LEMMA DeclareStep == ASSUME LInv, Declare PROVE LInv'
<1>1. /\ UNCHANGED <<ctl, label>> /\ phase = "read" /\ phase' = "read" /\ ctl # <<>>
      /\ CtlOK(ctl, label)
  BY DEF Declare, Reading, LInv
<1>2. PICK d : code' = code \o At(<<I("alloc", SlotSize)>>
                   \o (IF d.e = "none" THEN <<>>
                       ELSE Eval(Bind(scopes, d.v, off - SlotSize), d.e)
                            \o InitStore(off - SlotSize)),
                   Pos, scopes)
  BY DEF Declare, Read
<1> DEFINE s == Bind(scopes, d.v, off - SlotSize)
           o == off - SlotSize
           init == IF d.e = "none" THEN <<>> ELSE Eval(s, d.e) \o InitStore(o)
           t == <<I("alloc", SlotSize)>> \o init
<1>3. Piece(<<I("alloc", SlotSize)>>, {}, {})
  BY StraightOne
<1>4. Piece(init, {}, {})
  <2>1. Piece(Eval(s, d.e) \o InitStore(o), {}, {} \cup {})
    BY EvalPiece, InitStorePiece, JoinStraight
  <2>2. Piece(<<>>, {}, {})
    BY EmptyPiece
  <2> QED
    BY <2>1, <2>2
<1>5. Piece(t, {}, {} \cup {})
  BY <1>3, <1>4, JoinStraight
<1>6. code' = code \o At(t, Pos, scopes)
  BY <1>2
<1> HIDE DEF t
<1>7. Piece(At(t, Pos, scopes), {}, {})
  BY <1>5, AtPiece
<1> QED
  BY <1>1, <1>6, <1>7, StraightStep

\* What an assignment, a call, a return or an empty statement adds jumps at
\* most to the exit.
LEMMA SimplePiece ==
  ASSUME Assign \/ Call \/ Return \/ Empty
  PROVE  \E t, J : Piece(t, {}, J) /\ J \subseteq {ExitLabel} /\ code' = code \o t
<1>1. CASE Assign
  <2>1. PICK s \in {x \in Simple : x.k = "set"} :
          code' = code \o At(AssignTo(OffsetOf(scopes, s.v), Eval(scopes, s.e)), Pos, scopes)
    BY <1>1 DEF Assign, Read
  <2>2. Piece(At(AssignTo(OffsetOf(scopes, s.v), Eval(scopes, s.e)), Pos, scopes), {}, {})
    BY EvalPiece, AssignToPiece, AtPiece
  <2> QED
    BY <2>1, <2>2
<1>2. CASE Call
  <2>1. PICK s \in {x \in Simple : x.k = "call"} :
          code' = code \o (At(Eval(scopes, s.v) \o <<I("push", 0), I("call", 0)>>, Pos, scopes)
                           \o At(<<I("pop", 0)>>, Pos + 1, scopes))
    BY <1>2 DEF Call, Read
  <2> DEFINE a == Eval(scopes, s.v) \o <<I("push", 0), I("call", 0)>>
             b == <<I("pop", 0)>>
  <2>2. Piece(a, {}, {} \cup {})
    BY EvalPiece, StraightTwo, JoinStraight
  <2>3. Piece(b, {}, {})
    BY StraightOne
  <2> HIDE DEF a, b
  <2>4. Piece(At(a, Pos, scopes), {}, {}) /\ Piece(At(b, Pos + 1, scopes), {}, {})
    BY <2>2, <2>3, AtPiece
  <2>5. Piece(At(a, Pos, scopes) \o At(b, Pos + 1, scopes), {}, {} \cup {})
    BY <2>4, JoinStraight
  <2> QED
    BY <2>1, <2>5 DEF a, b
<1>3. CASE Return
  <2>1. PICK s \in {x \in Simple : x.k = "ret"} :
          code' = code \o At((IF s.e = "none" THEN <<>> ELSE Eval(scopes, s.e))
                             \o <<I("jp", ExitLabel)>>, Pos, scopes)
    BY <1>3 DEF Return, Read
  <2> DEFINE a == IF s.e = "none" THEN <<>> ELSE Eval(scopes, s.e)
             b == <<I("jp", ExitLabel)>>
  <2>2. Piece(a, {}, {})
    BY EvalPiece, EmptyPiece
  <2>3. Piece(b, {}, {ExitLabel})
    BY JumpPiece
  <2> HIDE DEF a, b
  <2>4. Piece(a \o b, {}, {} \cup {ExitLabel})
    BY <2>2, <2>3, JoinStraight
  <2>5. Piece(At(a \o b, Pos, scopes), {}, {} \cup {ExitLabel})
    BY <2>4, AtPiece
  <2> QED
    BY <2>1, <2>5 DEF a, b
<1>4. CASE Empty
  <2>1. code' = code \o At(Mark, Pos, scopes)
    BY <1>4 DEF Empty, Read
  <2>2. Piece(At(Mark, Pos, scopes), {}, {})
    BY MarkPiece, AtPiece
  <2> QED
    BY <2>1, <2>2
<1> QED
  BY <1>1, <1>2, <1>3, <1>4

\* A simple statement at most closes the declarations of its block.
LEMMA SimpleStatementStep == ASSUME LInv, SimpleStatement PROVE LInv'
<1>1. /\ ctl' = Opened /\ label' = label /\ phase = "read" /\ phase' = "read" /\ ctl # <<>>
      /\ Assign \/ Call \/ Return \/ Empty
  BY DEF SimpleStatement, Statement, LInv
<1>2. PICK t, J : Piece(t, {}, J) /\ J \subseteq {ExitLabel} /\ code' = code \o t
  BY <1>1, SimplePiece
<1> QED
  BY <1>1, <1>2, OpenedFacts, StraightStep

\* A block holds no label.
LEMMA OpenBlockStep == ASSUME LInv, OpenBlock PROVE LInv'
<1> DEFINE f == [NoFrame EXCEPT !.decls = TRUE]
<1>1. /\ ctl' = Append(Opened, f) /\ label' = label /\ phase = "read" /\ phase' = "read"
      /\ ctl # <<>> /\ code' = code \o At(Mark, Pos, scopes)
  BY DEF OpenBlock, Statement, LInv, Read
<1>2. f.k = "block" /\ DOMAIN f = {"k", "l1", "l2", "decls"}
  BY DEF NoFrame
<1> HIDE DEF f
<1>3. OpenOK(f, label) /\ Labels(f) = {} /\ OwedBy(f) = {} /\ label \in Nat
  BY <1>2 DEF OpenOK, Labels, OwedBy, LInv
<1>4. /\ CtlOK(Opened, label)
      /\ \A l : Owes(Opened, l) <=> Owes(ctl, l)
      /\ \A l : Loops(Opened, l) <=> Loops(ctl, l)
  BY <1>1, OpenedFacts
<1>5. /\ CtlOK(ctl', label) /\ ctl' # <<>>
      /\ \A l : Owes(ctl', l) <=> Owes(Opened, l) \/ l \in OwedBy(f)
      /\ \A l : Loops(ctl', l) <=> Loops(Opened, l) \/ (f.k = "while" /\ l = f.l1)
  <2>1. label >= label
    BY <1>3
  <2>2. \A i \in DOMAIN Opened : Labels(Opened[i]) \cap Labels(f) = {}
    BY <1>3
  <2> QED
    BY <1>1, <1>2, <1>3, <1>4, <2>1, <2>2, Deeper
<1>6. Piece(At(Mark, Pos, scopes), {}, {})
  BY MarkPiece, AtPiece
<1>7. /\ \A l : Owes(ctl', l) <=> Owes(ctl, l)
      /\ \A l : Loops(ctl', l) <=> Loops(ctl, l)
  BY <1>2, <1>3, <1>4, <1>5
<1> QED
  BY <1>1, <1>5, <1>6, <1>7, StraightStep

\* What is known of the innermost open statement.
LEMMA TopFacts ==
  ASSUME LInv, phase = "read"
  PROVE  /\ ctl # <<>> /\ CtlOK(Below, label) /\ OpenOK(Top, label)
         /\ Below = <<>> => Top.k = "block"
         /\ \A l : Owes(ctl, l) <=> Owes(Below, l) \/ l \in OwedBy(Top)
         /\ \A l : Loops(ctl, l) <=> Loops(Below, l) \/ (Top.k = "while" /\ l = Top.l1)
         /\ \A i \in DOMAIN Below : Labels(Below[i]) \cap Labels(Top) = {}
         /\ \A l \in Labels(Top) : ~Owes(Below, l) /\ ~Loops(Below, l)
<1>1. Below = Butlast(ctl)
  BY DEF Below, Butlast
<1> QED
  BY <1>1, TopOut DEF Top, LInv

\* Without the innermost statement somebody is still open.
LEMMA BelowNotEmpty ==
  ASSUME LInv, phase = "read", Len(ctl) > 1
  PROVE  Below # <<>>
<1>1. Below = Butlast(ctl) /\ IsSeq(ctl) /\ ctl # <<>>
  BY DEF Below, Butlast, LInv, CtlOK
<1>2. /\ IsSeq(Butlast(ctl)) /\ Len(ctl) \in Nat \ {0}
      /\ Len(Butlast(ctl)) = Len(ctl) - 1
  BY <1>1, ButlastFacts
<1>3. Len(Butlast(ctl)) # 0
  BY <1>2
<1> QED
  BY <1>1, <1>2, <1>3, SeqFacts

\* A block ends without code that jumps.
LEMMA CloseBlockStep == ASSUME LInv, CloseBlock PROVE LInv'
<1>1. /\ ctl' = Below /\ label' = label /\ phase = "read" /\ phase' = "read"
      /\ Top.k = "block" /\ Len(ctl) > 1 /\ code' = code \o At(Mark, Pos, scopes)
  BY DEF CloseBlock, Reading, Read, BlockEnd
<1>2. OwedBy(Top) = {}
  BY <1>1 DEF OwedBy
<1>3. /\ CtlOK(ctl', label) /\ ctl' # <<>>
      /\ \A l : Owes(ctl', l) <=> Owes(ctl, l)
      /\ \A l : Loops(ctl', l) <=> Loops(ctl, l)
  BY <1>1, <1>2, TopFacts, BelowNotEmpty
<1>4. Piece(At(Mark, Pos, scopes), {}, {})
  BY MarkPiece, AtPiece
<1> QED
  BY <1>1, <1>3, <1>4, StraightStep

\* The body ends: no statement is open, and the exit label follows.
LEMMA CloseBodyStep == ASSUME LInv, CloseBody PROVE LInv'
<1> DEFINE a == At(Mark, Pos, scopes)
           b == At(Epilogue(ExitLabel), Pos + 1, SubSeq(scopes, 1, 2))
           D == {ExitLabel}
           J == {}
<1>1. /\ ctl' = Below /\ label' = label /\ phase = "read" /\ phase' = "run"
      /\ Top.k = "block" /\ Len(ctl) = 1 /\ code' = code \o (a \o b)
  BY DEF CloseBody, Reading, Read
<1>2. Piece(a, {}, {})
  BY MarkPiece, AtPiece
<1>3. Piece(Epilogue(ExitLabel), {ExitLabel}, {})
  <2>1. Piece(<<I("label", ExitLabel)>>, {ExitLabel}, {})
    BY LabelPiece
  <2>2. Piece(<<I("ldsp", 0)>>, {}, {}) /\ Piece(<<I("popix", 0), I("ret", 0)>>, {}, {})
    BY StraightOne, StraightTwo
  <2>3. Piece(<<I("label", ExitLabel)>> \o <<I("ldsp", 0)>>, {ExitLabel} \cup {}, {} \cup {})
    BY <2>1, <2>2, JoinPiece
  <2>4. Piece(<<I("label", ExitLabel), I("ldsp", 0)>>, {ExitLabel}, {})
    BY <2>3, TwoJoined
  <2>5. Piece(<<I("label", ExitLabel), I("ldsp", 0)>> \o <<I("popix", 0), I("ret", 0)>>,
              {ExitLabel} \cup {}, {} \cup {})
    BY <2>2, <2>4, JoinPiece
  <2>6. Epilogue(ExitLabel) = <<I("label", ExitLabel), I("ldsp", 0)>>
                                \o <<I("popix", 0), I("ret", 0)>>
    BY FourJoined DEF Epilogue
  <2>7. {ExitLabel} \cup {} = {ExitLabel} /\ {} \cup {} = {}
    OBVIOUS
  <2> QED
    BY <2>5, <2>6, <2>7
<1>4. Piece(b, {ExitLabel}, {})
  BY <1>3, AtPiece
<1> HIDE DEF a, b
<1>5. Piece(a \o b, {} \cup {ExitLabel}, {} \cup {})
  BY <1>2, <1>4, JoinPiece
<1>6. Piece(a \o b, D, J)
  BY <1>5
<1>7. Below = <<>>
  <2>1. Below = Butlast(ctl) /\ IsSeq(ctl) /\ ctl # <<>>
    BY <1>1 DEF Below, Butlast, LInv, CtlOK
  <2>2. IsSeq(Butlast(ctl)) /\ Len(Butlast(ctl)) = Len(ctl) - 1
    BY <2>1, ButlastFacts
  <2>3. Len(Butlast(ctl)) = 0
    BY <1>1, <2>2
  <2> QED
    BY <2>1, <2>2, <2>3, SeqFacts
<1>8. /\ \A l : ~Owes(ctl, l) /\ ~Owes(Below, l) /\ ~Loops(Below, l)
      /\ CtlOK(Below, label)
  <2>1. OwedBy(Top) = {}
    BY <1>1 DEF OwedBy
  <2>2. \A l : ~Owes(Below, l) /\ ~Loops(Below, l)
    BY <1>7 DEF Owes, Loops
  <2> QED
    BY <1>1, <2>1, <2>2, TopFacts
<1>9. /\ label' \in Nat /\ label' >= label
      /\ D \subseteq 1..(label' - 1) /\ J \subseteq 1..(label' - 1)
      /\ \A l \in D : ~HasLabel(code, l)
      /\ CtlOK(ctl', label')
  BY <1>1, <1>8 DEF LInv, ExitLabel
<1>10. /\ ctl' = <<>> <=> phase' # "read"
       /\ \A l : Owes(ctl', l) => ~HasLabel(code, l) /\ l \notin D
       /\ phase' = "read" => phase = "read" /\ ExitLabel \notin D
       /\ \A l : Loops(ctl', l) => HasLabel(code, l) \/ l \in D
  BY <1>1, <1>7, <1>8
<1>11. \A l : l \in J \/ HasJump(code, l) =>
         \/ HasLabel(code, l) \/ l \in D \/ Owes(ctl', l)
         \/ phase' = "read" /\ l = ExitLabel
  BY <1>8 DEF LInv
<1> HIDE DEF D, J
<1> QED
  BY <1>1, <1>6, <1>9, <1>10, <1>11, Stepped

\* A statement that takes the next two labels opens.
LEMMA OpenStep ==
  ASSUME LInv, phase = "read", phase' = "read", label' = label + 2,
         NEW k, k # "block", ctl' = Append(Opened, [NoFrame EXCEPT !.k = k,
                                              !.l1 = label, !.l2 = label + 1]),
         NEW t, NEW D, NEW J, Piece(t, D, J), code' = code \o t,
         \/ k = "while" /\ D = {label} /\ J = {label + 1}
         \/ k = "then" /\ D = {} /\ J = {label}
  PROVE  LInv'
<1> DEFINE f == [NoFrame EXCEPT !.k = k, !.l1 = label, !.l2 = label + 1]
<1>1. /\ DOMAIN f = {"k", "l1", "l2", "decls"}
      /\ f.k = k /\ f.l1 = label /\ f.l2 = label + 1
  BY DEF NoFrame
<1>2. ctl' = Append(Opened, f)
  OBVIOUS
<1> HIDE DEF f
<1>3. ctl # <<>> /\ label \in Nat /\ label >= 2
  BY DEF LInv
<1>4. OpenOK(f, label') /\ Labels(f) = {label, label + 1}
  BY <1>1, <1>3 DEF OpenOK, Labels
<1>5. OwedBy(f) = IF k = "then" THEN {label, label + 1} ELSE {label + 1}
  BY <1>1 DEF OwedBy
<1>6. /\ CtlOK(Opened, label) /\ Opened # <<>>
      /\ \A l : Owes(Opened, l) <=> Owes(ctl, l)
      /\ \A l : Loops(Opened, l) <=> Loops(ctl, l)
  BY <1>3, OpenedFacts
<1>7. \A i \in DOMAIN Opened : Labels(Opened[i]) \cap Labels(f) = {}
  <2> SUFFICES ASSUME NEW i \in DOMAIN Opened
               PROVE  \A l \in Labels(Opened[i]) : l \in 2..(label - 1)
    BY <1>3, <1>4
  <2>1. OpenOK(Opened[i], label)
    BY <1>6 DEF CtlOK
  <2> QED
    BY <2>1 DEF OpenOK, Labels
<1>8. /\ CtlOK(ctl', label') /\ ctl' # <<>>
      /\ \A l : Owes(ctl', l) <=> Owes(ctl, l) \/ l \in OwedBy(f)
      /\ \A l : Loops(ctl', l) <=> Loops(ctl, l) \/ (k = "while" /\ l = label)
  <2>1. label' \in Nat /\ label' >= label
    BY <1>3
  <2>2. /\ CtlOK(ctl', label') /\ ctl' # <<>>
        /\ \A l : Owes(ctl', l) <=> Owes(Opened, l) \/ l \in OwedBy(f)
        /\ \A l : Loops(ctl', l) <=> Loops(Opened, l) \/ (f.k = "while" /\ l = f.l1)
    BY <1>2, <1>3, <1>4, <1>6, <1>7, <2>1, Deeper
  <2> QED
    BY <1>1, <1>6, <2>2
<1>9. ~HasLabel(code, label) /\ ~HasLabel(code, label + 1)
      /\ ~Owes(ctl, label) /\ ~Owes(ctl, label + 1)
  <2>1. \A l : Owes(ctl, l) => l \in 2..(label - 1)
    <3> SUFFICES ASSUME NEW i \in DOMAIN ctl, NEW l \in OwedBy(ctl[i])
                 PROVE  l \in 2..(label - 1)
      BY DEF Owes
    <3>1. OpenOK(ctl[i], label)
      BY DEF LInv, CtlOK
    <3> QED
      BY <3>1 DEF OpenOK, OwedBy
  <2>2. \A l : HasLabel(code, l) => l \in 1..(label - 1)
    BY DEF LInv, CodeOK
  <2>3. label \notin 1..(label - 1) /\ label + 1 \notin 1..(label - 1)
        /\ label \notin 2..(label - 1) /\ label + 1 \notin 2..(label - 1)
    BY <1>3
  <2> QED
    BY <2>1, <2>2, <2>3
<1>10. /\ label' \in Nat /\ label' >= label
       /\ D \subseteq 1..(label' - 1) /\ J \subseteq 1..(label' - 1)
       /\ \A l \in D : ~HasLabel(code, l)
  BY <1>3, <1>9
<1>11. \A l : Owes(ctl', l) => ~HasLabel(code, l) /\ l \notin D
  <2>1. \A l \in D : ~Owes(ctl, l) /\ l \notin OwedBy(f)
    BY <1>3, <1>5, <1>9
  <2>2. \A l : Owes(ctl, l) \/ l \in OwedBy(f) => ~HasLabel(code, l)
    BY <1>5, <1>9 DEF LInv
  <2> QED
    BY <1>8, <2>1, <2>2
<1>12. /\ ctl' = <<>> <=> phase' # "read"
       /\ phase' = "read" => phase = "read" /\ ExitLabel \notin D
       /\ \A l : Loops(ctl', l) => HasLabel(code, l) \/ l \in D
  BY <1>3, <1>8 DEF LInv, ExitLabel
<1>13. \A l : l \in J \/ HasJump(code, l) =>
         \/ HasLabel(code, l) \/ l \in D \/ Owes(ctl', l)
         \/ phase' = "read" /\ l = ExitLabel
  <2>1. \A l \in J : l \in OwedBy(f)
    BY <1>5
  <2> QED
    BY <1>8, <2>1 DEF LInv
<1> QED
  BY <1>8, <1>10, <1>11, <1>12, <1>13, Stepped

\* A while reads its condition between its two labels' uses.
LEMMA WhileStep == ASSUME LInv, While PROVE LInv'
<1> DEFINE f == [NoFrame EXCEPT !.k = "while", !.l1 = label, !.l2 = label + 1]
<1>1. /\ phase = "read" /\ phase' = "read" /\ label' = label + 2
      /\ ctl' = Append(Opened, f)
  BY DEF While, Statement, TwoLabels
<1>2. PICK c : code' = code \o At(<<I("label", label)>> \o Eval(scopes, c)
                                  \o <<I("jz", label + 1)>>, Pos, scopes)
  BY DEF While, TwoLabels, Read
<1> DEFINE a == <<I("label", label)>>
           b == Eval(scopes, c)
           z == <<I("jz", label + 1)>>
           t == At((a \o b) \o z, Pos, scopes)
<1>3. Piece(a, {label}, {}) /\ Piece(b, {}, {}) /\ Piece(z, {}, {label + 1})
  BY LabelPiece, EvalPiece, JumpPiece
<1>4. code' = code \o t
  BY <1>2
<1> HIDE DEF a, b, z
<1>5. Piece(a \o b, {label} \cup {}, {} \cup {})
  BY <1>3, JoinPiece
<1>6. Piece(a \o b, {label}, {})
  BY <1>5
<1>7. Piece((a \o b) \o z, {label} \cup {}, {} \cup {label + 1})
  BY <1>3, <1>6, JoinPiece
<1>8. Piece((a \o b) \o z, {label}, {label + 1})
  BY <1>7
<1>9. Piece(t, {label}, {label + 1})
  BY <1>8, AtPiece
<1> HIDE DEF t
<1> QED
  BY <1>1, <1>4, <1>9, OpenStep

\* An if jumps to the first of its labels.
LEMMA IfStep == ASSUME LInv, If PROVE LInv'
<1> DEFINE f == [NoFrame EXCEPT !.k = "then", !.l1 = label, !.l2 = label + 1]
<1>1. /\ phase = "read" /\ phase' = "read" /\ label' = label + 2
      /\ ctl' = Append(Opened, f)
  BY DEF If, Statement, TwoLabels
<1>2. PICK c : code' = code \o At(Eval(scopes, c) \o <<I("jz", label)>>, Pos, scopes)
  BY DEF If, TwoLabels, Read
<1> DEFINE b == Eval(scopes, c)
           z == <<I("jz", label)>>
           t == At(b \o z, Pos, scopes)
<1>3. Piece(b, {}, {}) /\ Piece(z, {}, {label})
  BY EvalPiece, JumpPiece
<1>4. code' = code \o t
  BY <1>2
<1> HIDE DEF b, z
<1>5. Piece(b \o z, {}, {} \cup {label})
  BY <1>3, JoinStraight
<1>6. Piece(b \o z, {}, {label})
  BY <1>5
<1>7. Piece(t, {}, {label})
  BY <1>6, AtPiece
<1> HIDE DEF t
<1> QED
  BY <1>1, <1>4, <1>7, OpenStep

\* A statement that ends defines the labels it owes, and jumps to one of them
\* or back to a label that is there.
LEMMA EndStep ==
  ASSUME LInv, phase = "read", phase' = "read", label' = label, ctl' = Below,
         Top.k # "block", NEW t, NEW D, NEW J, Piece(t, D, J), code' = code \o t,
         D = OwedBy(Top), \A l \in J : l \in D \/ HasLabel(code, l)
  PROVE  LInv'
<1>1. /\ CtlOK(ctl', label') /\ ctl' # <<>> /\ OpenOK(Top, label)
      /\ \A l : Owes(ctl, l) <=> Owes(ctl', l) \/ l \in D
      /\ \A l : Loops(ctl', l) => Loops(ctl, l)
      /\ \A l \in Labels(Top) : ~Owes(ctl', l)
  BY TopFacts
<1>2. D \subseteq Labels(Top) /\ Labels(Top) \subseteq 2..(label - 1)
  BY <1>1 DEF OpenOK, OwedBy, Labels
<1>3. label \in Nat /\ label >= 2
  BY DEF LInv
<1>4. /\ label' \in Nat /\ label' >= label /\ D \subseteq 1..(label' - 1)
      /\ \A l \in D : ~HasLabel(code, l)
  BY <1>1, <1>2, <1>3 DEF LInv
<1>5. J \subseteq 1..(label' - 1)
  BY <1>4 DEF LInv, CodeOK
<1>6. /\ ctl' = <<>> <=> phase' # "read"
      /\ \A l : Owes(ctl', l) => ~HasLabel(code, l) /\ l \notin D
      /\ phase' = "read" => phase = "read" /\ ExitLabel \notin D
      /\ \A l : Loops(ctl', l) => HasLabel(code, l) \/ l \in D
  <2>1. ExitLabel \notin D
    BY <1>2, <1>3 DEF ExitLabel
  <2>2. \A l : Owes(ctl', l) => ~HasLabel(code, l) /\ l \notin D
    BY <1>1, <1>2 DEF LInv
  <2>3. \A l : Loops(ctl', l) => HasLabel(code, l)
    BY <1>1 DEF LInv
  <2> QED
    BY <1>1, <2>1, <2>2, <2>3
<1>7. \A l : l \in J \/ HasJump(code, l) =>
        \/ HasLabel(code, l) \/ l \in D \/ Owes(ctl', l)
        \/ phase' = "read" /\ l = ExitLabel
  BY <1>1 DEF LInv
<1> QED
  BY <1>1, <1>4, <1>5, <1>6, <1>7, Stepped

\* The end of a while jumps back to its first label and defines its second.
LEMMA EndWhileStep == ASSUME LInv, EndWhile PROVE LInv'
<1> DEFINE a == At(<<I("jp", Top.l1)>>, Pos, scopes)
           b == At(<<I("label", Top.l2)>>, Pos + 1, scopes)
<1>1. /\ phase = "read" /\ phase' = "read" /\ label' = label /\ ctl' = Below
      /\ Top.k = "while" /\ code' = code \o (a \o b)
  BY DEF EndWhile, Reading, Read
<1>2. Piece(a, {}, {Top.l1}) /\ Piece(b, {Top.l2}, {})
  BY JumpPiece, LabelPiece, AtPiece
<1> HIDE DEF a, b
<1>3. Piece(a \o b, {} \cup {Top.l2}, {Top.l1} \cup {})
  BY <1>2, JoinPiece
<1>4. Piece(a \o b, {Top.l2}, {Top.l1})
  BY <1>3
<1>5. OwedBy(Top) = {Top.l2} /\ HasLabel(code, Top.l1)
  <2>1. Loops(ctl, Top.l1)
    BY <1>1, TopFacts
  <2> QED
    BY <1>1, <2>1 DEF OwedBy, LInv
<1> QED
  BY <1>1, <1>4, <1>5, EndStep

\* The end of an if without else defines both of its labels.
LEMMA EndThenStep == ASSUME LInv, EndThen PROVE LInv'
<1> DEFINE a == <<I("jp", Top.l2)>>
           b == <<I("label", Top.l1)>>
           c == <<I("label", Top.l2)>>
           t == At(a \o (b \o c), Pos, scopes)
<1>1. /\ phase = "read" /\ phase' = "read" /\ label' = label /\ ctl' = Below
      /\ Top.k = "then"
      /\ code' = code \o At(a \o <<I("label", Top.l1), I("label", Top.l2)>>, Pos, scopes)
  BY DEF EndThen, Reading, Read, SkipElse
<1>2. code' = code \o t
  BY <1>1, TwoJoined
<1>3. Piece(a, {}, {Top.l2}) /\ Piece(b, {Top.l1}, {}) /\ Piece(c, {Top.l2}, {})
  BY JumpPiece, LabelPiece
<1> HIDE DEF a, b, c
<1>4. Top.l1 # Top.l2
  BY <1>1, TopFacts DEF OpenOK
<1>5. Piece(b \o c, {Top.l1} \cup {Top.l2}, {} \cup {})
  BY <1>3, <1>4, JoinPiece
<1>6. Piece(b \o c, {Top.l1, Top.l2}, {})
  BY <1>5
<1>7. Piece(a \o (b \o c), {} \cup {Top.l1, Top.l2}, {Top.l2} \cup {})
  BY <1>3, <1>6, JoinPiece
<1>8. Piece(a \o (b \o c), {Top.l1, Top.l2}, {Top.l2})
  BY <1>7
<1>9. Piece(t, {Top.l1, Top.l2}, {Top.l2})
  BY <1>8, AtPiece
<1> HIDE DEF t
<1>10. OwedBy(Top) = {Top.l1, Top.l2}
  BY <1>1 DEF OwedBy
<1> QED
  BY <1>1, <1>2, <1>9, <1>10, EndStep

\* The end of an else branch defines the second label.
LEMMA EndElseStep == ASSUME LInv, EndElse PROVE LInv'
<1> DEFINE t == At(<<I("label", Top.l2)>>, Pos, scopes)
<1>1. /\ phase = "read" /\ phase' = "read" /\ label' = label /\ ctl' = Below
      /\ Top.k = "else" /\ code' = code \o t
  BY DEF EndElse, Reading, Read
<1>2. Piece(t, {Top.l2}, {})
  BY LabelPiece, AtPiece
<1> HIDE DEF t
<1>3. OwedBy(Top) = {Top.l2}
  BY <1>1 DEF OwedBy
<1> QED
  BY <1>1, <1>2, <1>3, EndStep

\* An else defines the first label and goes on owing the second.
LEMMA EndThenElseStep == ASSUME LInv, EndThenElse PROVE LInv'
<1> DEFINE a == At(<<I("jp", Top.l2)>>, Pos, scopes)
           b == At(<<I("label", Top.l1)>>, Pos + 1, scopes)
           f == [Top EXCEPT !.k = "else"]
           D == {Top.l1}
           J == {Top.l2}
<1>1. /\ phase = "read" /\ phase' = "read" /\ label' = label
      /\ ctl' = Append(Below, f) /\ Top.k = "then" /\ code' = code \o (a \o b)
  BY DEF EndThenElse, Reading, Read, SkipElse
<1>2. Piece(a, {}, {Top.l2}) /\ Piece(b, {Top.l1}, {})
  BY JumpPiece, LabelPiece, AtPiece
<1> HIDE DEF a, b
<1>3. Piece(a \o b, {} \cup {Top.l1}, {Top.l2} \cup {})
  BY <1>2, JoinPiece
<1>4. Piece(a \o b, D, J)
  BY <1>3
<1>5. /\ CtlOK(Below, label) /\ OpenOK(Top, label)
      /\ Below = <<>> => Top.k = "block"
      /\ \A l : Owes(ctl, l) <=> Owes(Below, l) \/ l \in OwedBy(Top)
      /\ \A l : Loops(ctl, l) <=> Loops(Below, l) \/ (Top.k = "while" /\ l = Top.l1)
      /\ \A i \in DOMAIN Below : Labels(Below[i]) \cap Labels(Top) = {}
      /\ \A l \in Labels(Top) : ~Owes(Below, l)
  BY <1>1, TopFacts
<1>6. /\ DOMAIN f = {"k", "l1", "l2", "decls"}
      /\ f.k = "else" /\ f.l1 = Top.l1 /\ f.l2 = Top.l2
  BY <1>5 DEF OpenOK
<1> HIDE DEF f
<1>7. /\ OpenOK(f, label) /\ Labels(f) = Labels(Top) /\ Labels(Top) = {Top.l1, Top.l2}
      /\ OwedBy(f) = {Top.l2} /\ OwedBy(Top) = {Top.l1, Top.l2}
      /\ Top.l1 \in 2..(label - 1) /\ Top.l2 \in 2..(label - 1) /\ Top.l1 # Top.l2
  BY <1>1, <1>5, <1>6 DEF OpenOK, Labels, OwedBy
<1>8. label \in Nat /\ label >= 2
  BY DEF LInv
<1>9. /\ CtlOK(ctl', label) /\ ctl' # <<>>
      /\ \A l : Owes(ctl', l) <=> Owes(Below, l) \/ l = Top.l2
      /\ \A l : Loops(ctl', l) <=> Loops(Below, l)
  <2>1. /\ CtlOK(Append(Below, f), label) /\ Append(Below, f) # <<>>
        /\ \A l : Owes(Append(Below, f), l) <=> Owes(Below, l) \/ l \in OwedBy(f)
        /\ \A l : Loops(Append(Below, f), l) <=> Loops(Below, l) \/ (f.k = "while" /\ l = f.l1)
    <3>1. Below # <<>> /\ label >= label
      BY <1>1, <1>5, <1>8
    <3> QED
      BY <1>5, <1>7, <1>8, <3>1, Deeper
  <2> QED
    BY <1>1, <1>6, <1>7, <2>1
<1>10. /\ label' \in Nat /\ label' >= label /\ CtlOK(ctl', label')
       /\ D \subseteq 1..(label' - 1) /\ J \subseteq 1..(label' - 1)
       /\ \A l \in D : ~HasLabel(code, l)
  <2>1. Owes(ctl, Top.l1)
    BY <1>5, <1>7
  <2>2. ~HasLabel(code, Top.l1)
    BY <2>1 DEF LInv
  <2> QED
    BY <1>1, <1>7, <1>8, <1>9, <2>2
<1>11. \A l : Owes(ctl', l) => ~HasLabel(code, l) /\ l \notin D
  <2>1. \A l : Owes(ctl', l) => Owes(ctl, l)
    BY <1>5, <1>7, <1>9
  <2>2. ~Owes(ctl', Top.l1)
    BY <1>5, <1>7, <1>9
  <2> QED
    BY <2>1, <2>2 DEF LInv
<1>12. /\ ctl' = <<>> <=> phase' # "read"
       /\ phase' = "read" => phase = "read" /\ ExitLabel \notin D
  BY <1>1, <1>7, <1>8, <1>9 DEF ExitLabel
<1>13. \A l : Loops(ctl', l) => HasLabel(code, l) \/ l \in D
  BY <1>5, <1>9 DEF LInv
<1>14. \A l : l \in J \/ HasJump(code, l) =>
         \/ HasLabel(code, l) \/ l \in D \/ Owes(ctl', l)
         \/ phase' = "read" /\ l = ExitLabel
  <2>1. \A l : Owes(ctl, l) => l \in D \/ Owes(ctl', l)
    BY <1>5, <1>7, <1>9
  <2> QED
    BY <1>1, <1>9, <2>1 DEF LInv
<1> HIDE DEF D, J
<1> QED
  BY <1>1, <1>4, <1>10, <1>11, <1>12, <1>13, <1>14, Stepped

-----------------------------------------------------------------------------
(* The whole specification *)

\* An empty body, whose braces have just been opened, is well labelled.
LEMMA InitLInv == Init => LInv
<1> SUFFICES ASSUME Init
             PROVE  LInv
  OBVIOUS
<1> DEFINE f == [NoFrame EXCEPT !.decls = TRUE]
           t == Prologue \o Mark
<1>1. /\ ctl = <<f>> /\ label = 2 /\ phase = "read"
      /\ code = At(t, 1, <<GlobalScope, ParamScope>>)
  <2>1. /\ ctl = <<f>> /\ label = ExitLabel + 1 /\ phase = "read"
        /\ code = At(t, 1, <<GlobalScope, ParamScope>>)
    BY Zenon DEF Init
  <2> QED
    BY <2>1 DEF ExitLabel
<1>2. Piece(Prologue, {}, {}) /\ Piece(Mark, {}, {})
  BY StraightTwo, MarkPiece DEF Prologue
<1>3. Piece(t, {}, {} \cup {})
  BY <1>2, JoinStraight
<1> HIDE DEF t
<1>4. Piece(code, {}, {})
  <2>1. Piece(t, {}, {})
    BY <1>3
  <2> QED
    BY <1>1, <2>1, AtPiece
<1>5. CodeOK(code, label) /\ \A l : ~HasLabel(code, l) /\ ~HasJump(code, l)
  BY <1>4 DEF CodeOK, Piece
<1>6. f.k = "block" /\ DOMAIN f = {"k", "l1", "l2", "decls"}
  BY DEF NoFrame
<1> HIDE DEF f
<1>7. ctl \in Seq({f}) /\ DOMAIN ctl = {1} /\ ctl[1] = f /\ ctl # <<>>
  BY <1>1
<1>8. CtlOK(ctl, label)
  BY <1>6, <1>7 DEF CtlOK, IsSeq, OpenOK
<1>9. \A l : ~Owes(ctl, l) /\ ~Loops(ctl, l)
  BY <1>6, <1>7 DEF Owes, Loops, OwedBy
<1> QED
  BY <1>1, <1>5, <1>7, <1>8, <1>9 DEF LInv

\* Running the code does not touch it.
LEMMA RunStep == ASSUME LInv, Run \/ Done \/ UNCHANGED vars PROVE LInv'
<1>1. /\ UNCHANGED <<code, ctl, label>>
      /\ (phase = "read" <=> phase' = "read")
  BY DEF Run, LoadHL, LoadAddress, StoreWord, Push, Pop, Alloc, LinkFrame, CallOut,
         Jump, NoJump, BackToCaller, Op, Done, vars, parser
<1> QED
  BY <1>1 DEF LInv

\* Every step, of the compiler or of the machine, keeps LInv.
LEMMA NextLInv == LInv /\ [Next]_vars => LInv'
<1> SUFFICES ASSUME LInv, [Next]_vars
             PROVE  LInv'
  OBVIOUS
<1>1. CASE Compile
  BY <1>1, DeclareStep, SimpleStatementStep, OpenBlockStep, CloseBlockStep, CloseBodyStep,
     WhileStep, EndWhileStep, IfStep, EndThenElseStep, EndThenStep, EndElseStep DEF Compile
<1>2. CASE Run \/ Done \/ UNCHANGED vars
  BY <1>2, RunStep
<1> QED
  BY <1>1, <1>2 DEF Next

\* Every label of a function is defined at most once, and every one that is
\* jumped to is defined, or owed by exactly the statements still open.
THEOREM LabelsArePaired == Spec => []LabelsPaired
<1>1. LInv => LabelsPaired
  <2> SUFFICES ASSUME LInv
               PROVE  LabelsPaired
    OBVIOUS
  <2>1. \A l : l \in Owed <=> Owes(ctl, l) \/ (phase = "read" /\ l = ExitLabel)
    <3>1. ctl = <<>> <=> phase # "read"
      BY DEF LInv
    <3> QED
      BY DEF Owed, Owes, OwedBy
  <2>2. \A l : LabelAt(l) = {} <=> ~HasLabel(code, l)
    BY DEF LabelAt, HasLabel
  <2>3. \A l : l \in JumpsTo <=> HasJump(code, l)
    BY DEF JumpsTo, HasJump
  <2>4. \A l \in JumpsTo : (LabelAt(l) = {}) <=> l \in Owed
    BY <2>1, <2>2, <2>3 DEF LInv
  <2>5. \A i, j \in DOMAIN code :
          code[i].op = "label" /\ code[j].op = "label" /\ code[i].n = code[j].n => i = j
    BY DEF LInv, CodeOK, Once
  <2>6. \A i, j \in DOMAIN ctl : i # j /\ ctl[i].k # "block" /\ ctl[j].k # "block"
          => {ctl[i].l1, ctl[i].l2} \cap {ctl[j].l1, ctl[j].l2} = {}
    BY DEF LInv, CtlOK, Labels
  <2> QED
    BY <2>4, <2>5, <2>6 DEF LabelsPaired
<1> QED
  BY <1>1, InitLInv, NextLInv, PTL DEF Spec

-----------------------------------------------------------------------------
(***************************************************************************)
(* What the code of a body does when it runs: its types (TypeOK) and, for  *)
(* a body that names no global and declares nothing inside an if or a      *)
(* while, that no local is ever below SP (LocalsAboveSP) and that the      *)
(* function comes back to its caller with the caller's IX and stack        *)
(* (ReturnsToCaller).  The runs show that without the two conditions it    *)
(* does not.                                                               *)
(*                                                                         *)
(* The invariant follows the code, not the machine: to every instruction   *)
(* belongs a state of knowledge, how many bytes of locals there are, if a  *)
(* word is pushed, and which of HL, DE and that word hold the address of a *)
(* slot.  The parser extends the knowledge with each piece it emits; the   *)
(* machine, wherever control comes from, is in the state known there.      *)
(***************************************************************************)

Flat == Globals = {} /\ Conditional = FALSE

Slots == {n \in -(2 * MaxItems - 2)..(Size - Base - 2) :
            n % 2 = 0 /\ (Flat => n < 0 \/ n >= 4)}

\* What is known before an instruction: bytes of locals, words pushed, and the
\* slots whose addresses HL, DE and the pushed word may be relied on to hold.
Known == [a : 0..(2 * MaxItems - 2), d : {0, 1},
          hl : SUBSET Slots, de : SUBSET Slots, top : SUBSET Slots]
Rest(a) == [a |-> a, d |-> 0, hl |-> {}, de |-> {}, top |-> {}]

Loads == {"imm", "ld", "ldind"}
Stores == {"st", "sthl", "stde"}
Control == {"label", "jp", "jz"}
BodyOps == Loads \cup Stores \cup Control
             \cup {"lea", "push", "pop", "popde", "alloc", "call", "mark"}

\* Instruction x may follow k and m what follows it; L is the bytes of locals
\* at each label.
OperandOK(x) ==
  /\ x.op \in BodyOps
  /\ x.op \in {"ld", "st", "lea"} => x.n \in Slots
  /\ x.op = "imm" => x.n \in -Size..(2 * Size)
  /\ x.op = "alloc" => x.n = 2
  /\ x.op = "label" => x.n # ExitLabel
StackOK(x, k, m) ==
  /\ m.a = IF x.op = "alloc" THEN k.a + 2 ELSE k.a
  /\ x.op = "push" => k.d = 0 /\ m.d = 1
  /\ x.op \in {"pop", "popde"} => k.d = 1 /\ m.d = 0
  /\ x.op \notin {"push", "pop", "popde"} => m.d = k.d
  /\ x.op \in Stores \cup Control \cup {"alloc"} => k.d = 0
  /\ x.op = "call" => k.d = 1
ValuesOK(x, k, m) ==
  /\ \A o \in m.hl : \/ x.op = "lea" /\ o = x.n
                     \/ x.op \notin Loads \cup {"lea", "alloc", "call"} /\ o \in k.hl
  /\ \A o \in m.de : \/ x.op = "popde" /\ o \in k.top
                     \/ x.op \notin {"lea", "call", "popde"} /\ o \in k.de
  /\ \A o \in m.top : /\ m.d = 1
                      /\ \/ x.op = "push" /\ o \in k.hl
                         \/ x.op \notin {"push", "call"} /\ o \in k.top
UseOK(x, k, L) ==
  /\ x.op = "sthl" => k.de # {}
  /\ x.op = "stde" => k.hl # {}
  /\ x.op = "label" => k = Rest(k.a)
  /\ Flat /\ x.op \in Control /\ x.n # ExitLabel => L[x.n] = k.a
Goes(x, k, m, L) == OperandOK(x) /\ StackOK(x, k, m) /\ ValuesOK(x, k, m) /\ UseOK(x, k, L)

\* The piece t takes what is known from k to m.
Takes(t, L, k, m) ==
  /\ IsSeq(t)
  /\ \E K \in [1..(Len(t) + 1) -> Known] :
       /\ K[1] = k /\ K[Len(t) + 1] = m
       /\ \A i \in 1..Len(t) : Goes(t[i], K[i], K[i + 1], L)
       /\ \A i \in 1..(Len(t) + 1) : K[i].a >= k.a

\* The instructions of c from the third to the n-th are known to K.
Body(K, L, c, n) ==
  /\ IsSeq(c) /\ n \in 3..Len(c)
  /\ K \in [1..(n + 1) -> Known] /\ L \in [Nat -> Int]
  /\ K[3] = Rest(0)
  /\ \A i \in 3..n : /\ Goes(c[i], K[i], K[i + 1], L)
                     /\ \A o \in SlotsIn(c[i].in) : o \in Int /\ o >= -K[i].a

-----------------------------------------------------------------------------
(* Pieces *)

\* One instruction is a piece.
LEMMA OneTakes ==
  ASSUME NEW x, NEW L, NEW k \in Known, NEW m \in Known, Goes(x, k, m, L)
  PROVE  Takes(<<x>>, L, k, m)
<1> DEFINE t == <<x>>
           K == [i \in 1..2 |-> IF i = 1 THEN k ELSE m]
<1>1. IsSeq(t) /\ Len(t) = 1 /\ t[1] = x
  <2>1. t \in Seq({x})
    OBVIOUS
  <2> QED
    BY <2>1 DEF IsSeq
<1>2. K \in [1..2 -> Known] /\ K[1] = k /\ K[2] = m
  OBVIOUS
<1>3. m.a >= k.a /\ k.a >= k.a
  <2>1. k.a \in Int /\ m.a \in Int
    BY DEF Known
  <2> QED
    BY <2>1 DEF Goes, StackOK
<1> HIDE DEF t, K
<1>4. \A i \in 1..Len(t) : Goes(t[i], K[i], K[i + 1], L)
  BY <1>1, <1>2
<1>5. \A i \in 1..(Len(t) + 1) : K[i].a >= k.a
  BY <1>1, <1>2, <1>3
<1> QED
  BY <1>1, <1>2, <1>4, <1>5 DEF Takes, t

\* Two pieces, the second from where the first ends.
LEMMA JoinTakes ==
  ASSUME NEW s, NEW t, NEW L, NEW k \in Known, NEW m \in Known, NEW r \in Known,
         Takes(s, L, k, m), Takes(t, L, m, r)
  PROVE  Takes(s \o t, L, k, r)
<1> DEFINE p == Len(s)
           q == Len(t)
           u == s \o t
<1>1. /\ IsSeq(u) /\ p \in Nat /\ q \in Nat /\ Len(u) = p + q
      /\ \A i \in 1..p : u[i] = s[i]
      /\ \A i \in 1..q : u[p + i] = t[i]
  BY ConcatFacts, ConcatLen DEF Takes
<1>2. PICK K \in [1..(p + 1) -> Known] :
        /\ K[1] = k /\ K[p + 1] = m
        /\ \A i \in 1..p : Goes(s[i], K[i], K[i + 1], L)
        /\ \A i \in 1..(p + 1) : K[i].a >= k.a
  BY DEF Takes
<1>3. PICK M \in [1..(q + 1) -> Known] :
        /\ M[1] = m /\ M[q + 1] = r
        /\ \A i \in 1..q : Goes(t[i], M[i], M[i + 1], L)
        /\ \A i \in 1..(q + 1) : M[i].a >= m.a
  BY DEF Takes
<1> HIDE DEF p, q, u
<1> DEFINE N1 == [i \in 1..(p + q + 1) |-> IF i <= p THEN K[i] ELSE M[i - p]]
<1>4. /\ N1 \in [1..(p + q + 1) -> Known]
      /\ \A i \in 1..(p + 1) : N1[i] = K[i]
      /\ \A i \in 1..(q + 1) : N1[p + i] = M[i]
  <2>1. \A i \in 1..(p + q + 1) : ~(i <= p) => i - p \in 1..(q + 1)
    BY <1>1
  <2>2. N1 \in [1..(p + q + 1) -> Known]
    BY <1>1, <1>2, <1>3, <2>1
  <2>3. \A i \in 1..(q + 1) : N1[p + i] = M[i]
    <3> SUFFICES ASSUME NEW i \in 1..(q + 1)
                 PROVE  N1[p + i] = M[i]
      OBVIOUS
    <3>1. p + i \in 1..(p + q + 1) /\ ~(p + i <= p) /\ (p + i) - p = i
      BY <1>1
    <3> QED
      BY <3>1
  <2>4. \A i \in 1..(p + 1) : N1[i] = K[i]
    <3>1. \A i \in 1..p : i \in 1..(p + q + 1) /\ i <= p
      BY <1>1
    <3>2. \A i \in 1..p : N1[i] = K[i]
      BY <3>1
    <3>3. N1[p + 1] = K[p + 1]
      BY <1>1, <1>2, <1>3, <2>3
    <3>4. \A i \in 1..(p + 1) : i \in 1..p \/ i = p + 1
      BY <1>1
    <3> QED
      BY <3>2, <3>3, <3>4
  <2> QED
    BY <2>2, <2>3, <2>4
<1> HIDE DEF N1
<1>5. ASSUME NEW i \in 1..(p + q)
      PROVE  Goes(u[i], N1[i], N1[i + 1], L)
  <2>1. CASE i \in 1..p
    <3>1. i \in 1..(p + 1) /\ i + 1 \in 1..(p + 1)
      BY <1>1, <2>1
    <3> QED
      BY <1>1, <1>2, <1>4, <2>1, <3>1
  <2>2. CASE i \notin 1..p
    <3> DEFINE j == i - p
    <3>1. j \in 1..q /\ j \in 1..(q + 1) /\ j + 1 \in 1..(q + 1) /\ i = p + j
          /\ i + 1 = p + (j + 1)
      BY <1>1, <2>2
    <3> HIDE DEF j
    <3>2. Goes(t[j], M[j], M[j + 1], L)
      BY <1>3, <3>1
    <3>3. u[i] = t[j] /\ N1[i] = M[j] /\ N1[i + 1] = M[j + 1]
      BY <1>1, <1>4, <3>1
    <3> QED
      BY <3>2, <3>3
  <2> QED
    BY <2>1, <2>2
<1>6. ASSUME NEW i \in 1..(p + q + 1)
      PROVE  N1[i].a >= k.a
  <2>1. CASE i \in 1..(p + 1)
    BY <1>2, <1>4, <2>1
  <2>2. CASE i \notin 1..(p + 1)
    <3> DEFINE j == i - p
    <3>1. j \in 1..(q + 1) /\ i = p + j /\ p + 1 \in 1..(p + 1)
      BY <1>1, <2>2
    <3> HIDE DEF j
    <3>2. N1[i] = M[j] /\ M[j].a >= m.a /\ m.a >= k.a /\ M[j] \in Known
      BY <1>2, <1>3, <1>4, <3>1
    <3>3. M[j].a \in Int /\ m.a \in Int /\ k.a \in Int
      BY <3>2 DEF Known
    <3> QED
      BY <3>2, <3>3
  <2> QED
    BY <2>1, <2>2
<1>7. 1 \in 1..(p + 1) /\ q + 1 \in 1..(q + 1) /\ p + q + 1 = p + (q + 1)
  BY <1>1
<1>8. N1[1] = k /\ N1[p + q + 1] = r
  BY <1>2, <1>3, <1>4, <1>7
<1> QED
  BY <1>1, <1>4, <1>5, <1>6, <1>8 DEF Takes, u
-----------------------------------------------------------------------------
(* The pieces of the parser *)

Bytes == 0..(2 * MaxItems - 2)
\* HL holds the address of a slot of h, and so on
St(a, d, h, e, t) == [a |-> a, d |-> d, hl |-> h, de |-> e, top |-> t]
\* nothing is known of HL and DE
Quiet(a, d, t) == St(a, d, {}, {}, t)

\* States of knowledge, and their parts.
LEMMA StFacts ==
  ASSUME NEW a \in Bytes, NEW d \in {0, 1}, NEW h \in SUBSET Slots, NEW e \in SUBSET Slots,
         NEW t \in SUBSET Slots
  PROVE  /\ St(a, d, h, e, t) \in Known
         /\ St(a, d, h, e, t).a = a /\ St(a, d, h, e, t).d = d
         /\ St(a, d, h, e, t).hl = h /\ St(a, d, h, e, t).de = e
         /\ St(a, d, h, e, t).top = t
         /\ Rest(a) = Quiet(a, 0, {})
BY DEF St, Known, Bytes, Rest, Quiet

\* A load forgets HL.
LEMMA LoadGoes ==
  ASSUME NEW a \in Bytes, NEW d \in {0, 1}, NEW h \in SUBSET Slots, NEW t \in SUBSET Slots,
         t # {} => d = 1, NEW n, NEW L, NEW op \in Loads,
         op = "ld" => n \in Slots, op = "imm" => n \in -Size..(2 * Size)
  PROVE  Takes(<<I(op, n)>>, L, St(a, d, h, {}, t), Quiet(a, d, t))
<1> DEFINE k == St(a, d, h, {}, t)
           m == St(a, d, {}, {}, t)
           x == I(op, n)
<1>1. /\ k \in Known /\ k.a = a /\ k.d = d /\ k.hl = h /\ k.de = {} /\ k.top = t
      /\ m \in Known /\ m.a = a /\ m.d = d /\ m.hl = {} /\ m.de = {} /\ m.top = t
  BY StFacts
<1>2. x.op = op /\ x.n = n /\ m = Quiet(a, d, t)
  BY DEF I, Quiet
<1> HIDE DEF k, m, x
<1>3. OperandOK(x)
  BY <1>2 DEF OperandOK, BodyOps, Loads
<1>4. StackOK(x, k, m)
  BY <1>1, <1>2 DEF StackOK, Loads, Stores, Control
<1>5. ValuesOK(x, k, m)
  BY <1>1, <1>2 DEF ValuesOK, Loads
<1>6. UseOK(x, k, L)
  BY <1>2 DEF UseOK, Loads, Control
<1>7. Goes(x, k, m, L)
  BY <1>3, <1>4, <1>5, <1>6 DEF Goes
<1>8. Takes(<<x>>, L, k, m)
  BY <1>1, <1>7, OneTakes
<1> QED
  BY <1>2, <1>8 DEF k, x

\* The address of a slot is known after lea.
LEMMA LeaGoes ==
  ASSUME NEW a \in Bytes, NEW d \in {0, 1}, NEW t \in SUBSET Slots,
         t # {} => d = 1, NEW n \in Slots, NEW L
  PROVE  Takes(<<I("lea", n)>>, L, Quiet(a, d, t), St(a, d, {n}, {}, t))
<1> DEFINE k == St(a, d, {}, {}, t)
           m == St(a, d, {n}, {}, t)
           x == I("lea", n)
<1>1. /\ k \in Known /\ k.a = a /\ k.d = d /\ k.hl = {} /\ k.de = {} /\ k.top = t
      /\ m \in Known /\ m.a = a /\ m.d = d /\ m.hl = {n} /\ m.de = {} /\ m.top = t
  BY StFacts
<1>2. x.op = "lea" /\ x.n = n /\ k = Quiet(a, d, t)
  BY DEF I, Quiet
<1> HIDE DEF k, m, x
<1>3. OperandOK(x)
  BY <1>2 DEF OperandOK, BodyOps
<1>4. StackOK(x, k, m)
  BY <1>1, <1>2 DEF StackOK, Stores, Control
<1>5. ValuesOK(x, k, m)
  BY <1>1, <1>2 DEF ValuesOK
<1>6. UseOK(x, k, L)
  BY <1>2 DEF UseOK, Control
<1>7. Goes(x, k, m, L)
  BY <1>3, <1>4, <1>5, <1>6 DEF Goes
<1>8. Takes(<<x>>, L, k, m)
  BY <1>1, <1>7, OneTakes
<1> QED
  BY <1>2, <1>8 DEF m, x

\* A store, whose address is in the instruction, in DE or in HL.
LEMMA StoreGoes ==
  ASSUME NEW a \in Bytes, NEW h \in SUBSET Slots, NEW e \in SUBSET Slots, NEW n, NEW L,
         NEW op \in Stores,
         op = "st" => n \in Slots, op = "sthl" => e # {}, op = "stde" => h # {}
  PROVE  Takes(<<I(op, n)>>, L, St(a, 0, h, e, {}), Quiet(a, 0, {}))
<1> DEFINE k == St(a, 0, h, e, {})
           m == St(a, 0, {}, {}, {})
           x == I(op, n)
<1>1. /\ k \in Known /\ k.a = a /\ k.d = 0 /\ k.hl = h /\ k.de = e /\ k.top = {}
      /\ m \in Known /\ m.a = a /\ m.d = 0 /\ m.hl = {} /\ m.de = {} /\ m.top = {}
  BY StFacts
<1>2. x.op = op /\ x.n = n /\ m = Quiet(a, 0, {})
  BY DEF I, Quiet
<1> HIDE DEF k, m, x
<1>3. OperandOK(x)
  BY <1>2 DEF OperandOK, BodyOps, Stores
<1>4. StackOK(x, k, m)
  BY <1>1, <1>2 DEF StackOK, Stores, Control
<1>5. ValuesOK(x, k, m)
  BY <1>1 DEF ValuesOK
<1>6. UseOK(x, k, L)
  BY <1>1, <1>2 DEF UseOK, Stores, Control
<1>7. Goes(x, k, m, L)
  BY <1>3, <1>4, <1>5, <1>6 DEF Goes
<1>8. Takes(<<x>>, L, k, m)
  BY <1>1, <1>7, OneTakes
<1> QED
  BY <1>2, <1>8 DEF k, x

\* A push: what was known of HL is known of the top of the stack.
LEMMA PushGoes ==
  ASSUME NEW a \in Bytes, NEW h \in SUBSET Slots, NEW n, NEW L
  PROVE  Takes(<<I("push", n)>>, L, St(a, 0, h, {}, {}), Quiet(a, 1, h))
<1> DEFINE k == St(a, 0, h, {}, {})
           m == St(a, 1, {}, {}, h)
           x == I("push", n)
<1>1. /\ k \in Known /\ k.a = a /\ k.d = 0 /\ k.hl = h /\ k.de = {} /\ k.top = {}
      /\ m \in Known /\ m.a = a /\ m.d = 1 /\ m.hl = {} /\ m.de = {} /\ m.top = h
  BY StFacts
<1>2. x.op = "push" /\ m = Quiet(a, 1, h)
  BY DEF I, Quiet
<1> HIDE DEF k, m, x
<1>3. OperandOK(x)
  BY <1>2 DEF OperandOK, BodyOps
<1>4. StackOK(x, k, m)
  BY <1>1, <1>2 DEF StackOK, Stores, Control
<1>5. ValuesOK(x, k, m)
  BY <1>1, <1>2 DEF ValuesOK
<1>6. UseOK(x, k, L)
  BY <1>2 DEF UseOK, Control
<1>7. Goes(x, k, m, L)
  BY <1>3, <1>4, <1>5, <1>6 DEF Goes
<1>8. Takes(<<x>>, L, k, m)
  BY <1>1, <1>7, OneTakes
<1> QED
  BY <1>2, <1>8 DEF k, x

\* A pop into DE: what was known of the top of the stack is known of DE.
LEMMA PopGoes ==
  ASSUME NEW a \in Bytes, NEW h \in SUBSET Slots, NEW t \in SUBSET Slots, NEW n, NEW L,
         NEW op \in {"pop", "popde"}
  PROVE  Takes(<<I(op, n)>>, L, St(a, 1, h, {}, t),
               St(a, 0, h, IF op = "popde" THEN t ELSE {}, {}))
<1> DEFINE k == St(a, 1, h, {}, t)
           e == IF op = "popde" THEN t ELSE {}
           m == St(a, 0, h, e, {})
           x == I(op, n)
<1>1. /\ k \in Known /\ k.a = a /\ k.d = 1 /\ k.hl = h /\ k.de = {} /\ k.top = t
      /\ m \in Known /\ m.a = a /\ m.d = 0 /\ m.hl = h /\ m.de = e /\ m.top = {}
  BY StFacts
<1>2. x.op = op
  BY DEF I
<1> HIDE DEF k, m, x
<1>3. OperandOK(x)
  BY <1>2 DEF OperandOK, BodyOps
<1>4. StackOK(x, k, m)
  BY <1>1, <1>2 DEF StackOK, Stores, Control
<1>5. ValuesOK(x, k, m)
  <2>1. \A o \in m.hl : x.op \notin Loads \cup {"lea", "alloc", "call"} /\ o \in k.hl
    BY <1>1, <1>2 DEF Loads
  <2>2. \A o \in m.de : x.op = "popde" /\ o \in k.top
    BY <1>1, <1>2
  <2> QED
    BY <1>1, <2>1, <2>2 DEF ValuesOK
<1>6. UseOK(x, k, L)
  BY <1>2 DEF UseOK, Control
<1>7. Goes(x, k, m, L)
  BY <1>3, <1>4, <1>5, <1>6 DEF Goes
<1>8. Takes(<<x>>, L, k, m)
  BY <1>1, <1>7, OneTakes
<1> QED
  BY <1>8 DEF k, m, x

\* A call: the callee may use all it finds.
LEMMA CallGoes ==
  ASSUME NEW a \in Bytes, NEW n, NEW L
  PROVE  Takes(<<I("call", n)>>, L, Quiet(a, 1, {}), Quiet(a, 1, {}))
<1> DEFINE k == St(a, 1, {}, {}, {})
           x == I("call", n)
<1>1. /\ k \in Known /\ k.a = a /\ k.d = 1 /\ k.hl = {} /\ k.de = {} /\ k.top = {}
  BY StFacts
<1>2. x.op = "call" /\ k = Quiet(a, 1, {})
  BY DEF I, Quiet
<1> HIDE DEF k, x
<1>3. OperandOK(x)
  BY <1>2 DEF OperandOK, BodyOps
<1>4. StackOK(x, k, k)
  BY <1>1, <1>2 DEF StackOK, Stores, Control
<1>5. ValuesOK(x, k, k)
  BY <1>1 DEF ValuesOK
<1>6. UseOK(x, k, L)
  BY <1>2 DEF UseOK, Control
<1>7. Goes(x, k, k, L)
  BY <1>3, <1>4, <1>5, <1>6 DEF Goes
<1>8. Takes(<<x>>, L, k, k)
  BY <1>1, <1>7, OneTakes
<1> QED
  BY <1>2, <1>8 DEF x

\* A mark, a label or a jump, between statements.
LEMMA ControlGoes ==
  ASSUME NEW a \in Bytes, NEW n, NEW L, NEW op \in Control \cup {"mark"},
         op = "label" => n # ExitLabel,
         Flat /\ op \in Control /\ n # ExitLabel => L[n] = a
  PROVE  Takes(<<I(op, n)>>, L, Rest(a), Rest(a))
<1> DEFINE k == Rest(a)
           x == I(op, n)
<1>1. /\ k \in Known /\ k.a = a /\ k.d = 0 /\ k.hl = {} /\ k.de = {} /\ k.top = {}
  BY DEF Known, Bytes, Rest
<1>2. x.op = op /\ x.n = n /\ k = Rest(k.a)
  BY <1>1 DEF I
<1> HIDE DEF k, x
<1>3. OperandOK(x)
  BY <1>2 DEF OperandOK, BodyOps, Control
<1>4. StackOK(x, k, k)
  BY <1>1, <1>2 DEF StackOK, Stores, Control
<1>5. ValuesOK(x, k, k)
  BY <1>1 DEF ValuesOK
<1>6. UseOK(x, k, L)
  BY <1>1, <1>2 DEF UseOK, Control
<1>7. Goes(x, k, k, L)
  BY <1>3, <1>4, <1>5, <1>6 DEF Goes
<1>8. Takes(<<x>>, L, k, k)
  BY <1>1, <1>7, OneTakes
<1> QED
  BY <1>8 DEF k, x

\* Two bytes more.
LEMMA AllocGoes ==
  ASSUME NEW a \in Bytes, a + 2 \in Bytes, NEW L
  PROVE  Takes(<<I("alloc", SlotSize)>>, L, Rest(a), Rest(a + 2))
<1> DEFINE k == Rest(a)
           m == Rest(a + 2)
           x == I("alloc", SlotSize)
<1>1. /\ k \in Known /\ k.a = a /\ k.d = 0
      /\ m \in Known /\ m.a = a + 2 /\ m.d = 0 /\ m.hl = {} /\ m.de = {} /\ m.top = {}
  BY DEF Known, Bytes, Rest
<1>2. x.op = "alloc" /\ x.n = 2
  BY DEF I, SlotSize
<1> HIDE DEF k, m, x
<1>3. OperandOK(x)
  BY <1>2 DEF OperandOK, BodyOps
<1>4. StackOK(x, k, m)
  BY <1>1, <1>2 DEF StackOK, Stores, Control
<1>5. ValuesOK(x, k, m)
  BY <1>1 DEF ValuesOK
<1>6. UseOK(x, k, L)
  BY <1>2 DEF UseOK, Control
<1>7. Goes(x, k, m, L)
  BY <1>3, <1>4, <1>5, <1>6 DEF Goes
<1>8. Takes(<<x>>, L, k, m)
  BY <1>1, <1>7, OneTakes
<1> QED
  BY <1>8 DEF k, m, x

\* Two instructions in a row.
LEMMA TwoTake ==
  ASSUME NEW x, NEW y, NEW L, NEW k \in Known, NEW m \in Known, NEW r \in Known,
         Takes(<<x>>, L, k, m), Takes(<<y>>, L, m, r)
  PROVE  Takes(<<x, y>>, L, k, r)
BY JoinTakes, TwoJoined

\* No code at all.
LEMMA NoneTakes ==
  ASSUME NEW L, NEW k \in Known
  PROVE  Takes(<<>>, L, k, k)
<1> DEFINE t == <<>>
           K == [i \in 1..1 |-> k]
<1>1. IsSeq(t) /\ Len(t) = 0
  <2>1. t \in Seq({})
    OBVIOUS
  <2> QED
    BY <2>1 DEF IsSeq
<1>2. K \in [1..1 -> Known] /\ K[1] = k
  OBVIOUS
<1>3. k.a >= k.a
  BY DEF Known
<1> HIDE DEF t, K
<1>4. \A i \in 1..(Len(t) + 1) : K[i].a >= k.a
  BY <1>1, <1>2, <1>3
<1>5. K \in [1..(Len(t) + 1) -> Known] /\ K[Len(t) + 1] = k
  BY <1>1, <1>2
<1>6. \A i \in 1..Len(t) : Goes(t[i], K[i], K[i + 1], L)
  BY <1>1
<1> QED
  BY <1>1, <1>2, <1>4, <1>5, <1>6 DEF Takes, t

\* What a name or a literal stands for can be read.
Readable(s, e) == e \in DOMAIN Lits \/ OffsetOf(s, e) \in Slots

\* The code of an expression leaves what is pushed alone.
LEMMA EvalTakes ==
  ASSUME NEW a \in Bytes, NEW d \in {0, 1}, NEW t \in SUBSET Slots, t # {} => d = 1,
         NEW s, NEW e, NEW L, Readable(s, e)
  PROVE  Takes(Eval(s, e), L, Quiet(a, d, t), Quiet(a, d, t))
<1> DEFINE q == Quiet(a, d, t)
<1>1. q \in Known /\ q = St(a, d, {}, {}, t)
  BY StFacts DEF Quiet
<1>2. CASE e \in DOMAIN Lits
  <2>1. Lits[e] \in -Size..(2 * Size)
    BY <1>2, LitsAssumption
  <2>2. Takes(<<I("imm", Lits[e])>>, L, St(a, d, {}, {}, t), q)
    BY <2>1, LoadGoes DEF Loads
  <2> QED
    BY <1>1, <1>2, <2>2 DEF Eval
<1>3. CASE e \notin DOMAIN Lits
  <2> DEFINE o == OffsetOf(s, e)
  <2>1. o \in Slots
    BY <1>3 DEF Readable
  <2>2. Eval(s, e) = LoadLocal(o)
    BY <1>3 DEF Eval
  <2> HIDE DEF o
  <2>3. Takes(<<I("ld", o)>>, L, St(a, d, {}, {}, t), q)
    BY <2>1, LoadGoes DEF Loads
  <2>4. Takes(<<I("lea", o), I("ldind", 0)>>, L, q, q)
    <3> DEFINE m == St(a, d, {o}, {}, t)
    <3>1. m \in Known
      BY <2>1, StFacts
    <3>2. Takes(<<I("lea", o)>>, L, q, m)
      BY <2>1, LeaGoes
    <3>3. Takes(<<I("ldind", 0)>>, L, m, q)
      BY <2>1, LoadGoes DEF Loads
    <3> HIDE DEF m, q
    <3> QED
      BY <1>1, <3>1, <3>2, <3>3, TwoTake
  <2> QED
    BY <1>1, <2>2, <2>3, <2>4 DEF LoadLocal
<1> QED
  BY <1>2, <1>3

\* The store of an initializer, near or far.
LEMMA InitStoreTakes ==
  ASSUME NEW a \in Bytes, NEW o \in Slots, NEW L
  PROVE  Takes(InitStore(o), L, Rest(a), Rest(a))
<1> DEFINE q0 == Quiet(a, 0, {})
           q1 == Quiet(a, 1, {})
           q2 == St(a, 1, {o}, {}, {})
           q3 == St(a, 0, {o}, {}, {})
<1>1. /\ q0 \in Known /\ q1 \in Known /\ q2 \in Known /\ q3 \in Known
      /\ q0 = Rest(a) /\ q0 = St(a, 0, {}, {}, {})
  BY StFacts DEF Quiet
<1>2. Takes(<<I("st", o)>>, L, q0, q0)
  <2>1. Takes(<<I("st", o)>>, L, St(a, 0, {}, {}, {}), q0)
    BY StoreGoes DEF Stores
  <2> QED
    BY <1>1, <2>1
<1>3. Takes(<<I("push", 0)>>, L, q0, q1)
  <2>1. Takes(<<I("push", 0)>>, L, St(a, 0, {}, {}, {}), q1)
    BY PushGoes
  <2> QED
    BY <1>1, <2>1
<1>4. Takes(<<I("lea", o)>>, L, q1, q2)
  BY LeaGoes
<1>5. Takes(<<I("popde", 0)>>, L, q2, q3)
  <2>1. Takes(<<I("popde", 0)>>, L, St(a, 1, {o}, {}, {}),
              St(a, 0, {o}, IF "popde" = "popde" THEN {} ELSE {}, {}))
    BY PopGoes
  <2> QED
    BY <2>1
<1>6. Takes(<<I("stde", 0)>>, L, q3, q0)
  BY StoreGoes DEF Stores
<1> HIDE DEF q0, q1, q2, q3
<1>7. Takes(<<I("push", 0), I("lea", o)>>, L, q0, q2)
  BY <1>1, <1>3, <1>4, TwoTake
<1>8. Takes(<<I("popde", 0), I("stde", 0)>>, L, q2, q0)
  BY <1>1, <1>5, <1>6, TwoTake
<1>9. Takes(<<I("push", 0), I("lea", o)>> \o <<I("popde", 0), I("stde", 0)>>, L, q0, q0)
  BY <1>1, <1>7, <1>8, JoinTakes
<1>10. <<I("push", 0), I("lea", o), I("popde", 0), I("stde", 0)>>
         = <<I("push", 0), I("lea", o)>> \o <<I("popde", 0), I("stde", 0)>>
  BY FourJoined
<1> QED
  BY <1>1, <1>2, <1>9, <1>10 DEF InitStore

\* An assignment, whose address waits on the stack while the value is read.
LEMMA AssignToTakes ==
  ASSUME NEW a \in Bytes, NEW o \in Slots, NEW s, NEW e, NEW L, Readable(s, e)
  PROVE  Takes(AssignTo(o, Eval(s, e)), L, Rest(a), Rest(a))
<1> DEFINE q0 == Quiet(a, 0, {})
           q1 == St(a, 0, {o}, {}, {})
           q2 == Quiet(a, 1, {o})
           q3 == St(a, 0, {}, {o}, {})
           v == Eval(s, e)
<1>1. /\ q0 \in Known /\ q1 \in Known /\ q2 \in Known /\ q3 \in Known
      /\ q0 = Rest(a) /\ q0 = St(a, 0, {}, {}, {})
  BY StFacts DEF Quiet
<1>2. Takes(<<I("st", o)>>, L, q0, q0)
  <2>1. Takes(<<I("st", o)>>, L, St(a, 0, {}, {}, {}), q0)
    BY StoreGoes DEF Stores
  <2> QED
    BY <1>1, <2>1
<1>3. Takes(v, L, q0, q0) /\ Takes(v, L, q2, q2)
  BY EvalTakes
<1>4. Takes(<<I("lea", o)>>, L, q0, q1)
  BY LeaGoes
<1>5. Takes(<<I("push", 0)>>, L, q1, q2)
  BY PushGoes
<1>6. Takes(<<I("popde", 0)>>, L, q2, q3)
  <2>1. Takes(<<I("popde", 0)>>, L, St(a, 1, {}, {}, {o}),
              St(a, 0, {}, IF "popde" = "popde" THEN {o} ELSE {}, {}))
    BY PopGoes
  <2> QED
    BY <2>1 DEF Quiet
<1>7. Takes(<<I("sthl", 0)>>, L, q3, q0)
  BY StoreGoes DEF Stores
<1> HIDE DEF q0, q1, q2, q3, v
<1>8. Takes(<<I("lea", o), I("push", 0)>>, L, q0, q2)
  BY <1>1, <1>4, <1>5, TwoTake
<1>9. Takes(<<I("popde", 0), I("sthl", 0)>>, L, q2, q0)
  BY <1>1, <1>6, <1>7, TwoTake
<1>10. Takes(<<I("lea", o), I("push", 0)>> \o v, L, q0, q2)
  BY <1>1, <1>3, <1>8, JoinTakes
<1>11. Takes((<<I("lea", o), I("push", 0)>> \o v) \o <<I("popde", 0), I("sthl", 0)>>, L, q0, q0)
  BY <1>1, <1>9, <1>10, JoinTakes
<1>12. Takes(v \o <<I("st", o)>>, L, q0, q0)
  BY <1>1, <1>2, <1>3, JoinTakes
<1> QED
  BY <1>1, <1>11, <1>12 DEF AssignTo, v

-----------------------------------------------------------------------------
(* The code as a whole *)

\* It begins with the link of the frame, before which nothing is in scope.
LinkedIn(c) == /\ c[1].op = "pushix" /\ c[2].op = "ldix"
               /\ SlotsIn(c[1].in) = {} /\ SlotsIn(c[2].in) = {}
FlowTo(c, L, k) ==
  LinkedIn(c) /\ \E K : Body(K, L, c, Len(c)) /\ K[Len(c) + 1] = k

\* Code that grows by a piece that begins where the code ends.
LEMMA Grow ==
  ASSUME NEW c, NEW L, NEW k \in Known, NEW m \in Known, FlowTo(c, L, k),
         NEW t, Takes(t, L, k, m), NEW p, NEW s, \A o \in SlotsIn(s) : o \in Int /\ o >= -k.a
  PROVE  FlowTo(c \o At(t, p, s), L, m)
<1> DEFINE b == At(t, p, s)
           u == c \o b
           n == Len(c)
           q == Len(b)
<1>1. IsSeq(c) /\ IsSeq(t) /\ n \in 3..Len(c) /\ L \in [Nat -> Int]
  BY DEF FlowTo, Body, Takes
<1>2. /\ IsSeq(b) /\ q = Len(t)
      /\ \A i \in 1..q : b[i].op = t[i].op /\ b[i].n = t[i].n /\ b[i].in = s
  <2>1. /\ DOMAIN b = DOMAIN t
        /\ \A i \in DOMAIN t : b[i].op = t[i].op /\ b[i].n = t[i].n /\ b[i].in = s
    BY DEF At
  <2>2. b = [i \in DOMAIN t |-> b[i]]
    BY DEF At
  <2> HIDE DEF b
  <2>3. IsSeq(b) /\ q = Len(t)
    BY <1>1, <2>2, MapFacts
  <2>4. DOMAIN b = 1..q
    BY <2>3, SeqFacts
  <2> QED
    BY <2>1, <2>3, <2>4
<1> HIDE DEF b
<1>3. /\ IsSeq(u) /\ n \in Nat /\ q \in Nat /\ Len(u) = n + q /\ n >= 3
      /\ \A i \in 1..n : u[i] = c[i]
      /\ \A i \in 1..q : u[n + i] = b[i]
  <2>1. /\ IsSeq(u) /\ n \in Nat /\ q \in Nat
        /\ \A i \in 1..n : u[i] = c[i]
        /\ \A i \in 1..q : u[n + i] = b[i]
    BY <1>1, <1>2, ConcatFacts
  <2>2. Len(u) = n + q
    BY <1>1, <1>2, ConcatLen
  <2>3. n >= 3
    BY <1>1, <2>1
  <2> QED
    BY <2>1, <2>2, <2>3
<1>4. PICK K \in [1..(n + 1) -> Known] :
        /\ K[3] = Rest(0) /\ K[n + 1] = k
        /\ \A i \in 3..n : /\ Goes(c[i], K[i], K[i + 1], L)
                           /\ \A o \in SlotsIn(c[i].in) : o \in Int /\ o >= -K[i].a
  BY DEF FlowTo, Body
<1>5. PICK M \in [1..(q + 1) -> Known] :
        /\ M[1] = k /\ M[q + 1] = m
        /\ \A i \in 1..q : Goes(t[i], M[i], M[i + 1], L)
        /\ \A i \in 1..(q + 1) : M[i].a >= k.a
  BY <1>2 DEF Takes
<1> HIDE DEF n, q, u
<1> DEFINE W == [i \in 1..(n + q + 1) |-> IF i <= n THEN K[i] ELSE M[i - n]]
<1>6. /\ W \in [1..(n + q + 1) -> Known]
      /\ \A i \in 1..(n + 1) : W[i] = K[i]
      /\ \A i \in 1..(q + 1) : W[n + i] = M[i]
  <2>1. \A i \in 1..(n + q + 1) : ~(i <= n) => i - n \in 1..(q + 1)
    BY <1>3
  <2>2. W \in [1..(n + q + 1) -> Known]
    BY <1>3, <1>4, <1>5, <2>1
  <2>3. \A i \in 1..(q + 1) : W[n + i] = M[i]
    <3> SUFFICES ASSUME NEW i \in 1..(q + 1)
                 PROVE  W[n + i] = M[i]
      OBVIOUS
    <3>1. n + i \in 1..(n + q + 1) /\ ~(n + i <= n) /\ (n + i) - n = i
      BY <1>3
    <3> QED
      BY <3>1
  <2>4. \A i \in 1..(n + 1) : W[i] = K[i]
    <3>1. \A i \in 1..n : i \in 1..(n + q + 1) /\ i <= n
      BY <1>3
    <3>2. \A i \in 1..n : W[i] = K[i]
      BY <3>1
    <3>3. W[n + 1] = K[n + 1]
      BY <1>3, <1>4, <1>5, <2>3
    <3>4. \A i \in 1..(n + 1) : i \in 1..n \/ i = n + 1
      BY <1>3
    <3> QED
      BY <3>2, <3>3, <3>4
  <2> QED
    BY <2>2, <2>3, <2>4
<1> HIDE DEF W
<1>7. ASSUME NEW i \in 3..(n + q)
      PROVE  /\ Goes(u[i], W[i], W[i + 1], L)
             /\ \A o \in SlotsIn(u[i].in) : o \in Int /\ o >= -W[i].a
  <2>1. CASE i \in 3..n
    <3>1. i \in 1..(n + 1) /\ i + 1 \in 1..(n + 1) /\ i \in 1..n
      BY <1>3, <2>1
    <3>2. u[i] = c[i] /\ W[i] = K[i] /\ W[i + 1] = K[i + 1]
      BY <1>3, <1>6, <3>1
    <3> QED
      BY <1>4, <2>1, <3>2
  <2>2. CASE i \notin 3..n
    <3> DEFINE j == i - n
    <3>1. j \in 1..q /\ j \in 1..(q + 1) /\ j + 1 \in 1..(q + 1) /\ i = n + j
          /\ i + 1 = n + (j + 1)
      BY <1>3, <2>2
    <3> HIDE DEF j
    <3>2. Goes(t[j], M[j], M[j + 1], L)
      BY <1>5, <3>1
    <3>3. u[i] = b[j] /\ W[i] = M[j] /\ W[i + 1] = M[j + 1]
      BY <1>3, <1>6, <3>1
    <3>4. b[j].op = t[j].op /\ b[j].n = t[j].n /\ b[j].in = s
      BY <1>2, <3>1 DEF q
    <3>5. Goes(u[i], W[i], W[i + 1], L)
      BY <3>2, <3>3, <3>4 DEF Goes, OperandOK, StackOK, ValuesOK, UseOK
    <3>6. ASSUME NEW o \in SlotsIn(s)
          PROVE  o \in Int /\ o >= -M[j].a
      <4>1. M[j].a >= k.a /\ o \in Int /\ o >= -k.a
        BY <1>5, <3>1
      <4>2. M[j].a \in Int /\ k.a \in Int
        BY <1>5, <3>1 DEF Known
      <4> QED
        BY <4>1, <4>2
    <3> QED
      BY <3>3, <3>4, <3>5, <3>6
  <2> QED
    BY <2>1, <2>2
<1>8. 3 \in 1..(n + 1) /\ q + 1 \in 1..(q + 1) /\ n + q + 1 = n + (q + 1)
      /\ n + q \in 3..(n + q) /\ 1 \in 1..n /\ 2 \in 1..n
  <2>1. n \in Nat /\ q \in Nat /\ n >= 3
    BY <1>3
  <2> QED
    BY <2>1
<1>9. W[3] = Rest(0) /\ W[n + q + 1] = m
  BY <1>4, <1>5, <1>6, <1>8
<1>10. Body(W, L, u, Len(u))
  BY <1>1, <1>3, <1>6, <1>7, <1>8, <1>9 DEF Body
<1>11. LinkedIn(u)
  <2>1. u[1] = c[1] /\ u[2] = c[2]
    BY <1>3, <1>8
  <2> QED
    BY <2>1 DEF FlowTo, LinkedIn
<1>12. FlowTo(u, L, m)
  BY <1>3, <1>9, <1>10, <1>11 DEF FlowTo
<1> QED
  BY <1>12 DEF u, b

-----------------------------------------------------------------------------
(* The parser *)

Kinds == {"block", "while", "then", "else"}
\* The open statements: no local is declared while one of them may be skipped,
\* so at their labels there are as many as now.
OpenAt(c, L, a) ==
  \A i \in DOMAIN c : /\ c[i].k \in Kinds
                      /\ Flat => \A l \in Labels(c[i]) : L[l] = a
ScopesAt(s, o) ==
  /\ IsSeq(s)
  /\ \A i \in DOMAIN s : \A v \in DOMAIN s[i] : s[i][v] \in Slots /\ s[i][v] >= o
Parsed(L) == FlowTo(code, L, Rest(-off)) /\ OpenAt(ctl, L, -off)

ReadInv ==
  /\ LInv /\ phase = "read" /\ mode \in {"stmt", "end"}
  /\ IsSeq(prog) /\ off \in Int /\ off % 2 = 0 /\ -off \in Bytes
  /\ 2 - off <= 2 * Cardinality(Started)
  /\ ScopesAt(scopes, off)
  /\ \E L \in [Nat -> Int] : Parsed(L)

\* What is visible is at a slot, and the slots of the scopes are in use.
LEMMA ScopeSlots ==
  ASSUME NEW s, NEW o \in Int, ScopesAt(s, o)
  PROVE  /\ \A v : Visible(s, v) => OffsetOf(s, v) \in Slots
         /\ \A x \in SlotsIn(s) : x \in Int /\ x >= o
<1>1. \A i \in DOMAIN s : \A v \in DOMAIN s[i] :
        s[i][v] \in Slots /\ s[i][v] \in Int /\ s[i][v] >= o
  BY DEF ScopesAt, Slots
<1>2. Len(s) \in Nat /\ DOMAIN s = 1..Len(s)
  BY SeqFacts DEF ScopesAt
<1>3. ASSUME NEW v, Visible(s, v)
      PROVE  OffsetOf(s, v) \in Slots
  <2> DEFINE S == {i \in DOMAIN s : v \in DOMAIN s[i]}
  <2>1. S \in SUBSET (0..Len(s)) /\ S # {}
    BY <1>2, <1>3 DEF Visible
  <2>2. \E m \in S : \A x \in S : m >= x
    BY <1>2, <2>1, LargestNat
  <2>3. Max(S) \in S
    BY <2>2 DEF Max
  <2>4. ScopeOf(s, v) \in S
    BY <2>3 DEF ScopeOf
  <2> QED
    BY <1>1, <2>4 DEF OffsetOf
<1>4. \A x \in SlotsIn(s) : x \in Int /\ x >= o
  BY <1>1, <1>2 DEF SlotsIn
<1> QED
  BY <1>3, <1>4

\* So whatever an expression may name can be read.
LEMMA UsableReads ==
  ASSUME ReadInv, NEW e, Usable(e)
  PROVE  Readable(scopes, e)
BY ScopeSlots DEF ReadInv, Usable, Readable

\* They can be counted.
LEMMA StartedFinite ==
  ASSUME IsSeq(prog)
  PROVE  IsFiniteSet(Started) /\ Cardinality(Started) \in Nat
<1>1. Len(prog) \in Nat /\ DOMAIN prog = 1..Len(prog)
  BY SeqFacts
<1>2. IsFiniteSet(1..Len(prog))
  BY <1>1, FS_Interval
<1>3. Started \in SUBSET (1..Len(prog))
  BY <1>1 DEF Started
<1>4. IsFiniteSet(Started)
  BY <1>2, <1>3, FS_Subset
<1> QED
  BY <1>4, FS_CardinalityType

\* The items a body has begun to read become more.
LEMMA StartedGrows ==
  ASSUME IsSeq(prog), NEW item, prog' = Append(prog, item)
  PROVE  /\ IsSeq(prog') /\ Cardinality(Started) \in Nat /\ Cardinality(Started') \in Nat
         /\ Cardinality(Started') >= Cardinality(Started)
         /\ item.k \notin {"}", "else", "fi", "od"}
              => Cardinality(Started') = Cardinality(Started) + 1
<1> DEFINE n == Len(prog)
           E == {"}", "else", "fi", "od"}
<1>1. /\ IsSeq(prog') /\ n \in Nat /\ DOMAIN prog = 1..n /\ DOMAIN prog' = 1..(n + 1)
      /\ \A i \in 1..n : prog'[i] = prog[i]
      /\ prog'[n + 1] = item
  BY AppendFacts
<1> HIDE DEF n
<1>2. /\ Started \in SUBSET (1..n) /\ n + 1 \notin Started
      /\ Started' = Started \cup (IF item.k \notin E THEN {n + 1} ELSE {})
  <2>1. Started = {i \in 1..n : prog[i].k \notin E}
    BY <1>1 DEF Started
  <2>2. Started' = {i \in 1..(n + 1) : prog'[i].k \notin E}
    BY <1>1 DEF Started
  <2> HIDE DEF E
  <2>3. n + 1 \notin 1..n /\ \A i : i \in 1..(n + 1) <=> i \in 1..n \/ i = n + 1
    BY <1>1
  <2>4. \A i : i \in Started' <=> i \in Started \/ (item.k \notin E /\ i = n + 1)
    BY <1>1, <2>1, <2>2, <2>3
  <2> QED
    BY <2>1, <2>3, <2>4
<1>3. IsFiniteSet(Started)
  BY StartedFinite
<1>4. IsSeq(prog')
  BY <1>1
<1>5. Cardinality(Started) \in Nat
  BY <1>3, FS_CardinalityType
<1>6. Cardinality(Started \cup {n + 1}) = Cardinality(Started) + 1
  BY <1>2, <1>3, FS_AddElement
<1>7. CASE item.k \notin E
  <2>1. Started' = Started \cup {n + 1}
    BY <1>2, <1>7
  <2> QED
    BY <1>1, <1>5, <1>6, <2>1
<1>8. CASE item.k \in E
  <2>1. Started' = Started
    BY <1>2, <1>8
  <2>2. Cardinality(Started') = Cardinality(Started)
    BY <2>1
  <2>3. Cardinality(Started') \in Nat /\ Cardinality(Started') >= Cardinality(Started)
    BY <1>5, <2>2
  <2> QED
    BY <1>4, <1>5, <1>8, <2>3
<1> QED
  BY <1>7, <1>8

\* What a step of the parser that goes on reading has to show.
LEMMA ReadStep ==
  ASSUME ReadInv, LInv', phase' = "read", mode' \in {"stmt", "end"}, off' = off,
         NEW item, prog' = Append(prog, item), ScopesAt(scopes', off),
         NEW L \in [Nat -> Int], FlowTo(code', L, Rest(-off)), OpenAt(ctl', L, -off)
  PROVE  ReadInv'
<1>1. Parsed(L)'
  BY DEF Parsed
<1>2. IsSeq(prog') /\ 2 - off' <= 2 * Cardinality(Started')
  <2>1. IsSeq(prog) /\ off \in Int /\ 2 - off <= 2 * Cardinality(Started)
    BY DEF ReadInv
  <2>2. /\ IsSeq(prog') /\ Cardinality(Started) \in Nat /\ Cardinality(Started') \in Nat
        /\ Cardinality(Started') >= Cardinality(Started)
    BY <2>1, StartedGrows
  <2> DEFINE u == Cardinality(Started)
             w == Cardinality(Started')
  <2>3. 2 - off <= 2 * u /\ u \in Nat /\ w \in Nat /\ w >= u
    BY <2>1, <2>2
  <2> HIDE DEF u, w
  <2>4. 2 - off <= 2 * w
    BY <2>1, <2>3
  <2> QED
    BY <2>2, <2>4 DEF w
<1>3. off' \in Int /\ off' % 2 = 0 /\ -off' \in Bytes /\ ScopesAt(scopes', off')
  BY DEF ReadInv
<1> QED
  BY <1>1, <1>2, <1>3 DEF ReadInv, Bytes, ScopesAt

\* One more open statement, and one less.
LEMMA OpenMore ==
  ASSUME NEW c, IsSeq(c), NEW L, NEW a, OpenAt(c, L, a), NEW f, f.k \in Kinds,
         Flat => \A l \in Labels(f) : L[l] = a
  PROVE  OpenAt(Append(c, f), L, a)
<1>1. /\ Len(c) \in Nat /\ DOMAIN c = 1..Len(c) /\ DOMAIN Append(c, f) = 1..(Len(c) + 1)
      /\ \A i \in 1..Len(c) : Append(c, f)[i] = c[i]
      /\ Append(c, f)[Len(c) + 1] = f
  BY AppendFacts
<1>2. \A i \in 1..(Len(c) + 1) : i \in 1..Len(c) \/ i = Len(c) + 1
  BY <1>1
<1> DEFINE d == Append(c, f)
           n == Len(c)
<1> HIDE DEF d, n
<1>3. ASSUME NEW i \in 1..(n + 1)
      PROVE  /\ d[i].k \in Kinds
             /\ Flat => \A l \in Labels(d[i]) : L[l] = a
  <2>1. CASE i \in 1..n
    BY <1>1, <2>1 DEF OpenAt, d, n
  <2>2. CASE i = n + 1
    <3>1. d[i] = f
      BY <1>1, <2>2 DEF d, n
    <3> QED
      BY <3>1
  <2> QED
    BY <1>2, <2>1, <2>2 DEF n
<1> QED
  BY <1>1, <1>3 DEF OpenAt, d, n

\* Without the innermost.
LEMMA OpenLess ==
  ASSUME LInv, ctl # <<>>, NEW L, NEW a, OpenAt(ctl, L, a)
  PROVE  /\ IsSeq(ctl) /\ IsSeq(Below) /\ OpenAt(Below, L, a) /\ Top.k \in Kinds
         /\ Flat => \A l \in Labels(Top) : L[l] = a
         /\ DOMAIN Top = {"k", "l1", "l2", "decls"}
<1>1. Below = Butlast(ctl) /\ IsSeq(ctl)
  BY DEF Below, Butlast, LInv, CtlOK
<1>2. /\ IsSeq(Below) /\ Len(ctl) \in Nat \ {0}
      /\ DOMAIN ctl = 1..Len(ctl) /\ DOMAIN Below = 1..(Len(ctl) - 1)
      /\ \A i \in 1..(Len(ctl) - 1) : Below[i] = ctl[i]
  BY <1>1, ButlastFacts
<1>3. Len(ctl) \in DOMAIN ctl /\ \A i \in 1..(Len(ctl) - 1) : i \in DOMAIN ctl
  BY <1>2
<1>4. OpenAt(Below, L, a)
  BY <1>2, <1>3 DEF OpenAt
<1>5. /\ Top.k \in Kinds
      /\ Flat => \A l \in Labels(Top) : L[l] = a
      /\ DOMAIN Top = {"k", "l1", "l2", "decls"}
  BY <1>3 DEF OpenAt, Top, LInv, CtlOK, OpenOK
<1> QED
  BY <1>1, <1>2, <1>4, <1>5

\* A statement that closes the declarations of its block.
LEMMA OpenedAt ==
  ASSUME LInv, ctl # <<>>, NEW L, NEW a, OpenAt(ctl, L, a)
  PROVE  OpenAt(Opened, L, a) /\ IsSeq(Opened)
<1> DEFINE f == [Top EXCEPT !.decls = FALSE]
<1>1. /\ IsSeq(ctl) /\ IsSeq(Below) /\ OpenAt(Below, L, a) /\ Top.k \in Kinds
      /\ Flat => \A l \in Labels(Top) : L[l] = a
      /\ DOMAIN Top = {"k", "l1", "l2", "decls"}
  BY OpenLess
<1>2. f.k = Top.k /\ f.l1 = Top.l1 /\ f.l2 = Top.l2
  BY <1>1
<1> HIDE DEF f
<1>3. Labels(f) = Labels(Top)
  BY <1>2 DEF Labels
<1>4. OpenAt(Append(Below, f), L, a)
  BY <1>1, <1>2, <1>3, OpenMore
<1>5. IsSeq(Append(Below, f))
  BY <1>1, AppendFacts
<1> QED
  BY <1>1, <1>4, <1>5 DEF Opened, f

\* Code that grows by a piece of a statement.
LEMMA Emit ==
  ASSUME ReadInv, NEW c, NEW k \in Known, NEW m \in Known, NEW L,
         FlowTo(c, L, k), k.a = -off, NEW t, Takes(t, L, k, m), NEW p
  PROVE  FlowTo(c \o At(t, p, scopes), L, m)
<1>1. off \in Int /\ ScopesAt(scopes, off)
  BY DEF ReadInv
<1>2. -k.a = off
  BY <1>1
<1>3. \A o \in SlotsIn(scopes) : o \in Int /\ o >= -k.a
  BY <1>1, <1>2, ScopeSlots
<1> QED
  BY <1>3, Grow

\* What is known between statements.
LEMMA RestFacts ==
  ASSUME NEW a \in Bytes
  PROVE  Rest(a) \in Known /\ Rest(a).a = a /\ Rest(a) = Quiet(a, 0, {})
BY StFacts DEF Rest, Known, Bytes

\* A step that emits one piece from statement to statement.
LEMMA PieceStep ==
  ASSUME ReadInv, LInv', phase' = "read", mode' \in {"stmt", "end"}, off' = off,
         NEW item, prog' = Append(prog, item), ScopesAt(scopes', off),
         NEW L \in [Nat -> Int], FlowTo(code, L, Rest(-off)),
         NEW t, Takes(t, L, Rest(-off), Rest(-off)), NEW p,
         code' = code \o At(t, p, scopes), OpenAt(ctl', L, -off)
  PROVE  ReadInv'
<1>1. -off \in Bytes
  BY DEF ReadInv
<1>2. Rest(-off) \in Known /\ Rest(-off).a = -off
  BY <1>1, RestFacts
<1>3. FlowTo(code', L, Rest(-off))
  BY <1>2, Emit
<1> QED
  BY <1>3, ReadStep

\* What an assignment, a call, a return or an empty statement emits.
LEMMA SimpleFlow ==
  ASSUME ReadInv, Assign \/ Call \/ Return \/ Empty, NEW L, FlowTo(code, L, Rest(-off))
  PROVE  /\ FlowTo(code', L, Rest(-off))
         /\ \E item : prog' = Append(prog, item)
<1> DEFINE a == -off
           r == Rest(a)
<1>1. a \in Bytes /\ r \in Known /\ r.a = -off /\ r = Quiet(a, 0, {})
  <2>1. a \in Bytes
    BY DEF ReadInv
  <2> QED
    BY <2>1, RestFacts
<1> HIDE DEF a
<1>2. r = Rest(-off) /\ off \in Int /\ ScopesAt(scopes, off)
  BY DEF a, ReadInv
<1> HIDE DEF r
<1>3. CASE Assign
  <2>1. PICK s \in {x \in Simple : x.k = "set"} :
          /\ Visible(scopes, s.v) /\ Usable(s.e)
          /\ prog' = Append(prog, s)
          /\ code' = code \o At(AssignTo(OffsetOf(scopes, s.v), Eval(scopes, s.e)), Pos, scopes)
    BY <1>3 DEF Assign, Read
  <2> DEFINE o == OffsetOf(scopes, s.v)
             t == AssignTo(o, Eval(scopes, s.e))
  <2>2. o \in Slots /\ Readable(scopes, s.e)
    BY <1>2, <2>1, ScopeSlots, UsableReads
  <2> HIDE DEF o
  <2>3. Takes(t, L, r, r)
    BY <1>1, <2>2, AssignToTakes DEF r
  <2>4. code' = code \o At(t, Pos, scopes)
    BY <2>1 DEF o
  <2> HIDE DEF t
  <2>5. FlowTo(code', L, r)
    BY <1>1, <1>2, <2>3, <2>4, Emit
  <2> QED
    BY <1>2, <2>1, <2>5
<1>4. CASE Call
  <2>1. PICK s \in {x \in Simple : x.k = "call"} :
          /\ Usable(s.v)
          /\ prog' = Append(prog, s)
          /\ code' = code \o (At(Eval(scopes, s.v) \o <<I("push", 0), I("call", 0)>>, Pos, scopes)
                              \o At(<<I("pop", 0)>>, Pos + 1, scopes))
    BY <1>4 DEF Call, Read
  <2> DEFINE q == Quiet(a, 1, {})
             v == Eval(scopes, s.v)
             t == v \o <<I("push", 0), I("call", 0)>>
             b == At(t, Pos, scopes)
             e == At(<<I("pop", 0)>>, Pos + 1, scopes)
  <2>2. q \in Known /\ q.a = -off
    <3>1. q = St(a, 1, {}, {}, {})
      BY DEF Quiet
    <3>2. q \in Known /\ q.a = a
      BY <1>1, <3>1, StFacts
    <3> QED
      BY <3>2 DEF a
  <2>3. Takes(v, L, r, r)
    <3>1. Takes(v, L, Quiet(a, 0, {}), Quiet(a, 0, {}))
      BY <1>1, <2>1, UsableReads, EvalTakes
    <3> QED
      BY <1>1, <3>1
  <2>4. Takes(<<I("push", 0)>>, L, r, q)
    <3>1. Takes(<<I("push", 0)>>, L, St(a, 0, {}, {}, {}), Quiet(a, 1, {}))
      BY <1>1, PushGoes
    <3> QED
      BY <1>1, <3>1 DEF Quiet
  <2>5. Takes(<<I("call", 0)>>, L, q, q)
    BY <1>1, CallGoes
  <2>6. Takes(<<I("pop", 0)>>, L, q, r)
    <3>1. Takes(<<I("pop", 0)>>, L, St(a, 1, {}, {}, {}),
                St(a, 0, {}, IF "pop" = "popde" THEN {} ELSE {}, {}))
      BY <1>1, PopGoes
    <3> QED
      BY <1>1, <3>1 DEF Quiet
  <2> HIDE DEF q, v
  <2>7. Takes(<<I("push", 0), I("call", 0)>>, L, r, q)
    BY <1>1, <2>2, <2>4, <2>5, TwoTake
  <2>8. Takes(t, L, r, q)
    BY <1>1, <2>2, <2>3, <2>7, JoinTakes
  <2>9. code' = code \o (b \o e) /\ IsSeq(code)
    BY <2>1 DEF v, ReadInv, LInv, CodeOK
  <2> HIDE DEF t
  <2>10. FlowTo(code \o b, L, q)
    BY <1>1, <1>2, <2>2, <2>8, Emit
  <2>11. FlowTo((code \o b) \o e, L, r)
    BY <1>1, <2>2, <2>6, <2>10, Emit
  <2>12. IsSeq(b) /\ IsSeq(e)
    BY <2>6, <2>8, AtFacts DEF Takes
  <2>13. code' = (code \o b) \o e
    BY <2>9, <2>12, ConcatAssoc
  <2> QED
    BY <1>2, <2>1, <2>11, <2>13
<1>5. CASE Return
  <2>1. PICK s \in {x \in Simple : x.k = "ret"} :
          /\ s.e = "none" \/ Usable(s.e)
          /\ prog' = Append(prog, s)
          /\ code' = code \o At((IF s.e = "none" THEN <<>> ELSE Eval(scopes, s.e))
                                \o <<I("jp", ExitLabel)>>, Pos, scopes)
    BY <1>5 DEF Return, Read
  <2> DEFINE v == IF s.e = "none" THEN <<>> ELSE Eval(scopes, s.e)
             t == v \o <<I("jp", ExitLabel)>>
  <2>2. Takes(v, L, r, r)
    <3>1. CASE s.e = "none"
      BY <1>1, <3>1, NoneTakes
    <3>2. CASE s.e # "none"
      <4>1. Takes(Eval(scopes, s.e), L, Quiet(a, 0, {}), Quiet(a, 0, {}))
        BY <1>1, <2>1, <3>2, UsableReads, EvalTakes
      <4> QED
        BY <1>1, <3>2, <4>1
    <3> QED
      BY <3>1, <3>2
  <2>3. Takes(<<I("jp", ExitLabel)>>, L, r, r)
    BY <1>1, ControlGoes DEF Control, r
  <2>4. code' = code \o At(t, Pos, scopes)
    BY <2>1
  <2> HIDE DEF v
  <2>5. Takes(t, L, r, r)
    BY <1>1, <2>2, <2>3, JoinTakes
  <2> HIDE DEF t
  <2>6. FlowTo(code', L, r)
    BY <1>1, <1>2, <2>4, <2>5, Emit
  <2> QED
    BY <1>2, <2>1, <2>6
<1>6. CASE Empty
  <2>1. code' = code \o At(Mark, Pos, scopes) /\ \E item : prog' = Append(prog, item)
    BY <1>6 DEF Empty, Read
  <2>2. Takes(Mark, L, r, r)
    BY <1>1, ControlGoes DEF Control, r, Mark
  <2>3. FlowTo(code', L, r)
    BY <1>1, <1>2, <2>1, <2>2, Emit
  <2> QED
    BY <1>2, <2>1, <2>3
<1> QED
  BY <1>3, <1>4, <1>5, <1>6

\* A simple statement.
LEMMA SimpleStatementKeeps ==
  ASSUME ReadInv, LInv', SimpleStatement PROVE ReadInv'
<1>1. /\ ctl' = Opened /\ mode' = "end" /\ phase' = "read" /\ ctl # <<>>
      /\ off' = off /\ scopes' = scopes
      /\ Assign \/ Call \/ Return \/ Empty
  BY DEF SimpleStatement, Statement, ReadInv, LInv
<1>2. PICK L \in [Nat -> Int] : Parsed(L)
  BY DEF ReadInv
<1>3. FlowTo(code, L, Rest(-off)) /\ OpenAt(ctl, L, -off)
  BY <1>2 DEF Parsed
<1>4. FlowTo(code', L, Rest(-off))
  BY <1>1, <1>3, SimpleFlow
<1>5. PICK item : prog' = Append(prog, item)
  BY <1>1, <1>3, SimpleFlow
<1>6. OpenAt(ctl', L, -off)
  BY <1>1, <1>3, OpenedAt DEF ReadInv
<1>7. ScopesAt(scopes', off)
  BY <1>1 DEF ReadInv
<1> QED
  BY <1>1, <1>4, <1>5, <1>6, <1>7, ReadStep

\* The mark of a brace.
LEMMA MarkTakes ==
  ASSUME ReadInv, NEW L
  PROVE  Takes(Mark, L, Rest(-off), Rest(-off))
<1>1. -off \in Bytes
  BY DEF ReadInv
<1> DEFINE a == -off
<1>2. Takes(<<I("mark", 0)>>, L, Rest(a), Rest(a))
  <2>1. "mark" \in Control \cup {"mark"} /\ "mark" # "label" /\ "mark" \notin Control
    BY DEF Control
  <2>2. a \in Bytes
    BY <1>1
  <2> HIDE DEF a
  <2> QED
    BY <2>1, <2>2, ControlGoes
<1> QED
  BY <1>2 DEF Mark

\* A block opens with an empty scope.
LEMMA OpenBlockKeeps ==
  ASSUME ReadInv, LInv', OpenBlock PROVE ReadInv'
<1> DEFINE f == [NoFrame EXCEPT !.decls = TRUE]
<1>1. /\ ctl' = Append(Opened, f) /\ mode' = "end" /\ phase' = "read" /\ ctl # <<>>
      /\ off' = off /\ scopes' = Append(scopes, <<>>)
      /\ prog' = Append(prog, Item("{", "none", "none"))
      /\ code' = code \o At(Mark, Pos, scopes)
  BY DEF OpenBlock, Statement, ReadInv, LInv, Read
<1>2. f.k = "block"
  BY DEF NoFrame
<1> HIDE DEF f
<1>3. PICK L \in [Nat -> Int] : FlowTo(code, L, Rest(-off)) /\ OpenAt(ctl, L, -off)
  BY DEF ReadInv, Parsed
<1>4. OpenAt(ctl', L, -off)
  <2>1. OpenAt(Opened, L, -off) /\ IsSeq(Opened)
    BY <1>1, <1>3, OpenedAt DEF ReadInv
  <2>2. f.k \in Kinds /\ Labels(f) = {}
    BY <1>2 DEF Kinds, Labels
  <2> QED
    BY <1>1, <2>1, <2>2, OpenMore
<1>5. ScopesAt(scopes', off)
  <2> DEFINE n == Len(scopes)
  <2>1. ScopesAt(scopes, off) /\ IsSeq(scopes)
    BY DEF ReadInv, ScopesAt
  <2>2. /\ IsSeq(scopes') /\ n \in Nat /\ DOMAIN scopes = 1..n /\ DOMAIN scopes' = 1..(n + 1)
        /\ \A i \in 1..n : scopes'[i] = scopes[i]
        /\ scopes'[n + 1] = <<>>
    <3> DEFINE e == <<>>
    <3>1. scopes' = Append(scopes, e)
      BY <1>1
    <3> HIDE DEF e
    <3>2. /\ IsSeq(scopes') /\ n \in Nat /\ DOMAIN scopes = 1..n
          /\ DOMAIN scopes' = 1..(n + 1)
          /\ \A i \in 1..n : scopes'[i] = scopes[i]
          /\ scopes'[n + 1] = e
      BY <2>1, <3>1, AppendFacts
    <3> QED
      BY <3>2 DEF e
  <2> HIDE DEF n
  <2>3. DOMAIN <<>> = {}
    OBVIOUS
  <2>4. ASSUME NEW i \in 1..(n + 1), NEW v \in DOMAIN scopes'[i]
        PROVE  scopes'[i][v] \in Slots /\ scopes'[i][v] >= off
    <3>1. i # n + 1
      BY <2>2, <2>3, <2>4
    <3>2. i \in 1..n
      BY <2>2, <3>1
    <3>3. scopes'[i] = scopes[i] /\ i \in DOMAIN scopes /\ v \in DOMAIN scopes[i]
      BY <2>2, <2>4, <3>2
    <3> QED
      BY <2>1, <3>3 DEF ScopesAt
  <2> QED
    BY <2>2, <2>4 DEF ScopesAt
<1>6. Takes(Mark, L, Rest(-off), Rest(-off))
  BY MarkTakes
<1> QED
  BY <1>1, <1>3, <1>4, <1>5, <1>6, PieceStep

\* A block closes with its scope; its locals keep their bytes.
LEMMA CloseBlockKeeps ==
  ASSUME ReadInv, LInv', CloseBlock PROVE ReadInv'
<1>1. /\ ctl' = Below /\ mode' = mode /\ phase' = "read" /\ ctl # <<>>
      /\ off' = off /\ scopes' = Butlast(scopes)
      /\ prog' = Append(prog, Item("}", "none", "none"))
      /\ code' = code \o At(Mark, Pos, scopes)
  BY DEF CloseBlock, Reading, ReadInv, LInv, Read, BlockEnd, Butlast
<1>2. PICK L \in [Nat -> Int] : FlowTo(code, L, Rest(-off)) /\ OpenAt(ctl, L, -off)
  BY DEF ReadInv, Parsed
<1>3. OpenAt(ctl', L, -off)
  BY <1>1, <1>2, OpenLess DEF ReadInv
<1>4. ScopesAt(scopes', off)
  <2>1. ScopesAt(scopes, off) /\ IsSeq(scopes)
    BY DEF ReadInv, ScopesAt
  <2>2. CASE scopes = <<>>
    <3>1. scopes' = <<>>
      <4>1. Len(scopes) = 0 /\ scopes \in Seq({})
        BY <2>2
      <4>2. Butlast(scopes) = <<>>
        BY <4>1 DEF Butlast
      <4> QED
        BY <1>1, <4>2
    <3> QED
      BY <2>1, <2>2, <3>1 DEF ScopesAt
  <2>3. CASE scopes # <<>>
    <3>1. /\ IsSeq(scopes') /\ Len(scopes) \in Nat \ {0}
          /\ DOMAIN scopes = 1..Len(scopes) /\ DOMAIN scopes' = 1..(Len(scopes) - 1)
          /\ \A i \in 1..(Len(scopes) - 1) : scopes'[i] = scopes[i]
      BY <1>1, <2>1, <2>3, ButlastFacts
    <3>2. \A i \in 1..(Len(scopes) - 1) : i \in DOMAIN scopes
      BY <3>1
    <3> QED
      BY <2>1, <3>1, <3>2 DEF ScopesAt
  <2> QED
    BY <2>2, <2>3
<1>5. Takes(Mark, L, Rest(-off), Rest(-off)) /\ mode' \in {"stmt", "end"}
  BY <1>1, MarkTakes DEF ReadInv
<1> QED
  BY <1>1, <1>2, <1>3, <1>4, <1>5, PieceStep

\* What is noted of labels that the code does not have may change.
LEMMA Relabel ==
  ASSUME NEW c, NEW L, NEW k, FlowTo(c, L, k), NEW M \in [Nat -> Int],
         \A l : HasLabel(c, l) \/ HasJump(c, l) => M[l] = L[l]
  PROVE  FlowTo(c, M, k)
<1>1. PICK K : Body(K, L, c, Len(c)) /\ K[Len(c) + 1] = k
  BY DEF FlowTo
<1>2. ASSUME NEW i \in 3..Len(c)
      PROVE  Goes(c[i], K[i], K[i + 1], M)
  <2>1. Goes(c[i], K[i], K[i + 1], L)
    BY <1>1 DEF Body
  <2>2. i \in DOMAIN c
    <3>1. DOMAIN c = 1..Len(c) /\ Len(c) \in Nat
      BY <1>1, SeqFacts DEF Body
    <3> QED
      BY <3>1
  <2>3. ASSUME c[i].op \in Control
        PROVE  M[c[i].n] = L[c[i].n]
    <3>1. c[i].op = "label" => HasLabel(c, c[i].n)
      BY <2>2 DEF HasLabel
    <3>2. c[i].op \in {"jp", "jz"} => HasJump(c, c[i].n)
      BY <2>2 DEF HasJump
    <3> QED
      BY <2>3, <3>1, <3>2 DEF Control
  <2> QED
    BY <2>1, <2>3 DEF Goes, UseOK
<1>3. Body(K, M, c, Len(c))
  BY <1>1, <1>2 DEF Body
<1> QED
  BY <1>1, <1>3 DEF FlowTo

\* The two labels of a statement that opens: nobody has them, and the locals
\* at them are those of now.
LEMMA NewLabels ==
  ASSUME ReadInv
  PROVE  \E L \in [Nat -> Int] :
           /\ FlowTo(code, L, Rest(-off)) /\ OpenAt(ctl, L, -off)
           /\ L[label] = -off /\ L[label + 1] = -off
<1>1. PICK L \in [Nat -> Int] : FlowTo(code, L, Rest(-off)) /\ OpenAt(ctl, L, -off)
  BY DEF ReadInv, Parsed
<1>2. PICK n \in Nat, a \in Int : n = label /\ a = -off /\ n >= 2
  BY DEF ReadInv, LInv
<1> DEFINE M == [l \in Nat |-> IF l \in {n, n + 1} THEN a ELSE L[l]]
<1>3. /\ M \in [Nat -> Int] /\ M[n] = a /\ M[n + 1] = a
      /\ \A l \in 1..(n - 1) : M[l] = L[l]
  BY <1>2
<1> HIDE DEF M
<1>4. \A l : HasLabel(code, l) \/ HasJump(code, l) => l \in 1..(n - 1)
  BY <1>2 DEF ReadInv, LInv, CodeOK
<1>5. \A l : HasLabel(code, l) \/ HasJump(code, l) => M[l] = L[l]
  BY <1>3, <1>4
<1>6. FlowTo(code, M, Rest(-off))
  BY <1>1, <1>3, <1>5, Relabel
<1>7. OpenAt(ctl, M, -off)
  <2>1. ASSUME NEW i \in DOMAIN ctl, NEW l \in Labels(ctl[i])
        PROVE  M[l] = L[l]
    <3>1. OpenOK(ctl[i], n)
      BY <1>2 DEF ReadInv, LInv, CtlOK
    <3>2. l \in 2..(n - 1)
      BY <2>1, <3>1 DEF OpenOK, Labels
    <3>3. l \in 1..(n - 1)
      BY <1>2, <3>2
    <3> QED
      BY <1>3, <3>3
  <2> QED
    BY <1>1, <2>1 DEF OpenAt
<1> QED
  BY <1>2, <1>3, <1>6, <1>7

\* A statement that opens with its condition.
LEMMA OpenKeeps ==
  ASSUME ReadInv, LInv', phase' = "read", mode' = "stmt", off' = off, scopes' = scopes,
         NEW kind \in Kinds, kind # "block",
         ctl' = Append(Opened, [NoFrame EXCEPT !.k = kind, !.l1 = label, !.l2 = label + 1]),
         NEW item, prog' = Append(prog, item), NEW L \in [Nat -> Int],
         FlowTo(code, L, Rest(-off)), OpenAt(ctl, L, -off),
         L[label] = -off, L[label + 1] = -off,
         NEW t, Takes(t, L, Rest(-off), Rest(-off)), code' = code \o At(t, Pos, scopes)
  PROVE  ReadInv'
<1> DEFINE f == [NoFrame EXCEPT !.k = kind, !.l1 = label, !.l2 = label + 1]
<1>1. f.k = kind /\ f.l1 = label /\ f.l2 = label + 1 /\ ctl' = Append(Opened, f)
  BY DEF NoFrame
<1> HIDE DEF f
<1>2. OpenAt(Opened, L, -off) /\ IsSeq(Opened)
  BY OpenedAt DEF ReadInv, LInv
<1>3. \A l \in Labels(f) : L[l] = -off
  BY <1>1 DEF Labels
<1>4. OpenAt(ctl', L, -off)
  <2> DEFINE a == -off
             c == Opened
  <2>1. f.k \in Kinds /\ (Flat => \A l \in Labels(f) : L[l] = a) /\ IsSeq(c) /\ OpenAt(c, L, a)
    BY <1>1, <1>2, <1>3
  <2> HIDE DEF a, c
  <2>2. OpenAt(Append(c, f), L, a)
    BY <2>1, OpenMore
  <2> QED
    BY <1>1, <2>2 DEF a, c
<1>5. ScopesAt(scopes', off)
  BY DEF ReadInv
<1> QED
  BY <1>4, <1>5, PieceStep

\* A while: its first label, the condition and the jump behind it.
LEMMA WhileKeeps ==
  ASSUME ReadInv, LInv', While PROVE ReadInv'
<1>1. /\ phase' = "read" /\ mode' = "stmt" /\ off' = off /\ scopes' = scopes
      /\ ctl' = Append(Opened, [NoFrame EXCEPT !.k = "while", !.l1 = label, !.l2 = label + 1])
  BY DEF While, Statement, TwoLabels
<1>2. PICK c : /\ Usable(c) /\ prog' = Append(prog, Item("while", c, "none"))
               /\ code' = code \o At(<<I("label", label)>> \o Eval(scopes, c)
                                     \o <<I("jz", label + 1)>>, Pos, scopes)
  BY DEF While, TwoLabels, Read
<1>3. PICK L \in [Nat -> Int] :
        /\ FlowTo(code, L, Rest(-off)) /\ OpenAt(ctl, L, -off)
        /\ L[label] = -off /\ L[label + 1] = -off
  BY NewLabels
<1> DEFINE a == -off
           r == Rest(a)
           x == <<I("label", label)>>
           v == Eval(scopes, c)
           z == <<I("jz", label + 1)>>
           t == (x \o v) \o z
<1>4. a \in Bytes /\ label # ExitLabel
  BY DEF ReadInv, LInv, ExitLabel
<1>5. r \in Known /\ r = Quiet(a, 0, {})
  BY <1>4, RestFacts
<1>6. Takes(x, L, r, r) /\ Takes(z, L, r, r)
  BY <1>3, <1>4, ControlGoes DEF Control
<1>7. Takes(v, L, r, r)
  <2>1. Takes(v, L, Quiet(a, 0, {}), Quiet(a, 0, {}))
    BY <1>2, <1>4, UsableReads, EvalTakes
  <2> QED
    BY <1>5, <2>1
<1>8. code' = code \o At(t, Pos, scopes)
  BY <1>2
<1> HIDE DEF r, x, v, z
<1>9. Takes(x \o v, L, r, r)
  BY <1>5, <1>6, <1>7, JoinTakes
<1>10. Takes(t, L, r, r)
  BY <1>5, <1>6, <1>9, JoinTakes
<1> HIDE DEF t
<1>11. Takes(t, L, Rest(-off), Rest(-off)) /\ "while" \in Kinds
  BY <1>10 DEF r, Kinds
<1> QED
  BY <1>1, <1>2, <1>3, <1>8, <1>11, OpenKeeps

\* An if: the condition and the jump behind the then branch.
LEMMA IfKeeps ==
  ASSUME ReadInv, LInv', If PROVE ReadInv'
<1>1. /\ phase' = "read" /\ mode' = "stmt" /\ off' = off /\ scopes' = scopes
      /\ ctl' = Append(Opened, [NoFrame EXCEPT !.k = "then", !.l1 = label, !.l2 = label + 1])
  BY DEF If, Statement, TwoLabels
<1>2. PICK c : /\ Usable(c) /\ prog' = Append(prog, Item("if", c, "none"))
               /\ code' = code \o At(Eval(scopes, c) \o <<I("jz", label)>>, Pos, scopes)
  BY DEF If, TwoLabels, Read
<1>3. PICK L \in [Nat -> Int] :
        /\ FlowTo(code, L, Rest(-off)) /\ OpenAt(ctl, L, -off)
        /\ L[label] = -off /\ L[label + 1] = -off
  BY NewLabels
<1> DEFINE a == -off
           r == Rest(a)
           v == Eval(scopes, c)
           z == <<I("jz", label)>>
           t == v \o z
<1>4. a \in Bytes
  BY DEF ReadInv
<1>5. r \in Known /\ r = Quiet(a, 0, {})
  BY <1>4, RestFacts
<1>6. Takes(z, L, r, r)
  BY <1>3, <1>4, ControlGoes DEF Control
<1>7. Takes(v, L, r, r)
  <2>1. Takes(v, L, Quiet(a, 0, {}), Quiet(a, 0, {}))
    BY <1>2, <1>4, UsableReads, EvalTakes
  <2> QED
    BY <1>5, <2>1
<1>8. code' = code \o At(t, Pos, scopes)
  BY <1>2
<1> HIDE DEF r, v, z
<1>9. Takes(t, L, r, r)
  BY <1>5, <1>6, <1>7, JoinTakes
<1> HIDE DEF t
<1>10. Takes(t, L, Rest(-off), Rest(-off)) /\ "then" \in Kinds
  BY <1>9 DEF r, Kinds
<1> QED
  BY <1>1, <1>2, <1>3, <1>8, <1>10, OpenKeeps

\* Two pieces, tagged with items of their own.
LEMMA EmitTwo ==
  ASSUME ReadInv, NEW L, FlowTo(code, L, Rest(-off)),
         NEW t, Takes(t, L, Rest(-off), Rest(-off)), NEW u, Takes(u, L, Rest(-off), Rest(-off)),
         NEW p, NEW q, code' = code \o (At(t, p, scopes) \o At(u, q, scopes))
  PROVE  FlowTo(code', L, Rest(-off))
<1>1. Rest(-off) \in Known /\ Rest(-off).a = -off
  BY RestFacts DEF ReadInv
<1>2. FlowTo(code \o At(t, p, scopes), L, Rest(-off))
  BY <1>1, Emit
<1>3. FlowTo((code \o At(t, p, scopes)) \o At(u, q, scopes), L, Rest(-off))
  BY <1>1, <1>2, Emit
<1>4. IsSeq(code) /\ IsSeq(At(t, p, scopes)) /\ IsSeq(At(u, q, scopes))
  BY AtFacts DEF Takes, ReadInv, LInv, CodeOK
<1>5. code' = (code \o At(t, p, scopes)) \o At(u, q, scopes)
  BY <1>4, ConcatAssoc
<1> QED
  BY <1>3, <1>5

\* A label of the innermost statement, or a jump to it.
LEMMA TopControl ==
  ASSUME ReadInv, Top.k # "block", NEW L, OpenAt(ctl, L, -off),
         NEW l \in Labels(Top), NEW op \in Control
  PROVE  Takes(<<I(op, l)>>, L, Rest(-off), Rest(-off))
<1>1. -off \in Bytes /\ ctl # <<>>
  BY DEF ReadInv, LInv
<1>2. Flat => L[l] = -off
  BY <1>1, OpenLess DEF ReadInv
<1>3. l # ExitLabel
  <2>1. OpenOK(Top, label)
    BY <1>1, TopFacts DEF ReadInv
  <2>2. l \in 2..(label - 1)
    BY <2>1 DEF OpenOK, Labels
  <2>3. label \in Nat
    BY DEF ReadInv, LInv
  <2> QED
    BY <2>2, <2>3 DEF ExitLabel
<1> DEFINE a == -off
<1>4. a \in Bytes /\ (Flat => L[l] = a)
  BY <1>1, <1>2
<1> HIDE DEF a
<1>5. Takes(<<I(op, l)>>, L, Rest(a), Rest(a))
  BY <1>3, <1>4, ControlGoes
<1> QED
  BY <1>5 DEF a

\* A statement that ends without its frame.
LEMMA EndKeeps ==
  ASSUME ReadInv, LInv', phase' = "read", mode' \in {"stmt", "end"}, off' = off,
         scopes' = scopes, NEW item, prog' = Append(prog, item), NEW L \in [Nat -> Int],
         FlowTo(code', L, Rest(-off)), OpenAt(ctl, L, -off), ctl' = Below
  PROVE  ReadInv'
<1>1. OpenAt(ctl', L, -off)
  BY OpenLess DEF ReadInv, LInv
<1>2. ScopesAt(scopes', off)
  BY DEF ReadInv
<1> QED
  BY <1>1, <1>2, ReadStep

\* The labels of the innermost statement.
LEMMA TopLabels ==
  ASSUME Top.k # "block"
  PROVE  Top.l1 \in Labels(Top) /\ Top.l2 \in Labels(Top)
BY DEF Labels

\* A while ends.
LEMMA EndWhileKeeps ==
  ASSUME ReadInv, LInv', EndWhile PROVE ReadInv'
<1> DEFINE t == <<I("jp", Top.l1)>>
           u == <<I("label", Top.l2)>>
<1>1. /\ phase' = "read" /\ mode' = mode /\ off' = off /\ scopes' = scopes
      /\ ctl' = Below /\ Top.k # "block"
      /\ prog' = Append(prog, Item("od", "none", "none"))
      /\ code' = code \o (At(t, Pos, scopes) \o At(u, Pos + 1, scopes))
  BY DEF EndWhile, Reading, Read
<1>2. PICK L \in [Nat -> Int] : FlowTo(code, L, Rest(-off)) /\ OpenAt(ctl, L, -off)
  BY DEF ReadInv, Parsed
<1>3. Takes(t, L, Rest(-off), Rest(-off)) /\ Takes(u, L, Rest(-off), Rest(-off))
  BY <1>1, <1>2, TopControl, TopLabels DEF Control
<1> HIDE DEF t, u
<1>4. FlowTo(code', L, Rest(-off))
  BY <1>1, <1>2, <1>3, EmitTwo
<1>5. mode' \in {"stmt", "end"}
  BY <1>1 DEF ReadInv
<1> QED
  BY <1>1, <1>2, <1>4, <1>5, EndKeeps

\* An if ends without an else.
LEMMA EndThenKeeps ==
  ASSUME ReadInv, LInv', EndThen PROVE ReadInv'
<1> DEFINE x == I("jp", Top.l2)
           y == I("label", Top.l1)
           z == I("label", Top.l2)
           t == <<x>> \o <<y, z>>
           r == Rest(-off)
<1>1. /\ phase' = "read" /\ mode' = mode /\ off' = off /\ scopes' = scopes
      /\ ctl' = Below /\ Top.k # "block"
      /\ prog' = Append(prog, Item("fi", "none", "none"))
      /\ code' = code \o At(t, Pos, scopes)
  BY DEF EndThen, Reading, Read, SkipElse
<1>2. PICK L \in [Nat -> Int] : FlowTo(code, L, r) /\ OpenAt(ctl, L, -off)
  BY DEF ReadInv, Parsed
<1>3. Takes(<<x>>, L, r, r) /\ Takes(<<y>>, L, r, r) /\ Takes(<<z>>, L, r, r)
  BY <1>1, <1>2, TopControl, TopLabels DEF Control
<1>4. r \in Known /\ r.a = -off
  BY RestFacts DEF ReadInv
<1> HIDE DEF x, y, z, r
<1>5. Takes(<<y, z>>, L, r, r)
  BY <1>3, <1>4, TwoTake
<1>6. Takes(t, L, r, r)
  BY <1>3, <1>4, <1>5, JoinTakes
<1>7. code' = code \o At(t, Pos, scopes)
  BY <1>1
<1> HIDE DEF t
<1>8. FlowTo(code', L, r)
  BY <1>2, <1>4, <1>6, <1>7, Emit
<1>9. mode' \in {"stmt", "end"}
  BY <1>1 DEF ReadInv
<1> QED
  BY <1>1, <1>2, <1>8, <1>9, EndKeeps DEF r

\* An else branch ends.
LEMMA EndElseKeeps ==
  ASSUME ReadInv, LInv', EndElse PROVE ReadInv'
<1> DEFINE t == <<I("label", Top.l2)>>
           r == Rest(-off)
<1>1. /\ phase' = "read" /\ mode' = mode /\ off' = off /\ scopes' = scopes
      /\ ctl' = Below /\ Top.k # "block"
      /\ prog' = Append(prog, Item("fi", "none", "none"))
      /\ code' = code \o At(t, Pos, scopes)
  BY DEF EndElse, Reading, Read
<1>2. PICK L \in [Nat -> Int] : FlowTo(code, L, r) /\ OpenAt(ctl, L, -off)
  BY DEF ReadInv, Parsed
<1>3. Takes(t, L, r, r)
  BY <1>1, <1>2, TopControl, TopLabels DEF Control
<1>4. r \in Known /\ r.a = -off
  BY RestFacts DEF ReadInv
<1> HIDE DEF t, r
<1>5. FlowTo(code', L, r)
  BY <1>1, <1>2, <1>3, <1>4, Emit
<1>6. mode' \in {"stmt", "end"}
  BY <1>1 DEF ReadInv
<1> QED
  BY <1>1, <1>2, <1>5, <1>6, EndKeeps DEF r

\* The then branch ends and an else follows.
LEMMA EndThenElseKeeps ==
  ASSUME ReadInv, LInv', EndThenElse PROVE ReadInv'
<1> DEFINE t == <<I("jp", Top.l2)>>
           u == <<I("label", Top.l1)>>
           f == [Top EXCEPT !.k = "else"]
<1>1. /\ phase' = "read" /\ mode' = "stmt" /\ off' = off /\ scopes' = scopes
      /\ ctl' = Append(Below, f) /\ Top.k # "block" /\ ctl # <<>>
      /\ prog' = Append(prog, Item("else", "none", "none"))
      /\ code' = code \o (At(t, Pos, scopes) \o At(u, Pos + 1, scopes))
  BY DEF EndThenElse, Reading, Read, SkipElse, ReadInv, LInv
<1>2. PICK L \in [Nat -> Int] : FlowTo(code, L, Rest(-off)) /\ OpenAt(ctl, L, -off)
  BY DEF ReadInv, Parsed
<1>3. Takes(t, L, Rest(-off), Rest(-off)) /\ Takes(u, L, Rest(-off), Rest(-off))
  BY <1>1, <1>2, TopControl, TopLabels DEF Control
<1> HIDE DEF t, u
<1>4. FlowTo(code', L, Rest(-off))
  BY <1>1, <1>2, <1>3, EmitTwo
<1>5. OpenAt(ctl', L, -off)
  <2> DEFINE a == -off
  <2>1. /\ IsSeq(Below) /\ OpenAt(Below, L, a)
        /\ Flat => \A l \in Labels(Top) : L[l] = a
        /\ DOMAIN Top = {"k", "l1", "l2", "decls"}
    BY <1>1, <1>2, OpenLess DEF ReadInv
  <2> HIDE DEF a
  <2>2. f.k = "else" /\ f.l1 = Top.l1 /\ f.l2 = Top.l2
    BY <2>1
  <2> HIDE DEF f
  <2>3. f.k \in Kinds /\ Labels(f) = Labels(Top)
    BY <1>1, <2>2 DEF Kinds, Labels
  <2>4. OpenAt(Append(Below, f), L, a)
    BY <2>1, <2>3, OpenMore
  <2> QED
    BY <1>1, <2>4 DEF a
<1>6. ScopesAt(scopes', off) /\ mode' \in {"stmt", "end"}
  BY <1>1 DEF ReadInv
<1> QED
  BY <1>1, <1>2, <1>4, <1>5, <1>6, ReadStep

\* A declaration has a slot of its own below the others.
LEMMA NewSlot ==
  ASSUME ReadInv, Room
  PROVE  /\ off - 2 \in Slots /\ off - 2 \in Int /\ (off - 2) % 2 = 0
         /\ -off \in Bytes /\ -(off - 2) \in Bytes
<1> DEFINE n == Cardinality(Started)
<1>1. /\ off \in Int /\ off % 2 = 0 /\ -off \in Bytes /\ 2 - off <= 2 * n /\ n < MaxItems
  BY DEF ReadInv, Room
<1>2. n \in Nat
  BY StartedFinite DEF ReadInv
<1> HIDE DEF n
<1>3. MaxItems \in Nat /\ Base \in Nat /\ Size \in Nat /\ Base + 4 + 2 * Len(Params) < Size
  BY StackAssumption, SizeAssumption, FrameAssumption
<1>4. Len(Params) \in Nat
  BY FrameAssumption
<1>5. Base + 4 < Size
  BY <1>3, <1>4
<1>6. (off - 2) % 2 = 0
  BY <1>1
<1>7. 2 - off <= 2 * MaxItems - 2 /\ off <= 0
  BY <1>1, <1>2, <1>3 DEF Bytes
<1>8. off - 2 \in -(2 * MaxItems - 2)..(Size - Base - 2) /\ off - 2 < 0
  BY <1>1, <1>3, <1>5, <1>7
<1>9. -(off - 2) \in Bytes
  BY <1>1, <1>3, <1>7 DEF Bytes
<1> QED
  BY <1>1, <1>6, <1>8, <1>9 DEF Slots

\* A name bound in the innermost scope.
LEMMA BindScopes ==
  ASSUME NEW s, NEW o \in Int, NEW n \in Slots, n <= o, ScopesAt(s, o), NEW v
  PROVE  /\ ScopesAt(Bind(s, v, n), n)
         /\ \A x : Visible(s, x) => Visible(Bind(s, v, n), x)
<1> DEFINE t == Bind(s, v, n)
           k == Len(s)
<1>1. /\ DOMAIN t = DOMAIN s
      /\ \A i \in DOMAIN s : i # k => t[i] = s[i]
      /\ k \in DOMAIN s => t[k] = [x \in DOMAIN s[k] \cup {v} |-> IF x = v THEN n ELSE s[k][x]]
  BY DEF Bind
<1>2. t = [i \in DOMAIN s |-> t[i]]
  BY DEF Bind
<1> HIDE DEF t, k
<1>3. IsSeq(t)
  BY <1>2, MapFacts DEF ScopesAt
<1>4. n \in Int /\ n <= o
  BY DEF Slots
<1>5. ASSUME NEW i \in DOMAIN t, NEW x \in DOMAIN t[i]
      PROVE  t[i][x] \in Slots /\ t[i][x] >= n
  <2>1. \A y \in DOMAIN s[i] : s[i][y] \in Slots /\ s[i][y] \in Int /\ s[i][y] >= o
    BY <1>1, <1>5 DEF ScopesAt, Slots
  <2>2. \A y \in DOMAIN s[i] : s[i][y] \in Slots /\ s[i][y] >= n
    BY <1>4, <2>1
  <2>3. CASE i # k
    BY <1>1, <1>5, <2>2, <2>3
  <2>4. CASE i = k
    <3>1. t[i][x] = IF x = v THEN n ELSE s[i][x]
      BY <1>1, <1>5, <2>4
    <3>2. x = v \/ x \in DOMAIN s[i]
      BY <1>1, <1>5, <2>4
    <3>3. n >= n
      BY <1>4
    <3> QED
      BY <2>2, <3>1, <3>2, <3>3
  <2> QED
    BY <2>3, <2>4
<1>6. ASSUME NEW x, Visible(s, x)
      PROVE  Visible(t, x)
  <2>1. PICK i \in DOMAIN s : x \in DOMAIN s[i]
    BY <1>6 DEF Visible
  <2>2. x \in DOMAIN t[i]
    BY <1>1, <2>1
  <2> QED
    BY <1>1, <2>1, <2>2 DEF Visible
<1> QED
  BY <1>3, <1>5, <1>6 DEF ScopesAt, t

\* A declaration.
LEMMA DeclareKeeps ==
  ASSUME ReadInv, LInv', Declare PROVE ReadInv'
<1> DEFINE o == off - 2
           a == -off
<1>1. /\ ctl' = ctl /\ mode' = mode /\ phase' = "read" /\ Room
      /\ Conditional \/ ~InBranch
  BY DEF Declare, Reading
<1>2. PICK d \in {x \in Simple : x.k = "decl"} :
        /\ d.e = "none" \/ Usable(d.e)
        /\ off' = o /\ scopes' = Bind(scopes, d.v, o)
        /\ prog' = Append(prog, d)
        /\ code' = code \o At(<<I("alloc", SlotSize)>>
                        \o (IF d.e = "none" THEN <<>>
                            ELSE Eval(Bind(scopes, d.v, o), d.e) \o InitStore(o)),
                        Pos, scopes)
  BY DEF Declare, Read, SlotSize
<1>3. o \in Slots /\ o \in Int /\ o % 2 = 0 /\ a \in Bytes /\ a + 2 \in Bytes /\ a + 2 = -o
  <2>1. off \in Int
    BY DEF ReadInv
  <2>2. -(off - 2) = -off + 2
    BY <2>1
  <2> QED
    BY <1>1, <2>2, NewSlot
<1>4. ScopesAt(scopes', o) /\ \A x : Visible(scopes, x) => Visible(scopes', x)
  <2>1. off \in Int /\ ScopesAt(scopes, off) /\ o <= off
    BY DEF ReadInv
  <2> HIDE DEF o
  <2> QED
    BY <1>2, <1>3, <2>1, BindScopes
<1>5. PICK L \in [Nat -> Int] : FlowTo(code, L, Rest(-off)) /\ OpenAt(ctl, L, -off)
  BY DEF ReadInv, Parsed
<1> DEFINE b == a + 2
           v == Eval(scopes', d.e)
           w == InitStore(o)
           init == IF d.e = "none" THEN <<>> ELSE v \o w
           t == <<I("alloc", SlotSize)>> \o init
<1>6. Rest(a) \in Known /\ Rest(a).a = -off /\ Rest(b) \in Known /\ Rest(b) = Quiet(b, 0, {})
  BY <1>3, RestFacts
<1>7. Takes(<<I("alloc", SlotSize)>>, L, Rest(a), Rest(b))
  BY <1>3, AllocGoes
<1>8. b \in Bytes
  BY <1>3
<1>9. code' = code \o At(t, Pos, scopes)
  BY <1>2
<1> HIDE DEF b, w
<1>10. Takes(init, L, Rest(b), Rest(b))
  <2>1. CASE d.e = "none"
    BY <1>6, <2>1, NoneTakes
  <2>2. CASE d.e # "none"
    <3>1. Readable(scopes', d.e)
      <4>1. d.e \in DOMAIN Lits \/ Visible(scopes', d.e)
        BY <1>2, <1>4, <2>2 DEF Usable
      <4> QED
        BY <1>3, <1>4, <4>1, ScopeSlots DEF Readable
    <3>2. Takes(v, L, Quiet(b, 0, {}), Quiet(b, 0, {}))
      BY <1>8, <3>1, EvalTakes
    <3>3. Takes(w, L, Rest(b), Rest(b))
      BY <1>3, <1>8, InitStoreTakes DEF w
    <3> HIDE DEF v
    <3>4. Takes(v \o w, L, Rest(b), Rest(b))
      BY <1>6, <3>2, <3>3, JoinTakes
    <3> QED
      BY <2>2, <3>4
  <2> QED
    BY <2>1, <2>2
<1> HIDE DEF init
<1>11. Takes(t, L, Rest(a), Rest(b))
  BY <1>6, <1>7, <1>10, JoinTakes
<1> HIDE DEF t
<1>12. FlowTo(code', L, Rest(b))
  BY <1>5, <1>6, <1>9, <1>11, Emit
<1>13. OpenAt(ctl', L, b)
  <2>1. Flat => \A i \in DOMAIN ctl : Labels(ctl[i]) = {}
    BY <1>1 DEF Flat, InBranch, Labels
  <2> QED
    BY <1>1, <1>5, <2>1 DEF OpenAt
<1>14. b = -off'
  BY <1>2, <1>3 DEF b
<1>15. Parsed(L)'
  BY <1>12, <1>13, <1>14 DEF Parsed
<1>16. IsSeq(prog') /\ 2 - off' <= 2 * Cardinality(Started')
  <2> DEFINE n == Cardinality(Started)
             m == Cardinality(Started')
  <2>1. IsSeq(prog) /\ d.k = "decl"
    BY <1>2 DEF ReadInv
  <2>2. IsSeq(prog') /\ n \in Nat /\ m = n + 1
    BY <1>2, <2>1, StartedGrows
  <2>3. 2 - off <= 2 * n /\ off \in Int
    BY DEF ReadInv
  <2> HIDE DEF n, m
  <2>4. 2 - off' <= 2 * m
    BY <1>2, <2>2, <2>3
  <2> QED
    BY <2>2, <2>4 DEF m
<1>17. off' \in Int /\ off' % 2 = 0 /\ -off' \in Bytes
  BY <1>2, <1>3
<1>18. ScopesAt(scopes', off')
  BY <1>2, <1>4
<1>19. mode' \in {"stmt", "end"}
  BY <1>1 DEF ReadInv
<1> QED
  BY <1>1, <1>15, <1>16, <1>17, <1>18, <1>19 DEF ReadInv, Bytes, ScopesAt

-----------------------------------------------------------------------------
(* The finished function *)

\* The body and behind it the epilogue, with no local in scope.
Ready(K, L) ==
  /\ LinkedIn(code) /\ Body(K, L, code, Len(code) - 4)
  /\ LET n == Len(code)
     IN /\ code[n - 3].op = "label" /\ code[n - 3].n = ExitLabel
        /\ code[n - 2].op = "ldsp" /\ code[n - 1].op = "popix" /\ code[n].op = "ret"
        /\ \A i \in (n - 3)..n : SlotsIn(code[i].in) = {}

\* The last brace makes it ready.
LEMMA CloseBodyReady ==
  ASSUME ReadInv, CloseBody
  PROVE  \E K, L : Ready(K, L)'
<1> DEFINE r == Rest(-off)
           b == At(Mark, Pos, scopes)
           s == SubSeq(scopes, 1, 2)
           ep == Epilogue(ExitLabel)
           e == At(ep, Pos + 1, s)
           c == code \o b
           n == Len(c)
<1>1. code' = code \o (b \o e)
  BY DEF CloseBody, Read
<1>2. /\ IsSeq(ep) /\ Len(ep) = 4
      /\ ep[1] = I("label", ExitLabel) /\ ep[2] = I("ldsp", 0)
      /\ ep[3] = I("popix", 0) /\ ep[4] = I("ret", 0)
  <2>1. ep \in Seq({I("label", ExitLabel), I("ldsp", 0), I("popix", 0), I("ret", 0)})
    BY DEF Epilogue
  <2> QED
    BY <2>1 DEF Epilogue, IsSeq
<1>3. /\ IsSeq(e) /\ Len(e) = 4
      /\ \A i \in 1..4 : e[i].op = ep[i].op /\ e[i].n = ep[i].n /\ e[i].in = s
  <2> HIDE DEF ep
  <2>1. DOMAIN ep = 1..4 /\ DOMAIN e = 1..4
    BY <1>2, SeqFacts DEF At
  <2>2. \A i \in 1..4 : e[i].op = ep[i].op /\ e[i].n = ep[i].n /\ e[i].in = s
    BY <2>1 DEF At
  <2>3. e = [i \in DOMAIN ep |-> e[i]]
    BY DEF At
  <2> HIDE DEF e
  <2>4. IsSeq(e) /\ Len(e) = 4
    BY <1>2, <2>3, MapFacts
  <2> QED
    BY <2>2, <2>4
<1>4. IsSeq(code) /\ IsSeq(b) /\ IsSeq(e)
  <2>1. IsSeq(code)
    BY DEF ReadInv, LInv, CodeOK
  <2>2. Piece(b, {}, {})
    BY MarkPiece, AtPiece
  <2> QED
    BY <1>3, <2>1, <2>2 DEF Piece
<1>5. code' = c \o e
  <2> HIDE DEF b, s, e
  <2>1. code' = (code \o b) \o e
    BY <1>1, <1>4, ConcatAssoc
  <2> QED
    BY <2>1
<1>6. SlotsIn(s) = {}
  <2>1. Len(s) = 2
    OBVIOUS
  <2> HIDE DEF s
  <2> QED
    BY <2>1 DEF SlotsIn
<1>7. PICK L \in [Nat -> Int] : FlowTo(code, L, r)
  BY DEF ReadInv, Parsed
<1>8. FlowTo(c, L, r)
  <2>1. r \in Known /\ r.a = -off
    BY RestFacts DEF ReadInv
  <2>2. Takes(Mark, L, r, r)
    BY MarkTakes
  <2> HIDE DEF r
  <2> QED
    BY <1>7, <2>1, <2>2, Emit
<1> HIDE DEF b, s, e
<1>9. PICK K : Body(K, L, c, n)
  BY <1>8 DEF FlowTo
<1> HIDE DEF c
<1>10. IsSeq(c) /\ n \in Nat /\ n >= 3
  <2>1. IsSeq(c) /\ n \in 3..n
    BY <1>9 DEF Body
  <2>2. n \in Nat
    BY <2>1, SeqFacts
  <2> QED
    BY <2>1, <2>2
<1>11. /\ IsSeq(code') /\ Len(code') = n + 4
       /\ \A i \in 1..n : code'[i] = c[i]
       /\ \A i \in 1..4 : code'[n + i] = e[i]
  <2> IsSeq(c) /\ IsSeq(e)
    BY <1>3, <1>10
  <2>1. /\ IsSeq(c \o e)
        /\ \A i \in 1..Len(c) : (c \o e)[i] = c[i]
        /\ \A i \in 1..Len(e) : (c \o e)[Len(c) + i] = e[i]
    BY ConcatFacts
  <2>2. Len(code') = n + 4
    BY <1>3, <1>5, <1>10, ConcatLen
  <2> QED
    BY <1>3, <1>5, <2>1, <2>2
<1> HIDE DEF n
<1>12. LinkedIn(code')
  <2>0. 1 \in 1..n /\ 2 \in 1..n
    BY <1>10
  <2>1. code'[1] = c[1] /\ code'[2] = c[2]
    BY <1>11, <2>0
  <2> QED
    BY <1>8, <2>1 DEF FlowTo, LinkedIn
<1>13. Body(K, L, code', n)
  <2>1. n \in 3..Len(code')
    BY <1>10, <1>11
  <2>2. \A i \in 3..n : code'[i] = c[i]
    BY <1>10, <1>11
  <2> QED
    BY <1>9, <1>11, <2>1, <2>2 DEF Body
<1>14. \A i \in 1..4 : /\ code'[n + i].op = ep[i].op /\ code'[n + i].n = ep[i].n
                       /\ SlotsIn(code'[n + i].in) = {}
  BY <1>3, <1>6, <1>11
<1>15. /\ ep[1].op = "label" /\ ep[1].n = ExitLabel /\ ep[2].op = "ldsp"
       /\ ep[3].op = "popix" /\ ep[4].op = "ret"
  BY <1>2 DEF I
<1> HIDE DEF ep
<1> DEFINE m == Len(code')
<1>16. m - 4 = n /\ m - 3 = n + 1 /\ m - 2 = n + 2 /\ m - 1 = n + 3 /\ m = n + 4
  BY <1>10, <1>11
<1>17. \A i \in (m - 3)..m : \E j \in 1..4 : i = n + j
  <2> SUFFICES ASSUME NEW i \in (n + 1)..(n + 4)
               PROVE  \E j \in 1..4 : i = n + j
    BY <1>16
  <2>1. i - n \in 1..4 /\ i = n + (i - n)
    BY <1>10
  <2> QED
    BY <2>1
<1>18. \A i \in (m - 3)..m : SlotsIn(code'[i].in) = {}
  BY <1>14, <1>17
<1>19. /\ code'[m - 3].op = "label" /\ code'[m - 3].n = ExitLabel
       /\ code'[m - 2].op = "ldsp" /\ code'[m - 1].op = "popix" /\ code'[m].op = "ret"
  <2>1. code'[n + 1].op = "label" /\ code'[n + 1].n = ExitLabel
    BY <1>14, <1>15
  <2>2. code'[n + 2].op = "ldsp"
    BY <1>14, <1>15
  <2>3. code'[n + 3].op = "popix"
    BY <1>14, <1>15
  <2>4. code'[n + 4].op = "ret"
    BY <1>14, <1>15
  <2> QED
    BY <1>16, <2>1, <2>2, <2>3, <2>4
<1>20. Ready(K, L)'
  BY <1>12, <1>13, <1>16, <1>18, <1>19 DEF Ready, LinkedIn, Body, SlotsIn
<1> QED
  BY <1>20

-----------------------------------------------------------------------------
(* Memory *)

\* The words of memory are at the even addresses below its size.
LEMMA WordFacts ==
  \A x : x \in Words <=> x \in Int /\ x % 2 = 0 /\ 0 <= x /\ x < Size
<1>1. Size \in Nat /\ Size % 2 = 0
  BY SizeAssumption
<1>2. PICK h \in Nat : Size = 2 * h /\ Size \div 2 = h
  BY <1>1
<1>3. \A x \in Int : x % 2 = 0 => \E n \in Int : x = 2 * n
  OBVIOUS
<1>4. ASSUME NEW x \in Int, x % 2 = 0, 0 <= x, x < Size
      PROVE  x \in Words
  <2>1. PICK n \in Int : x = 2 * n
    BY <1>3, <1>4
  <2>2. n \in 0..(h - 1)
    BY <1>2, <1>4, <2>1
  <2> QED
    BY <1>2, <2>1, <2>2 DEF Words
<1>5. ASSUME NEW x \in Words
      PROVE  x \in Int /\ x % 2 = 0 /\ 0 <= x /\ x < Size
  BY <1>1, <1>2 DEF Words
<1> QED
  BY <1>4, <1>5

\* An even number is taken to a word, a word to itself.
LEMMA AFacts ==
  /\ Size > 0
  /\ \A x \in Int : x % 2 = 0 => A(x) \in Words
  /\ \A x \in Words : A(x) = x
<1>1. Size \in Nat /\ Size % 2 = 0 /\ Size > 0
  <2>1. Size \in Nat /\ Size % 2 = 0 /\ Base \in Nat /\ Len(Params) \in Nat
    BY SizeAssumption, FrameAssumption
  <2>2. Base + 4 + 2 * Len(Params) < Size
    BY FrameAssumption
  <2> QED
    BY <2>1, <2>2
<1>2. ASSUME NEW x \in Int
      PROVE  /\ x % Size \in 0..(Size - 1) /\ x \div Size \in Int
             /\ x = Size * (x \div Size) + (x % Size)
  BY <1>1
<1>3. ASSUME NEW x \in Int, 0 <= x, x < Size
      PROVE  x % Size = x
  BY <1>1, <1>3
<1>4. ASSUME NEW x \in Int, x % 2 = 0
      PROVE  (x % Size) % 2 = 0
  <2>1. PICK h \in Nat : Size = 2 * h
    BY <1>1
  <2>2. PICK m \in Int : x = 2 * m
    BY <1>4
  <2> DEFINE q == x \div Size
  <2>3. q \in Int /\ x % Size = x - Size * q
    BY <1>1, <1>2
  <2> HIDE DEF q
  <2> DEFINE z == h * q
  <2>4. z \in Int /\ Size * q = 2 * z
    BY <2>1, <2>3
  <2>5. x % Size = 2 * m - 2 * z
    BY <2>2, <2>3, <2>4
  <2> HIDE DEF z
  <2> QED
    BY <2>4, <2>5
<1>5. ASSUME NEW x \in Int, x % 2 = 0
      PROVE  A(x) \in Words
  <2> DEFINE r == x % Size
  <2>1. r \in Int /\ 0 <= r /\ r < Size /\ r % 2 = 0
    BY <1>1, <1>2, <1>4, <1>5
  <2>2. A(x) = r
    BY DEF A
  <2> HIDE DEF r
  <2> QED
    BY <2>1, <2>2, WordFacts
<1>6. ASSUME NEW x \in Words
      PROVE  A(x) = x
  BY <1>3, WordFacts DEF A
<1> QED
  BY <1>1, <1>5, <1>6

Stored(m) == DOMAIN m = Words /\ \A a \in Words : m[a] \in Cells
Held == /\ Stored(mem) /\ sp \in Words
        /\ ix \in Cells /\ hl \in Cells /\ de \in Cells

\* A store leaves words in memory, and one to an address changes that address.
LEMMA PutFacts ==
  ASSUME Stored(mem), NEW w, NEW x \in Cells
  PROVE  /\ Stored(Put(w, x))
         /\ w \in Words => /\ Put(w, x)[w] = x
                           /\ \A a \in Words \ {w} : Put(w, x)[a] = mem[a]
<1>1. DOMAIN mem = Words /\ \A a \in Words : mem[a] \in Cells
  BY DEF Stored
<1>2. Junk \in Cells
  BY DEF Cells
<1>3. w \in Words => w \in Int /\ A(w) = w
  BY AFacts, WordFacts
<1>4. CASE IsAddr(w)
  <2> DEFINE b == A(w)
  <2>1. b \in Words /\ Put(w, x) = [mem EXCEPT ![b] = x]
    BY <1>1, <1>4 DEF IsAddr, Put
  <2>2. w \in Words => b = w
    BY <1>3
  <2> HIDE DEF b
  <2>3. Stored([mem EXCEPT ![b] = x])
    BY <1>1, <2>1 DEF Stored
  <2> QED
    BY <1>1, <2>1, <2>2, <2>3
<1>5. CASE ~IsAddr(w)
  <2>1. w \notin Words
    BY <1>1, <1>3, <1>5 DEF IsAddr
  <2>2. Put(w, x) = [c \in Words |-> Junk]
    BY <1>1, <1>5 DEF Put
  <2> QED
    BY <1>2, <2>1, <2>2 DEF Stored
<1> QED
  BY <1>4, <1>5

\* A load gives a value, from an address the one stored there.
LEMMA CellFacts ==
  ASSUME Stored(mem), NEW w
  PROVE  Cell(w) \in Cells /\ (w \in Words => Cell(w) = mem[w])
<1>1. DOMAIN mem = Words /\ \A a \in Words : mem[a] \in Cells
  BY DEF Stored
<1>2. Junk \in Cells
  BY DEF Cells
<1>3. w \in Words => w \in Int /\ A(w) = w
  BY AFacts, WordFacts
<1> QED
  BY <1>1, <1>2, <1>3 DEF Cell, IsAddr

\* The frame is in memory: the words at Base and above it, those of the slots,
\* and the stack that a body needs.
LEMMA FrameFacts ==
  /\ Base \in Words /\ Base + 2 \in Words /\ Base + 4 \in Words /\ Base \in Int
  /\ \A o \in Slots : o \in Int /\ Base + o \in Words
  /\ \A a \in Bytes : a % 2 = 0 => Base - a - 4 \in Words /\ Base - a - 2 \in Words
                                    /\ Base - a \in Words
<1> DEFINE p == Len(Params)
<1>1. /\ Size \in Nat /\ Size % 2 = 0 /\ Base \in Nat /\ Base % 2 = 0
      /\ MaxItems \in Nat /\ MaxItems >= 1 /\ 2 * MaxItems + 2 <= Base
      /\ p \in Nat /\ Base + 4 + 2 * p < Size
  BY SizeAssumption, StackAssumption, FrameAssumption
<1> HIDE DEF p
<1>2. Base + 4 < Size
  BY <1>1
<1>3. Base \in Words /\ Base + 2 \in Words /\ Base + 4 \in Words
  BY <1>1, <1>2, WordFacts
<1>4. ASSUME NEW o \in Slots
      PROVE  o \in Int /\ Base + o \in Words
  <2>1. o \in Int /\ o >= -(2 * MaxItems - 2) /\ o <= Size - Base - 2 /\ o % 2 = 0
    BY <1>1 DEF Slots
  <2>2. (Base + o) % 2 = 0 /\ 0 <= Base + o /\ Base + o < Size /\ Base + o \in Int
    BY <1>1, <2>1
  <2> QED
    BY <2>1, <2>2, WordFacts
<1>5. ASSUME NEW a \in Bytes, a % 2 = 0
      PROVE  Base - a - 4 \in Words /\ Base - a - 2 \in Words /\ Base - a \in Words
  <2>1. a \in Int /\ 0 <= a /\ a <= 2 * MaxItems - 2 /\ a % 2 = 0
    BY <1>1, <1>5 DEF Bytes
  <2>2. (Base - a) % 2 = 0 /\ (Base - a - 2) % 2 = 0 /\ (Base - a - 4) % 2 = 0
    BY <1>1, <2>1
  <2> QED
    BY <1>1, <2>1, <2>2, WordFacts
<1> QED
  BY <1>1, <1>3, <1>4, <1>5

\* The frame is linked below the caller's return address.
Linked == mem[Base] = CallerIX /\ mem[Base + 2] = RetAddr
Called == sp = Base + 2 /\ ix = CallerIX /\ mem[Base + 2] = RetAddr

\* A function of no item has the parameters in scope and its first instructions.
LEMMA InitReads == ASSUME Init PROVE ReadInv /\ phase = "read"
<1> DEFINE f == [NoFrame EXCEPT !.decls = TRUE]
           s == <<GlobalScope, ParamScope>>
           t == Prologue \o Mark
           u == Item("{", "none", "none")
<1>1. /\ ctl = <<f>> /\ phase = "read" /\ mode = "end" /\ off = 0
      /\ code = At(t, 1, s) /\ prog = <<u>> /\ scopes = <<GlobalScope, ParamScope, <<>>>>
  BY Zenon DEF Init
<1>0. off = 0 /\ phase = "read" /\ mode = "end"
  BY <1>1
<1> DEFINE z == <<>>
<1>s. scopes = <<GlobalScope, ParamScope, z>>
  BY <1>1
<1>2. LInv
  BY InitLInv
<1>3. IsSeq(prog) /\ Started = {1}
  <2>0. prog = <<u>>
    BY <1>1
  <2> HIDE DEF u
  <2>1. prog \in Seq({u}) /\ DOMAIN prog = {1} /\ prog[1] = u
    BY <2>0
  <2>2. u.k \notin {"}", "else", "fi", "od"}
    BY DEF Item, u
  <2> QED
    BY <2>1, <2>2 DEF Started, IsSeq
<1>4. Cardinality(Started) = 1
  BY <1>3, FS_Singleton
<1>5. 0 \in Bytes
  BY StackAssumption DEF Bytes
<1>6. \A v \in DOMAIN GlobalScope : GlobalScope[v] \in Slots /\ GlobalScope[v] >= 0
  <2> SUFFICES ASSUME NEW v \in Globals
               PROVE  0 \in Slots
    BY DEF GlobalScope
  <2>1. ~Flat
    BY DEF Flat
  <2>2. 0 \in -(2 * MaxItems - 2)..(Size - Base - 2)
    <3> DEFINE p == Len(Params)
    <3>1. /\ Size \in Nat /\ Base \in Nat /\ MaxItems \in Nat \ {0}
          /\ p \in Nat /\ Base + 4 + 2 * p < Size
      BY SizeAssumption, StackAssumption, FrameAssumption
    <3> HIDE DEF p
    <3> QED
      BY <3>1
  <2> QED
    BY <2>1, <2>2 DEF Slots
<1>7. \A v \in DOMAIN ParamScope : ParamScope[v] \in Slots /\ ParamScope[v] >= 0
  <2> SUFFICES ASSUME NEW v \in {Params[i] : i \in DOMAIN Params}
               PROVE  ParamScope[v] \in Slots /\ ParamScope[v] >= 0
    BY DEF ParamScope
  <2> DEFINE i == CHOOSE i \in DOMAIN Params : Params[i] = v
             p == Len(Params)
  <2>1. i \in DOMAIN Params
    OBVIOUS
  <2>2. i \in 1..p /\ p \in Nat
    BY <2>1, FrameAssumption
  <2>3. ParamScope[v] = 4 + 2 * (i - 1)
    BY DEF ParamScope
  <2>4. /\ Size \in Nat /\ Base \in Nat /\ MaxItems \in Nat \ {0}
        /\ Base + 4 + 2 * p < Size /\ Size % 2 = 0 /\ Base % 2 = 0
    BY SizeAssumption, StackAssumption, FrameAssumption
  <2> HIDE DEF i, p
  <2> DEFINE o == 4 + 2 * (i - 1)
  <2>5. o \in -(2 * MaxItems - 2)..(Size - Base - 2) /\ o >= 4 /\ o % 2 = 0
    BY <2>2, <2>4
  <2> QED
    BY <2>3, <2>5 DEF Slots
<1>8. ScopesAt(scopes, 0)
  <2>0. DOMAIN z = {}
    OBVIOUS
  <2> HIDE DEF z
  <2>1. scopes \in Seq({GlobalScope, ParamScope, z}) /\ DOMAIN scopes = 1..3
        /\ scopes[1] = GlobalScope /\ scopes[2] = ParamScope /\ scopes[3] = z
    BY <1>s
  <2>2. DOMAIN scopes[3] = {}
    BY <2>0, <2>1
  <2>3. \A i \in 1..3 : i = 1 \/ i = 2 \/ i = 3
    OBVIOUS
  <2> QED
    BY <1>6, <1>7, <2>1, <2>2, <2>3 DEF ScopesAt, IsSeq
<1>9. /\ Len(t) = 3 /\ IsSeq(t)
      /\ t[1].op = "pushix" /\ t[2].op = "ldix" /\ t[3] = I("mark", 0)
  <2> DEFINE x1 == I("pushix", 0)
             x2 == I("ldix", 0)
             x3 == I("mark", 0)
             a == Prologue
             b == Mark
  <2>1. a = <<x1, x2>> /\ b = <<x3>>
    BY DEF Prologue, Mark
  <2>2. x1.op = "pushix" /\ x2.op = "ldix"
    BY DEF I
  <2> HIDE DEF a, b, x1, x2, x3
  <2>3. a \in Seq({x1, x2}) /\ b \in Seq({x3})
    BY <2>1
  <2>4. IsSeq(a) /\ IsSeq(b)
    BY <2>3 DEF IsSeq
  <2>5. Len(a) = 2 /\ Len(b) = 1 /\ a[1] = x1 /\ a[2] = x2 /\ b[1] = x3
    BY <2>1
  <2>6. Len(a \o b) = 3
    <3>1. Len(a \o b) = Len(a) + Len(b)
      BY <2>4, ConcatLen
    <3> QED
      BY <2>5, <3>1
  <2>7. /\ IsSeq(a \o b) /\ \A i \in 1..Len(a) : (a \o b)[i] = a[i]
        /\ \A i \in 1..Len(b) : (a \o b)[Len(a) + i] = b[i]
    BY <2>4, ConcatFacts
  <2>8. (a \o b)[1] = x1 /\ (a \o b)[2] = x2 /\ (a \o b)[3] = x3
    <3>1. 1 \in 1..Len(a) /\ 2 \in 1..Len(a) /\ 1 \in 1..Len(b) /\ Len(a) + 1 = 3
      BY <2>5
    <3> QED
      BY <2>5, <2>7, <3>1
  <2>9. t = a \o b
    BY DEF a, b
  <2> HIDE DEF t
  <2> QED
    BY <2>2, <2>6, <2>7, <2>8, <2>9 DEF x3
<1> HIDE DEF t
<1>10. /\ IsSeq(code) /\ Len(code) = 3
       /\ \A i \in 1..3 : code[i].op = t[i].op /\ code[i].n = t[i].n /\ code[i].in = s
  <2>1. DOMAIN t = 1..3 /\ DOMAIN code = 1..3
    BY <1>1, <1>9, SeqFacts DEF At
  <2>2. code = [i \in DOMAIN t |-> code[i]]
    BY <1>1, <2>1 DEF At
  <2>3. IsSeq(code) /\ Len(code) = 3
    BY <1>9, <2>2, MapFacts
  <2>4. \A i \in 1..3 : code[i].op = t[i].op /\ code[i].n = t[i].n /\ code[i].in = s
    BY <1>1, <2>1 DEF At
  <2> QED
    BY <2>3, <2>4
<1>11. SlotsIn(s) = {}
  <2>1. Len(s) = 2
    OBVIOUS
  <2> HIDE DEF s
  <2> QED
    BY <2>1 DEF SlotsIn
<1> DEFINE L == [l \in Nat |-> 0]
           K == [i \in 1..4 |-> Rest(0)]
           x == code[3]
<1>12. L \in [Nat -> Int] /\ K \in [1..4 -> Known] /\ Rest(0) \in Known
  BY <1>5, RestFacts
<1> HIDE DEF L
<1>13. Goes(x, Rest(0), Rest(0), L)
  <2>1. x.op = "mark"
    BY <1>9, <1>10 DEF I
  <2>2. OperandOK(x)
    BY <2>1 DEF OperandOK, BodyOps
  <2>3. StackOK(x, Rest(0), Rest(0))
    BY <2>1 DEF StackOK, Rest, Stores, Control
  <2>4. ValuesOK(x, Rest(0), Rest(0))
    BY DEF ValuesOK, Rest
  <2>5. UseOK(x, Rest(0), L)
    BY <2>1 DEF UseOK, Control
  <2> QED
    BY <2>2, <2>3, <2>4, <2>5 DEF Goes
<1>14. Body(K, L, code, 3)
  <2>1. \A i \in 3..3 : i = 3
    OBVIOUS
  <2>2. K[3] = Rest(0) /\ K[3 + 1] = Rest(0) /\ K[4] = Rest(0)
    OBVIOUS
  <2>3. code[3].in = s
    BY <1>10
  <2>4. 3 \in 3..Len(code) /\ 1..(3 + 1) = 1..4
    BY <1>10
  <2> HIDE DEF K, s
  <2> QED
    BY <1>10, <1>11, <1>12, <1>13, <2>1, <2>2, <2>3, <2>4 DEF Body
<1>15. LinkedIn(code)
  BY <1>9, <1>10, <1>11 DEF LinkedIn
<1>16. FlowTo(code, L, Rest(0))
  <2>1. K[3 + 1] = Rest(0) /\ Len(code) = 3
    BY <1>10
  <2> HIDE DEF K
  <2> QED
    BY <1>14, <1>15, <2>1 DEF FlowTo
<1>17. OpenAt(ctl, L, 0)
  <2>1. f.k = "block"
    BY DEF NoFrame
  <2>0. ctl = <<f>>
    BY <1>1
  <2> HIDE DEF f
  <2>2. DOMAIN ctl = {1} /\ ctl[1] = f
    BY <2>0
  <2> QED
    BY <2>1, <2>2 DEF OpenAt, Kinds, Labels
<1>18. -off = 0
  <2>1. \A w \in Int : -w = 0 - w
    OBVIOUS
  <2>2. off \in Int
    BY <1>0
  <2> DEFINE y == -off
  <2>3. y = 0 - off
    BY <2>1, <2>2
  <2> HIDE DEF y
  <2>4. y = 0
    BY <1>0, <2>3
  <2> QED
    BY <2>4 DEF y
<1>19. Parsed(L)
  BY <1>16, <1>17, <1>18 DEF Parsed
<1>20. 2 - off <= 2 * Cardinality(Started) /\ off \in Int /\ off % 2 = 0 /\ -off \in Bytes
  <2> DEFINE c == Cardinality(Started)
  <2>1. c = 1
    BY <1>4
  <2> HIDE DEF c
  <2>2. 2 - off <= 2 * c
    BY <1>0, <2>1
  <2>3. off \in Int /\ off % 2 = 0 /\ -off \in Bytes
    BY <1>0, <1>5, <1>18
  <2> QED
    BY <2>2, <2>3 DEF c
<1> QED
  BY <1>0, <1>2, <1>3, <1>8, <1>12, <1>19, <1>20 DEF ReadInv

\* The caller has put arguments and return address where the function looks.
LEMMA InitCalled == ASSUME Init PROVE Held /\ Called /\ pc = 1
<1>1. /\ pc = 1 /\ sp = Base + 2 /\ ix = CallerIX /\ hl = Junk /\ de = Junk
      /\ \E args \in [DOMAIN Params -> {Lits[e] : e \in DOMAIN Lits}] :
           mem = [a \in {2 * n : n \in 0..(Size \div 2 - 1)} |->
                    IF a = Base + 2 THEN RetAddr
                    ELSE IF (a - Base - 2) \div 2 \in DOMAIN Params /\ a > Base + 2
                    THEN args[(a - Base - 2) \div 2] ELSE Junk]
  BY DEF Init
<1>2. PICK args \in [DOMAIN Params -> {Lits[e] : e \in DOMAIN Lits}] :
        mem = [a \in Words |->
                 IF a = Base + 2 THEN RetAddr
                 ELSE IF (a - Base - 2) \div 2 \in DOMAIN Params /\ a > Base + 2
                 THEN args[(a - Base - 2) \div 2] ELSE Junk]
  BY <1>1 DEF Words
<1>3. \A e \in DOMAIN Lits : Lits[e] \in Cells
  BY LitsAssumption DEF Cells
<1>4. {Junk, RetAddr, CallerIX} \subseteq Cells
  BY DEF Cells
<1>5. \A i \in DOMAIN Params : args[i] \in Cells
  BY <1>3
<1>6. Stored(mem)
  BY <1>2, <1>4, <1>5 DEF Stored
<1>7. Base + 2 \in Words
  BY FrameFacts
<1>8. mem[Base + 2] = RetAddr
  BY <1>2, <1>7
<1> QED
  BY <1>1, <1>4, <1>6, <1>7, <1>8 DEF Held, Called

-----------------------------------------------------------------------------
(* The machine *)

\* The registers and the top of the stack are as k says.
Knows(k) ==
  /\ sp = Base - k.a - 2 * k.d
  /\ \A o \in k.hl : hl = Base + o
  /\ \A o \in k.de : de = Base + o
  /\ \A o \in k.top : mem[sp] = Base + o

\* Control is in the function, and everything is as K says at this place.
Runs(K) ==
  LET n == Len(code)
  IN /\ pc \in 1..n
     /\ pc = 1 => Called
     /\ pc = 2 => sp = Base /\ Linked
     /\ pc \in 3..(n - 1) => ix = Base
     /\ pc = n - 1 => sp = Base
     /\ Flat => /\ pc \in 3..(n - 1) => Linked
                /\ pc \in 3..(n - 4) => Knows(K[pc])
                /\ pc = n => Called

\* What is at which place of a finished function.
LEMMA Places ==
  ASSUME NEW K, NEW L, Ready(K, L)
  PROVE  LET n == Len(code)
         IN /\ n \in Nat /\ n >= 7 /\ DOMAIN code = 1..n
            /\ code[1].op = "pushix" /\ code[2].op = "ldix"
            /\ code[n - 3].op = "label" /\ code[n - 3].n = ExitLabel
            /\ code[n - 2].op = "ldsp" /\ code[n - 1].op = "popix" /\ code[n].op = "ret"
            /\ L \in [Nat -> Int] /\ K[3] = Rest(0)
            /\ \A i \in 3..(n - 4) :
                 /\ K[i] \in Known /\ K[i + 1] \in Known
                 /\ Goes(code[i], K[i], K[i + 1], L) /\ code[i].op \in BodyOps
                 /\ \A o \in SlotsIn(code[i].in) : o \in Int /\ o >= -K[i].a
            /\ \A i \in 1..n : i \in 3..(n - 4) \/ SlotsIn(code[i].in) = {}
<1> DEFINE n == Len(code)
<1>1. LinkedIn(code) /\ Body(K, L, code, n - 4)
  BY DEF Ready
<1>2. /\ code[n - 3].op = "label" /\ code[n - 3].n = ExitLabel
      /\ code[n - 2].op = "ldsp" /\ code[n - 1].op = "popix" /\ code[n].op = "ret"
      /\ \A i \in (n - 3)..n : SlotsIn(code[i].in) = {}
  BY DEF Ready
<1>3. /\ IsSeq(code) /\ n - 4 \in 3..n
      /\ K \in [1..(n - 4 + 1) -> Known] /\ L \in [Nat -> Int]
      /\ K[3] = Rest(0)
      /\ \A i \in 3..(n - 4) : /\ Goes(code[i], K[i], K[i + 1], L)
                               /\ \A o \in SlotsIn(code[i].in) : o \in Int /\ o >= -K[i].a
  BY <1>1 DEF Body
<1>4. n \in Nat /\ DOMAIN code = 1..n
  BY <1>3, SeqFacts
<1> HIDE DEF n
<1>5. n >= 7
  BY <1>3, <1>4
<1>6. ASSUME NEW i \in 3..(n - 4)
      PROVE  /\ K[i] \in Known /\ K[i + 1] \in Known /\ code[i].op \in BodyOps
  <2>1. i \in 1..(n - 4 + 1) /\ i + 1 \in 1..(n - 4 + 1)
    BY <1>4
  <2>2. code[i].op \in BodyOps
    BY <1>3 DEF Goes, OperandOK
  <2> QED
    BY <1>3, <2>1, <2>2
<1>7. ASSUME NEW i \in 1..n, i \notin 3..(n - 4)
      PROVE  SlotsIn(code[i].in) = {}
  <2>1. i = 1 \/ i = 2 \/ i \in (n - 3)..n
    BY <1>4, <1>7
  <2> QED
    BY <1>1, <1>2, <2>1 DEF LinkedIn
<1> QED
  BY <1>1, <1>2, <1>3, <1>4, <1>5, <1>6, <1>7 DEF LinkedIn, n

\* The instruction tells the place.
LEMMA Here ==
  ASSUME NEW K, NEW L, Ready(K, L), pc \in 1..Len(code)
  PROVE  LET n == Len(code)
             op == code[pc].op
         IN /\ op = "pushix" => pc = 1
            /\ op = "ldix" => pc = 2
            /\ op = "ldsp" => pc = n - 2
            /\ op = "popix" => pc = n - 1
            /\ op = "ret" => pc = n
            /\ op \in BodyOps => pc \in 3..(n - 4) \/ (op = "label" /\ pc = n - 3)
<1> DEFINE n == Len(code)
<1>1. /\ n \in Nat /\ n >= 7
      /\ code[1].op = "pushix" /\ code[2].op = "ldix"
      /\ code[n - 3].op = "label"
      /\ code[n - 2].op = "ldsp" /\ code[n - 1].op = "popix" /\ code[n].op = "ret"
      /\ \A i \in 3..(n - 4) : code[i].op \in BodyOps
  BY Places
<1>2. pc \in 1..n
  OBVIOUS
<1> HIDE DEF n
<1>3. \/ pc = 1 \/ pc = 2 \/ pc = n - 3 \/ pc = n - 2 \/ pc = n - 1 \/ pc = n
      \/ pc \in 3..(n - 4)
  BY <1>1, <1>2
<1>4. {"pushix", "ldix", "ldsp", "popix", "ret"} \cap BodyOps = {}
  BY DEF BodyOps, Loads, Stores, Control
<1>5. "label" \notin {"pushix", "ldix", "ldsp", "popix", "ret"}
  OBVIOUS
<1> DEFINE op == code[pc].op
<1>6. \/ pc = 1 /\ op = "pushix"
      \/ pc = 2 /\ op = "ldix"
      \/ pc = n - 3 /\ op = "label"
      \/ pc = n - 2 /\ op = "ldsp"
      \/ pc = n - 1 /\ op = "popix"
      \/ pc = n /\ op = "ret"
      \/ pc \in 3..(n - 4) /\ op \in BodyOps
  BY <1>1, <1>3
<1> HIDE DEF op
<1> QED
  BY <1>4, <1>5, <1>6 DEF n, op

\* In the body the frame is linked and the next instruction is known.
LEMMA InBody ==
  ASSUME NEW K, NEW L, Ready(K, L), Runs(K), code[pc].op \in BodyOps, code[pc].op # "label"
  PROVE  /\ pc \in 3..(Len(code) - 4) /\ ix = Base
         /\ Goes(code[pc], K[pc], K[pc + 1], L) /\ K[pc] \in Known /\ K[pc + 1] \in Known
         /\ Flat => Linked /\ Knows(K[pc])
<1>1. pc \in 1..Len(code)
  BY DEF Runs
<1>2. pc \in 3..(Len(code) - 4) /\ Len(code) \in Nat
  BY <1>1, Here, Places
<1>3. Goes(code[pc], K[pc], K[pc + 1], L) /\ K[pc] \in Known /\ K[pc + 1] \in Known
  BY <1>2, Places
<1>4. pc \in 3..(Len(code) - 1)
  BY <1>2
<1>5. ix = Base /\ (Flat => Linked /\ Knows(K[pc]))
  BY <1>2, <1>4 DEF Runs
<1> QED
  BY <1>2, <1>3, <1>5

\* Values: addresses and what instructions name.
LEMMA CellKinds ==
  /\ Words \subseteq Cells /\ Slots \subseteq Cells
  /\ -Size..(2 * Size) \subseteq Cells /\ Junk \in Cells
<1>1. Size \in Nat /\ Base \in Nat /\ MaxItems \in Nat /\ 2 * MaxItems + 2 <= Base /\ Base < Size
  <2> DEFINE p == Len(Params)
  <2>1. /\ Size \in Nat /\ Base \in Nat /\ MaxItems \in Nat /\ 2 * MaxItems + 2 <= Base
        /\ p \in Nat /\ Base + 4 + 2 * p < Size
    BY SizeAssumption, StackAssumption, FrameAssumption
  <2> HIDE DEF p
  <2> QED
    BY <2>1
<1>2. Words \subseteq Cells
  <2>1. \A w \in Words : w \in -Size..(2 * Size)
    BY <1>1, WordFacts
  <2> QED
    BY <2>1 DEF Cells
<1>3. Slots \subseteq Cells
  <2>1. \A o \in Slots : o \in -Size..(2 * Size)
    BY <1>1 DEF Slots
  <2> QED
    BY <2>1 DEF Cells
<1> QED
  BY <1>2, <1>3 DEF Cells

\* Two bytes from a word is a word again, at the end of memory the first.
LEMMA NextWord ==
  ASSUME NEW w \in Words
  PROVE  A(w - 2) \in Words /\ A(w + 2) \in Words
<1>1. w - 2 \in Int /\ w + 2 \in Int /\ (w - 2) % 2 = 0 /\ (w + 2) % 2 = 0
  BY WordFacts
<1> QED
  BY <1>1, AFacts

\* Every instruction leaves values in memory and in the registers.
LEMMA RunHeld ==
  ASSUME NEW K, NEW L, Held, Ready(K, L), Runs(K), Run
  PROVE  Held'
<1> USE DEF Op
<1>1. /\ Stored(mem) /\ sp \in Words /\ ix \in Cells /\ hl \in Cells /\ de \in Cells
  BY DEF Held
<1>2. \A w : Cell(w) \in Cells
  BY <1>1, CellFacts
<1>3. ASSUME code[pc].op \in BodyOps, code[pc].op # "label"
      PROVE  /\ ix = Base /\ OperandOK(code[pc])
  BY <1>3, InBody DEF Goes
<1>4. CASE LoadHL
  <2>1. UNCHANGED <<mem, sp, ix, de>>
    BY <1>4 DEF LoadHL
  <2>2. CASE code[pc].op = "imm"
    <3>1. N \in Cells
      BY <1>3, <2>2, CellKinds DEF BodyOps, Loads, OperandOK, N
    <3> QED
      BY <1>1, <1>4, <2>1, <2>2, <3>1 DEF LoadHL, Held
  <2>3. CASE code[pc].op # "imm"
    <3>1. hl' \in Cells
      BY <1>2, <1>4, <2>3 DEF LoadHL
    <3> QED
      BY <1>1, <2>1, <3>1 DEF Held
  <2> QED
    BY <2>2, <2>3
<1>5. CASE LoadAddress
  <2>1. /\ UNCHANGED <<sp, ix>>
        /\ mem' = Put(sp - 2, ix) /\ hl' = ix + N /\ de' = N
    BY <1>5 DEF LoadAddress, IxD
  <2>2. ix = Base /\ N \in Slots
    BY <1>3, <1>5 DEF LoadAddress, BodyOps, OperandOK, N
  <2>3. hl' \in Cells /\ de' \in Cells
    BY <2>1, <2>2, FrameFacts, CellKinds
  <2>4. Stored(mem')
    BY <1>1, <2>1, PutFacts
  <2> QED
    BY <1>1, <2>1, <2>3, <2>4 DEF Held, Stored
<1>6. CASE StoreWord
  <2>1. /\ UNCHANGED <<sp, ix, hl, de>>
        /\ \E w, x : x \in {hl, de} /\ mem' = Put(w, x)
    BY <1>6 DEF StoreWord
  <2>2. Stored(mem')
    BY <1>1, <2>1, PutFacts
  <2> QED
    BY <1>1, <2>1, <2>2 DEF Held, Stored
<1>7. CASE Push
  <2>1. /\ UNCHANGED <<ix, hl, de>> /\ sp' = A(sp - 2)
        /\ \E w, x : x \in {hl, ix} /\ mem' = Put(w, x)
    BY <1>7 DEF Push
  <2>2. Stored(mem')
    BY <1>1, <2>1, PutFacts
  <2>3. sp' \in Words
    BY <1>1, <2>1, NextWord
  <2> QED
    BY <1>1, <2>1, <2>2, <2>3 DEF Held, Stored
<1>8. CASE Pop
  <2>1. /\ UNCHANGED <<hl, mem>> /\ sp' = A(sp + 2)
        /\ de' \in {de, Cell(sp)} /\ ix' \in {ix, Cell(sp)}
    BY <1>8 DEF Pop
  <2>2. sp' \in Words
    BY <1>1, <2>1, NextWord
  <2> QED
    BY <1>1, <1>2, <2>1, <2>2 DEF Held, Stored
<1>9. CASE Alloc
  <2>1. /\ UNCHANGED <<ix, de, mem>> /\ sp' = A(sp - N) /\ hl' = A(sp - N)
    BY <1>9 DEF Alloc
  <2>2. N = 2
    BY <1>3, <1>9 DEF Alloc, BodyOps, OperandOK, N
  <2>3. A(sp - N) \in Words
    BY <1>1, <2>2, NextWord
  <2> QED
    BY <1>1, <2>1, <2>3, CellKinds DEF Held, Stored
<1>10. CASE LinkFrame
  <2>1. UNCHANGED <<hl, de, mem>>
    BY <1>10 DEF LinkFrame
  <2>2. CASE code[pc].op = "ldix"
    <3>1. sp' = sp /\ ix' = sp
      BY <1>10, <2>2 DEF LinkFrame
    <3> QED
      BY <1>1, <2>1, <3>1, CellKinds DEF Held, Stored
  <2>3. CASE code[pc].op = "ldsp"
    <3>1. sp' = ix /\ ix' = ix
      BY <1>10, <2>3 DEF LinkFrame
    <3>2. pc = Len(code) - 2 /\ Len(code) \in Nat /\ Len(code) >= 7
      BY <2>3, Here, Places DEF Runs
    <3>3. ix = Base
      BY <3>2 DEF Runs
    <3> QED
      BY <1>1, <2>1, <3>1, <3>3, FrameFacts, CellKinds DEF Held, Stored
  <2> QED
    BY <1>10, <2>2, <2>3 DEF LinkFrame
<1>11. CASE CallOut
  <2>1. /\ UNCHANGED <<sp, ix>> /\ hl' = Junk /\ de' = Junk
        /\ mem' = [a \in DOMAIN mem |-> IF a <= sp THEN Junk ELSE mem[a]]
    BY <1>11 DEF CallOut
  <2>2. Stored(mem')
    BY <1>1, <2>1, CellKinds DEF Stored
  <2> QED
    BY <1>1, <2>1, <2>2, CellKinds DEF Held, Stored
<1>12. CASE Jump \/ NoJump
  <2>1. UNCHANGED <<sp, ix, hl, de, mem>>
    BY <1>12 DEF Jump, NoJump
  <2> QED
    BY <1>1, <2>1 DEF Held, Stored
<1>13. CASE BackToCaller
  <2>1. UNCHANGED <<ix, hl, de, mem>> /\ sp' = A(sp + 2)
    BY <1>13 DEF BackToCaller
  <2>2. sp' \in Words
    BY <1>1, <2>1, NextWord
  <2> QED
    BY <1>1, <2>1, <2>2 DEF Held, Stored
<1> QED
  BY <1>4, <1>5, <1>6, <1>7, <1>8, <1>9, <1>10, <1>11, <1>12, <1>13 DEF Run

\* The next instruction of the body: what is known there holds.
LEMMA Onto ==
  ASSUME NEW K, NEW L, Ready(K, L), pc \in 3..(Len(code) - 4), pc' = pc + 1,
         code' = code, ix' = Base,
         NEW m, m = K[pc + 1], Flat => Linked' /\ Knows(m)'
  PROVE  Runs(K)'
<1> DEFINE n == Len(code)
<1>1. n \in Nat /\ Len(code') = n
  BY Places
<1>2. pc \in 3..(n - 4)
  OBVIOUS
<1> HIDE DEF n
<1>3. pc' \in 4..(n - 3)
  BY <1>1, <1>2
<1>4. /\ pc' \in 1..n /\ pc' \in 3..(n - 1)
      /\ pc' # 1 /\ pc' # 2 /\ pc' # n - 1 /\ pc' # n
  BY <1>1, <1>3
<1>5. K[pc'] = m
  OBVIOUS
<1>6. Flat => Knows(K[pc])'
  BY <1>5 DEF Knows
<1> QED
  BY <1>1, <1>4, <1>6 DEF Runs, Linked, Flat

\* Where SP is in the body: at the lowest local, or one word below it.
LEMMA StackFacts ==
  ASSUME Held, NEW k \in Known, Knows(k)
  PROVE  /\ sp - 2 \in Words /\ A(sp - 2) = sp - 2
         /\ sp \in Int /\ sp - 2 < Base /\ Base < Base + 2 /\ sp <= Base
         /\ k.d = 1 => sp < Base /\ sp + 2 \in Words /\ A(sp + 2) = sp + 2
         /\ k.a \in Bytes /\ sp = Base - k.a - 2 * k.d
<1> DEFINE a == k.a
           d == k.d
<1>1. sp = Base - a - 2 * d /\ sp \in Words /\ a \in Bytes /\ d \in {0, 1}
  BY DEF Held, Knows, Known, Bytes
<1> HIDE DEF a, d
<1>2. Base \in Nat /\ Base % 2 = 0 /\ MaxItems \in Nat
  BY SizeAssumption, StackAssumption
<1>3. a \in Int /\ a >= 0 /\ sp \in Int /\ sp % 2 = 0
  BY <1>1, <1>2, WordFacts DEF Bytes
<1>4. a % 2 = 0
  BY <1>1, <1>2, <1>3
<1>5. Base - a - 4 \in Words /\ Base - a - 2 \in Words /\ Base - a \in Words
  BY <1>1, <1>4, FrameFacts
<1>6. CASE d = 0
  <2>1. sp = Base - a /\ sp - 2 = Base - a - 2 /\ sp - 2 < Base /\ Base < Base + 2 /\ sp <= Base
    BY <1>1, <1>2, <1>3, <1>6
  <2> QED
    BY <1>1, <1>3, <1>5, <1>6, <2>1, AFacts DEF a, d
<1>7. CASE d = 1
  <2>1. /\ sp - 2 = Base - a - 4 /\ sp + 2 = Base - a
        /\ sp < Base /\ sp - 2 < Base /\ Base < Base + 2 /\ sp <= Base
    BY <1>1, <1>2, <1>3, <1>7
  <2> QED
    BY <1>1, <1>3, <1>5, <1>7, <2>1, AFacts DEF a, d
<1> QED
  BY <1>1, <1>6, <1>7

\* A load of HL.
LEMMA LoadRuns ==
  ASSUME NEW K, NEW L, Held, Ready(K, L), Runs(K), LoadHL
  PROVE  Runs(K)'
<1>1. /\ code[pc].op \in Loads /\ pc' = pc + 1
      /\ UNCHANGED <<code, sp, ix, de, mem>>
  BY DEF LoadHL, Op, Onward, parser, Loads
<1>2. /\ pc \in 3..(Len(code) - 4) /\ ix = Base
      /\ Goes(code[pc], K[pc], K[pc + 1], L) /\ K[pc] \in Known /\ K[pc + 1] \in Known
      /\ Flat => Linked /\ Knows(K[pc])
  BY <1>1, InBody DEF BodyOps, Loads
<1>3. PICK k, m, x : k = K[pc] /\ m = K[pc + 1] /\ x = code[pc]
  OBVIOUS
<1>4. Goes(x, k, m, L) /\ x.op \in Loads /\ (Flat => Linked /\ Knows(k))
  BY <1>1, <1>2, <1>3
<1>5. m.a = k.a /\ m.d = k.d
  BY <1>4 DEF Goes, StackOK, Loads
<1>6. m.hl = {} \/ \A o \in m.hl : FALSE
  BY <1>4 DEF Goes, ValuesOK, Loads
<1>7. (\A o \in m.de : o \in k.de) /\ (\A o \in m.top : o \in k.top)
  BY <1>4 DEF Goes, ValuesOK, Loads
<1>8. Flat => Linked' /\ Knows(m)'
  BY <1>1, <1>4, <1>5, <1>6, <1>7 DEF Knows, Linked
<1> QED
  BY <1>1, <1>2, <1>3, <1>8, Onto

\* The address of a slot in HL; the word below the stack is used for it.
LEMMA LeaRuns ==
  ASSUME NEW K, NEW L, Held, Ready(K, L), Runs(K), LoadAddress
  PROVE  Runs(K)'
<1>1. /\ code[pc].op = "lea" /\ pc' = pc + 1 /\ UNCHANGED <<code, sp, ix>>
      /\ mem' = Put(sp - 2, ix) /\ hl' = ix + N /\ de' = N
  BY DEF LoadAddress, Op, Onward, parser, IxD
<1>2. /\ pc \in 3..(Len(code) - 4) /\ ix = Base
      /\ Goes(code[pc], K[pc], K[pc + 1], L) /\ K[pc] \in Known /\ K[pc + 1] \in Known
      /\ Flat => Linked /\ Knows(K[pc])
  BY <1>1, InBody DEF BodyOps, Loads
<1>3. PICK k, m, x : k = K[pc] /\ m = K[pc + 1] /\ x = code[pc]
  OBVIOUS
<1>4. /\ Goes(x, k, m, L) /\ x.op = "lea" /\ (Flat => Linked /\ Knows(k))
      /\ N = x.n /\ k \in Known
  BY <1>1, <1>2, <1>3 DEF N
<1>5. m.a = k.a /\ m.d = k.d
  BY <1>4 DEF Goes, StackOK
<1>6. \A o \in m.hl : o = N
  BY <1>4 DEF Goes, ValuesOK, Loads
<1>7. (\A o \in m.de : FALSE) /\ (\A o \in m.top : o \in k.top)
  BY <1>4 DEF Goes, ValuesOK
<1>8. Flat => Linked' /\ Knows(m)'
  <2> SUFFICES ASSUME Flat
               PROVE  Linked' /\ Knows(m)'
    OBVIOUS
  <2>1. Linked /\ Knows(k)
    BY <1>4
  <2>2. sp - 2 \in Words /\ sp \in Int /\ sp - 2 < Base /\ Base < Base + 2
    BY <1>4, <2>1, StackFacts
  <2>3. Base \in Words /\ Base + 2 \in Words /\ Base \in Int
    BY FrameFacts
  <2>4. sp \in Words /\ Stored(mem) /\ ix \in Cells
    BY DEF Held
  <2>5. \A a \in Words \ {sp - 2} : mem'[a] = mem[a]
    BY <1>1, <2>2, <2>4, PutFacts
  <2>6. Base # sp - 2 /\ Base + 2 # sp - 2 /\ sp # sp - 2
    BY <2>2, <2>3
  <2>7. Linked'
    BY <2>1, <2>3, <2>5, <2>6 DEF Linked
  <2>8. mem'[sp] = mem[sp]
    BY <2>4, <2>5, <2>6
  <2>9. Knows(m)'
    BY <1>1, <1>2, <1>5, <1>6, <1>7, <2>1, <2>8 DEF Knows
  <2> QED
    BY <2>7, <2>9
<1>9. ix' = Base
  BY <1>1, <1>2
<1> QED
  BY <1>1, <1>2, <1>3, <1>8, <1>9, Onto

\* A store, through IX or through a register that holds the address of a slot.
LEMMA StoreRuns ==
  ASSUME NEW K, NEW L, Held, Ready(K, L), Runs(K), StoreWord
  PROVE  Runs(K)'
<1>1. /\ code[pc].op \in Stores /\ pc' = pc + 1 /\ UNCHANGED <<code, sp, ix, hl, de>>
      /\ code[pc].op = "st" => mem' = Put(ix + N, hl)
      /\ code[pc].op = "sthl" => mem' = Put(de, hl)
      /\ code[pc].op = "stde" => mem' = Put(hl, de)
  BY DEF StoreWord, Op, Onward, parser, IxD, Stores
<1>2. /\ pc \in 3..(Len(code) - 4) /\ ix = Base
      /\ Goes(code[pc], K[pc], K[pc + 1], L) /\ K[pc] \in Known /\ K[pc + 1] \in Known
      /\ Flat => Linked /\ Knows(K[pc])
  BY <1>1, InBody DEF BodyOps, Stores
<1>3. PICK k, m, x : k = K[pc] /\ m = K[pc + 1] /\ x = code[pc]
  OBVIOUS
<1>4. /\ Goes(x, k, m, L) /\ x.op \in Stores /\ (Flat => Linked /\ Knows(k))
      /\ N = x.n /\ k \in Known
  BY <1>1, <1>2, <1>3 DEF N
<1>5. m.a = k.a /\ m.d = k.d /\ k.d = 0
  BY <1>4 DEF Goes, StackOK, Stores
<1>6. /\ \A o \in m.hl : o \in k.hl
      /\ \A o \in m.de : o \in k.de
      /\ \A o \in m.top : FALSE
  BY <1>4, <1>5 DEF Goes, ValuesOK, Stores
<1>7. /\ x.op = "st" => x.n \in Slots
      /\ x.op = "sthl" => k.de # {}
      /\ x.op = "stde" => k.hl # {}
      /\ k.hl \subseteq Slots /\ k.de \subseteq Slots
  BY <1>4 DEF Goes, OperandOK, UseOK, Known
<1>8. Flat => Linked' /\ Knows(m)'
  <2> SUFFICES ASSUME Flat
               PROVE  Linked' /\ Knows(m)'
    OBVIOUS
  <2>1. Linked /\ Knows(k)
    BY <1>4
  <2>2. \E o \in Slots, y \in {hl, de} : mem' = Put(Base + o, y)
    <3>1. CASE x.op = "st"
      BY <1>1, <1>2, <1>3, <1>4, <1>7, <3>1
    <3>2. CASE x.op = "sthl"
      <4>1. PICK o \in k.de : de = Base + o
        BY <1>7, <2>1, <3>2 DEF Knows
      <4> QED
        BY <1>1, <1>3, <1>7, <3>2, <4>1
    <3>3. CASE x.op = "stde"
      <4>1. PICK o \in k.hl : hl = Base + o
        BY <1>7, <2>1, <3>3 DEF Knows
      <4> QED
        BY <1>1, <1>3, <1>7, <3>3, <4>1
    <3> QED
      BY <1>4, <3>1, <3>2, <3>3 DEF Stores
  <2>3. PICK o \in Slots, y \in {hl, de} : mem' = Put(Base + o, y)
    BY <2>2
  <2>4. /\ Base + o \in Words /\ o \in Int /\ Base \in Int
        /\ Base \in Words /\ Base + 2 \in Words
    BY FrameFacts
  <2>5. o < 0 \/ o >= 4
    BY DEF Slots
  <2>6. Base # Base + o /\ Base + 2 # Base + o
    BY <2>4, <2>5
  <2>7. \A a \in Words \ {Base + o} : mem'[a] = mem[a]
    BY <2>3, <2>4, PutFacts DEF Held
  <2>8. Linked'
    BY <2>1, <2>4, <2>6, <2>7 DEF Linked
  <2>9. Knows(m)'
    BY <1>1, <1>5, <1>6, <2>1 DEF Knows
  <2> QED
    BY <2>8, <2>9
<1>9. ix' = Base
  BY <1>1, <1>2
<1> QED
  BY <1>1, <1>2, <1>3, <1>8, <1>9, Onto

\* A push: of HL in the body, of the caller's IX at the entry.
LEMMA PushRuns ==
  ASSUME NEW K, NEW L, Held, Ready(K, L), Runs(K), Push
  PROVE  Runs(K)'
<1>0. /\ code[pc].op \in {"push", "pushix"} /\ pc' = pc + 1 /\ UNCHANGED <<code, ix, hl, de>>
      /\ sp' = A(sp - 2)
      /\ code[pc].op = "push" => mem' = Put(sp - 2, hl)
      /\ code[pc].op = "pushix" => mem' = Put(sp - 2, ix)
  BY DEF Push, Op, Onward, parser
<1>a. /\ Base \in Words /\ Base + 2 \in Words /\ Base \in Int
      /\ Stored(mem) /\ sp \in Words /\ hl \in Cells /\ ix \in Cells
  BY FrameFacts DEF Held
<1>b. CASE code[pc].op = "push"
  <2>1. /\ code[pc].op = "push" /\ pc' = pc + 1 /\ UNCHANGED <<code, ix, hl, de>>
        /\ sp' = A(sp - 2) /\ mem' = Put(sp - 2, hl)
    BY <1>0, <1>b
  <2>2. /\ pc \in 3..(Len(code) - 4) /\ ix = Base
        /\ Goes(code[pc], K[pc], K[pc + 1], L) /\ K[pc] \in Known /\ K[pc + 1] \in Known
        /\ Flat => Linked /\ Knows(K[pc])
    BY <2>1, InBody DEF BodyOps
  <2>3. PICK k, m, x : k = K[pc] /\ m = K[pc + 1] /\ x = code[pc]
    OBVIOUS
  <2>4. /\ Goes(x, k, m, L) /\ x.op = "push" /\ (Flat => Linked /\ Knows(k)) /\ k \in Known
    BY <2>1, <2>2, <2>3
  <2>5. m.a = k.a /\ m.d = 1 /\ k.d = 0
    BY <2>4 DEF Goes, StackOK, Stores, Control
  <2>6. /\ \A o \in m.hl : o \in k.hl
        /\ \A o \in m.de : o \in k.de
        /\ \A o \in m.top : o \in k.hl
    BY <2>4, <2>5 DEF Goes, ValuesOK
  <2>7. ASSUME Flat
        PROVE  Linked' /\ Knows(m)'
    <3>1. Linked /\ Knows(k)
      BY <2>4, <2>7
    <3>2. /\ sp - 2 \in Words /\ A(sp - 2) = sp - 2 /\ sp \in Int /\ sp - 2 < Base
          /\ k.a \in Bytes /\ sp = Base - k.a - 2 * k.d
      BY <2>4, <3>1, StackFacts
    <3>3. /\ mem'[sp - 2] = hl
          /\ \A a \in Words \ {sp - 2} : mem'[a] = mem[a]
      BY <1>a, <2>1, <3>2, PutFacts
    <3>4. Base # sp - 2 /\ Base + 2 # sp - 2
      BY <1>a, <3>2
    <3>5. Linked'
      BY <1>a, <3>1, <3>3, <3>4 DEF Linked
    <3>6. sp' = sp - 2
      BY <2>1, <3>2
    <3>7. sp' = Base - m.a - 2 * m.d
      BY <1>a, <2>5, <3>2, <3>6 DEF Bytes
    <3>8. \A o \in m.top : mem'[sp'] = Base + o
      BY <2>6, <3>1, <3>3, <3>6 DEF Knows
    <3>9. Knows(m)'
      BY <2>1, <2>6, <3>1, <3>7, <3>8 DEF Knows
    <3> QED
      BY <3>5, <3>9
  <2>8. ix' = Base
    BY <2>1, <2>2
  <2> QED
    BY <2>1, <2>2, <2>3, <2>7, <2>8, Onto
<1>c. CASE code[pc].op = "pushix"
  <2>1. pc = 1 /\ Len(code) \in Nat /\ Len(code) >= 7
    BY <1>c, Here, Places DEF Runs
  <2>2. sp = Base + 2 /\ ix = CallerIX /\ mem[Base + 2] = RetAddr
    BY <2>1 DEF Runs, Called
  <2>3. sp - 2 = Base /\ A(Base) = Base /\ Base + 2 # Base
    BY <1>a, <2>2, AFacts
  <2>4. mem'[Base] = ix /\ mem'[Base + 2] = mem[Base + 2]
    BY <1>0, <1>a, <1>c, <2>3, PutFacts
  <2>5. Linked' /\ sp' = Base /\ pc' = 2
    BY <1>0, <2>1, <2>2, <2>3, <2>4 DEF Linked
  <2>6. 2 \in 1..Len(code) /\ 2 # Len(code) /\ 2 # Len(code) - 1
    <3> DEFINE n == Len(code)
    <3>1. n \in Nat /\ n >= 7
      BY <2>1
    <3> HIDE DEF n
    <3>2. 2 \in 1..n /\ 2 # n /\ 2 # n - 1
      BY <3>1
    <3> QED
      BY <3>2 DEF n
  <2>7. Len(code') = Len(code)
    BY <1>0
  <2> QED
    BY <2>1, <2>5, <2>6, <2>7 DEF Runs
<1> QED
  BY <1>0, <1>b, <1>c

\* A pop: what was pushed in the body, the caller's IX at the end.
LEMMA PopRuns ==
  ASSUME NEW K, NEW L, Held, Ready(K, L), Runs(K), Pop
  PROVE  Runs(K)'
<1>0. /\ code[pc].op \in {"pop", "popde", "popix"} /\ pc' = pc + 1
      /\ UNCHANGED <<code, hl, mem>> /\ sp' = A(sp + 2)
      /\ de' = IF code[pc].op = "popde" THEN Cell(sp) ELSE de
      /\ ix' = IF code[pc].op = "popix" THEN Cell(sp) ELSE ix
  BY DEF Pop, Op, Onward, parser
<1>a. /\ Base \in Words /\ Base + 2 \in Words /\ Base \in Int
      /\ Stored(mem) /\ sp \in Words /\ Cell(sp) = mem[sp]
  BY FrameFacts, CellFacts DEF Held
<1>b. CASE code[pc].op \in {"pop", "popde"}
  <2>2. /\ pc \in 3..(Len(code) - 4) /\ ix = Base
        /\ Goes(code[pc], K[pc], K[pc + 1], L) /\ K[pc] \in Known /\ K[pc + 1] \in Known
        /\ Flat => Linked /\ Knows(K[pc])
    BY <1>b, InBody DEF BodyOps
  <2>3. PICK k, m, x : k = K[pc] /\ m = K[pc + 1] /\ x = code[pc]
    OBVIOUS
  <2>4. /\ Goes(x, k, m, L) /\ x.op \in {"pop", "popde"}
        /\ (Flat => Linked /\ Knows(k)) /\ k \in Known
    BY <1>b, <2>2, <2>3
  <2>5. m.a = k.a /\ m.d = 0 /\ k.d = 1
    BY <2>4 DEF Goes, StackOK, Stores, Control
  <2>6. /\ \A o \in m.hl : o \in k.hl
        /\ \A o \in m.de : IF x.op = "popde" THEN o \in k.top ELSE o \in k.de
        /\ \A o \in m.top : FALSE
    BY <2>4, <2>5 DEF Goes, ValuesOK
  <2>7. ASSUME Flat
        PROVE  Linked' /\ Knows(m)'
    <3>1. Linked /\ Knows(k)
      BY <2>4, <2>7
    <3>2. /\ sp + 2 \in Words /\ A(sp + 2) = sp + 2 /\ sp \in Int
          /\ k.a \in Bytes /\ sp = Base - k.a - 2 * k.d
      BY <2>4, <2>5, <3>1, StackFacts
    <3>3. Linked'
      BY <1>0, <3>1 DEF Linked
    <3>4. sp' = Base - m.a - 2 * m.d
      BY <1>0, <1>a, <2>5, <3>2 DEF Bytes
    <3>5. \A o \in m.de : de' = Base + o
      BY <1>0, <1>a, <2>3, <2>6, <3>1 DEF Knows
    <3>6. \A o \in m.hl : hl' = Base + o
      BY <1>0, <2>6, <3>1 DEF Knows
    <3>7. Knows(m)'
      BY <2>6, <3>4, <3>5, <3>6 DEF Knows
    <3> QED
      BY <3>3, <3>7
  <2>8. ix' = Base /\ code' = code
    BY <1>0, <1>b, <2>2
  <2> QED
    BY <1>0, <2>2, <2>3, <2>7, <2>8, Onto
<1>c. CASE code[pc].op = "popix"
  <2>1. pc = Len(code) - 1 /\ Len(code) \in Nat /\ Len(code) >= 7
    BY <1>c, Here, Places DEF Runs
  <2>2. sp = Base /\ (Flat => Linked)
    BY <2>1 DEF Runs
  <2>3. A(Base + 2) = Base + 2
    BY <1>a, AFacts
  <2>4. Flat => Called'
    BY <1>0, <1>a, <1>c, <2>2, <2>3 DEF Linked, Called
  <2>5. pc' = Len(code) /\ Len(code') = Len(code)
    BY <1>0, <2>1
  <2> HIDE DEF Called
  <2>6. /\ pc' \in 1..Len(code') /\ pc' # 1 /\ pc' # 2 /\ pc' \notin 3..(Len(code') - 1)
        /\ pc' # Len(code') - 1 /\ pc' \notin 3..(Len(code') - 4)
    BY <2>1, <2>5
  <2> QED
    BY <2>4, <2>6 DEF Runs, Flat
<1> QED
  BY <1>0, <1>b, <1>c

\* A local is made: HL holds its address, which nothing relies on.
LEMMA AllocRuns ==
  ASSUME NEW K, NEW L, Held, Ready(K, L), Runs(K), Alloc
  PROVE  Runs(K)'
<1>1. /\ code[pc].op = "alloc" /\ pc' = pc + 1 /\ UNCHANGED <<code, ix, de, mem>>
      /\ sp' = A(sp - N)
  BY DEF Alloc, Op, Onward, parser
<1>2. /\ pc \in 3..(Len(code) - 4) /\ ix = Base
      /\ Goes(code[pc], K[pc], K[pc + 1], L) /\ K[pc] \in Known /\ K[pc + 1] \in Known
      /\ Flat => Linked /\ Knows(K[pc])
  BY <1>1, InBody DEF BodyOps
<1>3. PICK k, m, x : k = K[pc] /\ m = K[pc + 1] /\ x = code[pc]
  OBVIOUS
<1>4. /\ Goes(x, k, m, L) /\ x.op = "alloc" /\ (Flat => Linked /\ Knows(k))
      /\ N = x.n /\ k \in Known
  BY <1>1, <1>2, <1>3 DEF N
<1>5. m.a = k.a + 2 /\ m.d = k.d /\ k.d = 0 /\ N = 2
  BY <1>4 DEF Goes, StackOK, OperandOK
<1>6. /\ \A o \in m.hl : FALSE
      /\ \A o \in m.de : o \in k.de
      /\ \A o \in m.top : FALSE
  BY <1>4, <1>5 DEF Goes, ValuesOK
<1>7. ASSUME Flat
      PROVE  Linked' /\ Knows(m)'
  <2>1. Linked /\ Knows(k)
    BY <1>4, <1>7
  <2>2. /\ A(sp - 2) = sp - 2 /\ sp \in Int /\ Base \in Int
        /\ k.a \in Bytes /\ sp = Base - k.a - 2 * k.d
    BY <1>4, <2>1, StackFacts, FrameFacts
  <2>3. Linked'
    BY <1>1, <2>1 DEF Linked
  <2>4. sp' = sp - 2
    BY <1>1, <1>5, <2>2
  <2>5. sp' = Base - m.a - 2 * m.d
    BY <1>5, <2>2, <2>4 DEF Bytes
  <2>6. Knows(m)'
    BY <1>1, <1>6, <2>1, <2>5 DEF Knows
  <2> QED
    BY <2>3, <2>6
<1>8. ix' = Base
  BY <1>1, <1>2
<1> QED
  BY <1>1, <1>2, <1>3, <1>7, <1>8, Onto

\* The frame is linked at the entry, and the locals are given back at the exit.
LEMMA LinkRuns ==
  ASSUME NEW K, NEW L, Held, Ready(K, L), Runs(K), LinkFrame
  PROVE  Runs(K)'
<1>1. /\ code[pc].op \in {"ldix", "ldsp"} /\ pc' = pc + 1 /\ UNCHANGED <<code, hl, de, mem>>
      /\ ix' = IF code[pc].op = "ldix" THEN sp ELSE ix
      /\ sp' = IF code[pc].op = "ldsp" THEN ix ELSE sp
  BY DEF LinkFrame, Op, Onward, parser
<1> DEFINE n == Len(code)
<1>2. n \in Nat /\ n >= 7 /\ Len(code') = n /\ K[3] = Rest(0)
  <2>1. n \in Nat /\ n >= 7 /\ K[3] = Rest(0)
    BY Places
  <2> QED
    BY <1>1, <2>1
<1>3. CASE code[pc].op = "ldix"
  <2>1. pc = 2
    BY <1>3, Here DEF Runs
  <2>2. sp = Base /\ Linked
    BY <2>1 DEF Runs
  <2>3. ix' = Base /\ sp' = Base /\ Linked' /\ pc' = 3
    BY <1>1, <1>3, <2>1, <2>2 DEF Linked
  <2>4. Knows(Rest(0))'
    <3>1. sp' = Base - 0 - 2 * 0
      BY <2>3, FrameFacts
    <3> QED
      BY <3>1 DEF Knows, Rest
  <2>5. Knows(K[pc])'
    <3>1. K[pc'] = Rest(0)
      BY <1>2, <2>3
    <3> QED
      BY <2>4, <3>1 DEF Knows
  <2> HIDE DEF n
  <2>6. 3 \in 1..n /\ 3 \in 3..(n - 1) /\ 3 # n /\ 3 # n - 1
    BY <1>2
  <2> QED
    BY <1>2, <2>3, <2>5, <2>6 DEF Runs, n
<1>4. CASE code[pc].op = "ldsp"
  <2>1. pc = n - 2
    BY <1>4, Here DEF Runs
  <2> HIDE DEF n
  <2>2. pc \in 3..(n - 1)
    BY <1>2, <2>1
  <2>3. ix = Base /\ (Flat => Linked)
    BY <2>2 DEF Runs, n
  <2>4. ix' = Base /\ sp' = Base /\ pc' = n - 1 /\ (Flat => Linked')
    BY <1>1, <1>2, <1>4, <2>1, <2>3 DEF Linked
  <2>5. /\ n - 1 \in 1..n /\ n - 1 # 1 /\ n - 1 # 2 /\ n - 1 \notin 3..(n - 4)
        /\ n - 1 # n
    BY <1>2
  <2> QED
    BY <1>2, <2>4, <2>5 DEF Runs, Flat, n
<1> QED
  BY <1>1, <1>3, <1>4

\* The callee may use what is below its return address, its argument and the registers.
LEMMA CallRuns ==
  ASSUME NEW K, NEW L, Held, Ready(K, L), Runs(K), CallOut
  PROVE  Runs(K)'
<1>1. /\ code[pc].op = "call" /\ pc' = pc + 1 /\ UNCHANGED <<code, sp, ix>>
      /\ mem' = [a \in DOMAIN mem |-> IF a <= sp THEN Junk ELSE mem[a]]
  BY DEF CallOut, Op, Onward, parser
<1>2. /\ pc \in 3..(Len(code) - 4) /\ ix = Base
      /\ Goes(code[pc], K[pc], K[pc + 1], L) /\ K[pc] \in Known /\ K[pc + 1] \in Known
      /\ Flat => Linked /\ Knows(K[pc])
  BY <1>1, InBody DEF BodyOps
<1>3. PICK k, m, x : k = K[pc] /\ m = K[pc + 1] /\ x = code[pc]
  OBVIOUS
<1>4. /\ Goes(x, k, m, L) /\ x.op = "call" /\ (Flat => Linked /\ Knows(k)) /\ k \in Known
  BY <1>1, <1>2, <1>3
<1>5. m.a = k.a /\ m.d = k.d /\ k.d = 1
  BY <1>4 DEF Goes, StackOK
<1>6. (\A o \in m.hl : FALSE) /\ (\A o \in m.de : FALSE) /\ (\A o \in m.top : FALSE)
  BY <1>4 DEF Goes, ValuesOK
<1>7. ASSUME Flat
      PROVE  Linked' /\ Knows(m)'
  <2>1. Linked /\ Knows(k)
    BY <1>4, <1>7
  <2>2. sp \in Int /\ sp < Base /\ Base \in Int /\ Base < Base + 2
    BY <1>4, <1>5, <2>1, StackFacts, FrameFacts
  <2>3. DOMAIN mem = Words /\ Base \in Words /\ Base + 2 \in Words
    BY FrameFacts DEF Held, Stored
  <2>4. ~(Base <= sp) /\ ~(Base + 2 <= sp)
    BY <2>2
  <2>5. Linked'
    BY <1>1, <2>1, <2>3, <2>4 DEF Linked
  <2>6. Knows(m)'
    BY <1>1, <1>5, <1>6, <2>1 DEF Knows
  <2> QED
    BY <2>5, <2>6
<1>8. ix' = Base
  BY <1>1, <1>2
<1> QED
  BY <1>1, <1>2, <1>3, <1>7, <1>8, Onto

\* A label, a test that does not jump, an instruction that stands for others.
LEMMA NoJumpRuns ==
  ASSUME NEW K, NEW L, Held, Ready(K, L), Runs(K), NoJump
  PROVE  Runs(K)'
<1>1. /\ code[pc].op \in Control \cup {"mark"} /\ pc' = pc + 1
      /\ UNCHANGED <<code, sp, ix, hl, de, mem>>
  BY DEF NoJump, Op, Onward, parser, Control
<1> DEFINE n == Len(code)
<1>2. n \in Nat /\ n >= 7 /\ Len(code') = n /\ pc \in 1..n
  <2>1. n \in Nat /\ n >= 7 /\ pc \in 1..n
    BY Places DEF Runs
  <2> QED
    BY <1>1, <2>1
<1>3. code[pc].op \in BodyOps
  BY <1>1 DEF BodyOps
<1>4. pc \in 3..(n - 4) \/ pc = n - 3
  BY <1>2, <1>3, Here
<1> HIDE DEF n
<1>5. pc \in 3..(n - 1)
  BY <1>2, <1>4
<1>6. ix = Base /\ (Flat => Linked)
  BY <1>5 DEF Runs, n
<1>7. CASE pc \in 3..(n - 4)
  <2>1. /\ Goes(code[pc], K[pc], K[pc + 1], L) /\ K[pc] \in Known
        /\ Flat => Knows(K[pc])
    BY <1>7, Places DEF Runs, n
  <2>2. PICK k, m, x : k = K[pc] /\ m = K[pc + 1] /\ x = code[pc]
    OBVIOUS
  <2>3. Goes(x, k, m, L) /\ x.op \in Control \cup {"mark"} /\ (Flat => Knows(k))
    BY <1>1, <2>1, <2>2
  <2>4. m.a = k.a /\ m.d = k.d
    BY <2>3 DEF Goes, StackOK, Control
  <2>5. /\ \A o \in m.hl : o \in k.hl
        /\ \A o \in m.de : o \in k.de
        /\ \A o \in m.top : o \in k.top
    BY <2>3 DEF Goes, ValuesOK, Control
  <2>6. Flat => Linked' /\ Knows(m)'
    BY <1>1, <1>6, <2>3, <2>4, <2>5 DEF Knows, Linked
  <2>7. ix' = Base /\ code' = code /\ pc' = pc + 1
    BY <1>1, <1>6
  <2> QED
    BY <1>7, <2>2, <2>6, <2>7, Onto DEF n
<1>8. CASE pc = n - 3
  <2>1. pc' = n - 2 /\ ix' = Base /\ (Flat => Linked')
    BY <1>1, <1>2, <1>6, <1>8 DEF Linked
  <2>2. /\ n - 2 \in 1..n /\ n - 2 # 1 /\ n - 2 # 2 /\ n - 2 \notin 3..(n - 4)
        /\ n - 2 # n /\ n - 2 # n - 1
    BY <1>2
  <2> QED
    BY <1>2, <2>1, <2>2 DEF Runs, Flat, n
<1> QED
  BY <1>4, <1>7, <1>8

\* A jump goes to the exit, or to a label where as many locals are known.
LEMMA JumpRuns ==
  ASSUME NEW K, NEW L, Held, Ready(K, L), Runs(K), Jump
  PROVE  Runs(K)'
<1>1. /\ code[pc].op \in {"jp", "jz"} /\ pc' = Target(N)
      /\ \E i \in DOMAIN code : code[i].op = "label" /\ code[i].n = N
      /\ UNCHANGED <<code, sp, ix, hl, de, mem>>
  BY DEF Jump, Op, parser
<1>2. PICK j \in DOMAIN code : j = pc' /\ code[j].op = "label" /\ code[j].n = N
  BY <1>1 DEF Target
<1> DEFINE n == Len(code)
<1>3. n \in Nat /\ n >= 7 /\ Len(code') = n /\ j \in 1..n
  <2>1. n \in Nat /\ n >= 7 /\ DOMAIN code = 1..n
    BY Places
  <2> QED
    BY <1>1, <1>2, <2>1
<1>4. j \in 3..(n - 4) \/ j = n - 3
  <2>1. /\ code[1].op = "pushix" /\ code[2].op = "ldix"
        /\ code[n - 2].op = "ldsp" /\ code[n - 1].op = "popix" /\ code[n].op = "ret"
    BY Places
  <2> HIDE DEF n
  <2>2. j # 1 /\ j # 2 /\ j # n - 2 /\ j # n - 1 /\ j # n
    BY <1>2, <2>1
  <2> QED
    BY <1>3, <2>2
<1>5. /\ pc \in 3..(n - 4) /\ ix = Base
      /\ Goes(code[pc], K[pc], K[pc + 1], L) /\ K[pc] \in Known
      /\ Flat => Linked /\ Knows(K[pc])
  BY <1>1, InBody DEF BodyOps, Control
<1> HIDE DEF n
<1>6. /\ pc' \in 1..n /\ pc' # 1 /\ pc' # 2 /\ pc' # n /\ pc' # n - 1
      /\ ix' = Base /\ (Flat => Linked')
  <2>1. j \in 1..n /\ j # 1 /\ j # 2 /\ j # n /\ j # n - 1
    BY <1>3, <1>4
  <2> QED
    BY <1>1, <1>2, <1>5, <2>1 DEF Linked
<1>7. ASSUME Flat, j \in 3..(n - 4)
      PROVE  Knows(K[pc])'
  <2>1. Goes(code[j], K[j], K[j + 1], L)
    BY <1>7, Places DEF n
  <2>2. PICK k, m, x, y : k = K[pc] /\ m = K[j] /\ x = code[pc] /\ y = code[j]
    OBVIOUS
  <2>3. PICK kn, mn : kn = K[pc + 1] /\ mn = K[j + 1]
    OBVIOUS
  <2>4. /\ Goes(x, k, kn, L) /\ Goes(y, m, mn, L) /\ Knows(k) /\ k \in Known
        /\ x.op \in {"jp", "jz"} /\ y.op = "label" /\ y.n = x.n
    BY <1>1, <1>2, <1>5, <1>7, <2>1, <2>2, <2>3 DEF N
  <2>5. y.n # ExitLabel
    BY <2>4 DEF Goes, OperandOK
  <2>6. m = Rest(m.a) /\ L[y.n] = m.a
    BY <1>7, <2>4, <2>5 DEF Goes, UseOK, Control
  <2>7. L[x.n] = k.a /\ k.d = 0
    BY <1>7, <2>4, <2>5 DEF Goes, UseOK, StackOK, Control
  <2>8. m = Rest(k.a)
    BY <2>4, <2>6, <2>7
  <2>9. Knows(m)'
    BY <1>1, <2>4, <2>7, <2>8 DEF Knows, Rest
  <2>10. K[pc'] = m
    BY <1>2, <2>2
  <2> QED
    BY <2>9, <2>10 DEF Knows
<1>8. j = n - 3 => pc' \notin 3..(n - 4)
  BY <1>2, <1>3
<1> QED
  BY <1>2, <1>3, <1>4, <1>6, <1>7, <1>8 DEF Runs, Flat, n

\* The return finds the caller's address on the stack.
LEMMA ReturnRuns ==
  ASSUME NEW K, NEW L, Held, Ready(K, L), Runs(K), BackToCaller
  PROVE  /\ phase' = "stop" /\ pc' \in Cells
         /\ Flat => ReturnsToCaller'
<1>1. /\ code[pc].op = "ret" /\ phase' = "stop" /\ pc' = Cell(sp) /\ sp' = A(sp + 2)
      /\ UNCHANGED ix
  BY DEF BackToCaller, Op
<1>2. Cell(sp) \in Cells /\ (sp \in Words => Cell(sp) = mem[sp])
  BY CellFacts DEF Held
<1>3. ASSUME Flat
      PROVE  ReturnsToCaller'
  <2>1. pc = Len(code)
    BY <1>1, Here DEF Runs
  <2>2. Called
    BY <1>3, <2>1 DEF Runs
  <2>3. /\ Base + 2 \in Words /\ Base + 4 \in Words /\ Base \in Int
    BY FrameFacts
  <2>4. sp + 2 = Base + 4 /\ A(Base + 4) = Base + 4
    BY <2>2, <2>3, AFacts DEF Called
  <2> QED
    BY <1>1, <1>2, <2>2, <2>3, <2>4 DEF Called, ReturnsToCaller
<1> QED
  BY <1>1, <1>2, <1>3

-----------------------------------------------------------------------------
(* The specification *)

\* Of the parser, what remains true when it has ended.
Settled ==
  /\ mode \in {"stmt", "end"} /\ off \in Int /\ off <= 0 /\ off % 2 = 0
  /\ \A i \in DOMAIN ctl : ctl[i].k \in Kinds

FrameInv ==
  /\ LInv /\ Held /\ Settled
  /\ \/ phase = "read" /\ ReadInv /\ Called /\ pc = 1
     \/ phase = "run" /\ \E K, L : Ready(K, L) /\ Runs(K)
     \/ phase = "stop" /\ pc \in Cells /\ (Flat => ReturnsToCaller)

\* While the parser reads, offsets and open statements are in order.
LEMMA ReadSettled ==
  ASSUME ReadInv
  PROVE  Settled /\ 1 \in DOMAIN code
<1>1. off <= 0
  <2>1. off \in Int /\ -off \in Bytes
    BY DEF ReadInv
  <2>2. \A x \in Int : -x >= 0 => x <= 0
    OBVIOUS
  <2>3. -off >= 0
    BY <2>1 DEF Bytes
  <2> QED
    BY <2>1, <2>2, <2>3
<1>2. PICK L : FlowTo(code, L, Rest(-off)) /\ OpenAt(ctl, L, -off)
  BY DEF ReadInv, Parsed
<1>3. \A i \in DOMAIN ctl : ctl[i].k \in Kinds
  BY <1>2 DEF OpenAt
<1>4. 1 \in DOMAIN code
  <2>1. IsSeq(code) /\ Len(code) \in 3..Len(code)
    BY <1>2 DEF FlowTo, Body
  <2>2. Len(code) \in Nat /\ DOMAIN code = 1..Len(code)
    BY <2>1, SeqFacts
  <2> QED
    BY <2>1, <2>2
<1> QED
  BY <1>1, <1>3, <1>4 DEF ReadInv, Settled

\* The initial states.
LEMMA InitFrameInv == Init => FrameInv
<1> SUFFICES ASSUME Init
             PROVE  FrameInv
  OBVIOUS
<1>1. LInv
  BY InitLInv
<1>2. ReadInv /\ phase = "read"
  BY InitReads
<1>3. Held /\ Called /\ pc = 1
  BY InitCalled
<1>4. Settled
  BY <1>2, ReadSettled
<1> QED
  BY <1>1, <1>2, <1>3, <1>4 DEF FrameInv

\* A step of the parser.
LEMMA CompileKeeps ==
  ASSUME FrameInv, Compile
  PROVE  FrameInv'
<1>1. phase = "read" /\ UNCHANGED machine
  BY DEF Compile, Declare, SimpleStatement, Statement, OpenBlock, CloseBlock, CloseBody,
         While, EndWhile, If, EndThenElse, EndThen, EndElse, Reading
<1>2. ReadInv /\ Called /\ pc = 1 /\ Held /\ LInv
  BY <1>1 DEF FrameInv
<1>3. LInv'
  BY <1>2, NextLInv DEF Next
<1>4. Called' /\ pc' = 1
  BY <1>1, <1>2 DEF machine, Called
<1>5. Held'
  BY <1>1, <1>2 DEF machine, Held, Stored
<1>6. CASE ~CloseBody
  <2>1. ReadInv'
    BY <1>2, <1>3, <1>6, DeclareKeeps, SimpleStatementKeeps, OpenBlockKeeps, CloseBlockKeeps,
       WhileKeeps, EndWhileKeeps, IfKeeps, EndThenElseKeeps, EndThenKeeps, EndElseKeeps
       DEF Compile
  <2>2. phase' = "read"
    BY <2>1 DEF ReadInv
  <2>3. Settled'
    BY <2>1, ReadSettled, PTL
  <2> QED
    BY <1>3, <1>4, <1>5, <2>1, <2>2, <2>3 DEF FrameInv
<1>7. CASE CloseBody
  <2>1. PICK K, L : Ready(K, L)'
    BY <1>2, <1>7, CloseBodyReady
  <2>2. phase' = "run" /\ mode' = mode /\ off' = off /\ ctl' = Below
    BY <1>7 DEF CloseBody
  <2>3. Settled'
    <3>1. Settled
      BY <1>2, ReadSettled
    <3>2. ctl' = <<>>
      BY <1>3, <2>2 DEF LInv
    <3>3. DOMAIN ctl' = {}
      BY <3>2
    <3> QED
      BY <2>2, <3>1, <3>3 DEF Settled
  <2>4. Runs(K)'
    <3> DEFINE n == Len(code')
    <3>1. n \in Nat /\ n - 4 \in 3..n
      <4>1. Body(K, L, code', n - 4)
        BY <2>1 DEF Ready
      <4>2. IsSeq(code') /\ n - 4 \in 3..n
        BY <4>1 DEF Body
      <4> HIDE DEF n
      <4>3. n \in Nat
        BY <4>2, SeqFacts DEF n
      <4> QED
        BY <4>2, <4>3
    <3> HIDE DEF n
    <3>2. 1 \in 1..n /\ 1 \notin 3..(n - 1) /\ 1 # n - 1 /\ 1 # n /\ 1 # 2 /\ 1 \notin 3..(n - 4)
      BY <3>1
    <3> QED
      BY <1>4, <3>2 DEF Runs, Called, n
  <2> QED
    BY <1>3, <1>5, <2>1, <2>2, <2>3, <2>4 DEF FrameInv
<1> QED
  BY <1>6, <1>7

\* A step of the machine.
LEMMA RunKeeps ==
  ASSUME FrameInv, Run
  PROVE  FrameInv'
<1>1. phase = "run" /\ UNCHANGED parser
  BY DEF Run, LoadHL, LoadAddress, StoreWord, Push, Pop, Alloc, LinkFrame, CallOut,
         Jump, NoJump, BackToCaller, Op
<1>2. PICK K, L : Ready(K, L) /\ Runs(K)
  BY <1>1 DEF FrameInv
<1>3. Held /\ LInv /\ Settled
  BY DEF FrameInv
<1>4. Held'
  BY <1>2, <1>3, RunHeld
<1>5. LInv'
  BY <1>3, NextLInv DEF Next
<1>6. Settled'
  BY <1>1, <1>3 DEF parser, Settled
<1>7. CASE BackToCaller
  BY <1>2, <1>3, <1>4, <1>5, <1>6, <1>7, ReturnRuns DEF FrameInv, Flat
<1>8. CASE ~BackToCaller
  <2>1. phase' = phase
    BY <1>8 DEF Run, LoadHL, LoadAddress, StoreWord, Push, Pop, Alloc, LinkFrame, CallOut,
                Jump, NoJump
  <2>2. Runs(K)'
    BY <1>2, <1>3, <1>8, LoadRuns, LeaRuns, StoreRuns, PushRuns, PopRuns, AllocRuns,
       LinkRuns, CallRuns, JumpRuns, NoJumpRuns DEF Run
  <2>3. Ready(K, L)'
    BY <1>1, <1>2 DEF parser, Ready, LinkedIn, Body
  <2> QED
    BY <1>1, <1>4, <1>5, <1>6, <2>1, <2>2, <2>3 DEF FrameInv
<1> QED
  BY <1>7, <1>8

\* A step that changes nothing.
LEMMA StutterKeeps ==
  ASSUME FrameInv, UNCHANGED vars
  PROVE  FrameInv'
<1>1. UNCHANGED <<parser, phase, machine>>
  BY DEF vars
<1>2. UNCHANGED <<pc, sp, ix, hl, de, mem>>
  BY <1>1 DEF machine
<1>3. UNCHANGED <<prog, code, ctl, mode, label, off, scopes>>
  BY <1>1 DEF parser
<1>4. LInv' /\ Held' /\ Settled'
  <2>1. LInv /\ Held /\ Settled
    BY DEF FrameInv
  <2>2. LInv'
    BY <2>1, NextLInv
  <2>3. Held'
    BY <1>2, <2>1 DEF Held, Stored
  <2>4. Settled'
    BY <1>3, <2>1 DEF Settled
  <2> QED
    BY <2>2, <2>3, <2>4
<1>5. CASE phase = "read"
  <2>1. ReadInv /\ Called /\ pc = 1
    BY <1>5 DEF FrameInv
  <2>2. Called' /\ pc' = 1 /\ phase' = "read"
    BY <1>1, <1>2, <1>5, <2>1 DEF Called
  <2>3. ReadInv'
    <3>1. PICK L \in [Nat -> Int] : Parsed(L)
      BY <2>1 DEF ReadInv
    <3>2. Parsed(L)'
      BY <1>3, <3>1 DEF Parsed
    <3>3. Started' = Started
      BY <1>3 DEF Started
    <3>4. ScopesAt(scopes', off')
      BY <1>3, <2>1 DEF ReadInv
    <3>5. /\ IsSeq(prog') /\ off' \in Int /\ off' % 2 = 0 /\ -off' \in Bytes
          /\ mode' \in {"stmt", "end"}
      BY <1>3, <2>1 DEF ReadInv
    <3>6. 2 - off' <= 2 * Cardinality(Started')
      BY <1>3, <2>1, <3>3 DEF ReadInv
    <3> QED
      BY <1>4, <2>2, <3>2, <3>4, <3>5, <3>6 DEF ReadInv, ScopesAt, Bytes
  <2> QED
    BY <1>4, <2>2, <2>3 DEF FrameInv
<1>6. CASE phase = "run"
  <2>1. PICK K, L : Ready(K, L) /\ Runs(K)
    BY <1>6 DEF FrameInv
  <2>2. Ready(K, L)'
    BY <1>3, <2>1 DEF Ready, LinkedIn, Body
  <2>3. Runs(K)'
    BY <1>2, <1>3, <2>1 DEF Runs, Called, Linked, Knows
  <2> QED
    BY <1>1, <1>4, <1>6, <2>2, <2>3 DEF FrameInv
<1>7. CASE phase = "stop"
  <2>1. pc' \in Cells /\ phase' = "stop" /\ (Flat => ReturnsToCaller')
    BY <1>1, <1>2, <1>7 DEF FrameInv, ReturnsToCaller
  <2> QED
    BY <1>4, <2>1 DEF FrameInv, Flat
<1> QED
  BY <1>5, <1>6, <1>7 DEF FrameInv

\* Every step.
LEMMA NextFrameInv == FrameInv /\ [Next]_vars => FrameInv'
<1> SUFFICES ASSUME FrameInv, [Next]_vars
             PROVE  FrameInv'
  OBVIOUS
<1> QED
  BY CompileKeeps, RunKeeps, StutterKeeps DEF Next, Done

\* The parser and the machine keep their types, whatever the body: the stack
\* pointer stays an address, registers and memory hold values, frame offsets
\* are even and the open statements have their shape.
THEOREM TypeCorrect == Spec => []TypeOK
<1>1. FrameInv => TypeOK
  <2> SUFFICES ASSUME FrameInv
               PROVE  TypeOK
    OBVIOUS
  <2>1. pc \in DOMAIN code \cup Cells
    <3>1. CASE phase = "read"
      BY <3>1, ReadSettled DEF FrameInv
    <3>2. CASE phase = "run"
      <4>1. PICK K, L : Ready(K, L) /\ Runs(K)
        BY <3>2 DEF FrameInv
      <4> QED
        BY <4>1, Places DEF Runs
    <3>3. CASE phase = "stop"
      BY <3>3 DEF FrameInv
    <3> QED
      BY <3>1, <3>2, <3>3 DEF FrameInv
  <2>2. phase \in {"read", "run", "stop"}
    BY DEF FrameInv
  <2>3. label \in Nat \ {0}
    BY DEF FrameInv, LInv
  <2>4. /\ mode \in {"stmt", "end"} /\ off <= 0 /\ off % 2 = 0
        /\ \A i \in DOMAIN ctl : ctl[i].k \in {"block", "while", "then", "else"}
    BY DEF FrameInv, Settled, Kinds
  <2>5. /\ DOMAIN mem = Words /\ \A a \in Words : mem[a] \in Cells
        /\ sp \in Words /\ ix \in Cells /\ hl \in Cells /\ de \in Cells
    BY DEF FrameInv, Held, Stored
  <2> QED
    BY <2>1, <2>2, <2>3, <2>4, <2>5 DEF TypeOK
<1> QED
  BY <1>1, InitFrameInv, NextFrameInv, PTL DEF Spec

\* In a function that names no global and declares nothing inside an if or a
\* while, no local in scope is below SP when an instruction of it runs: what a
\* push or a callee writes is nobody's variable.
THEOREM LocalsStayAboveSP ==
  ASSUME Globals = {}, Conditional = FALSE
  PROVE  Spec => []LocalsAboveSP
<1>1. Flat
  BY DEF Flat
<1>2. FrameInv => LocalsAboveSP
  <2> SUFFICES ASSUME FrameInv, phase = "run", NEW o \in SlotsIn(Where.in)
               PROVE  Base + o >= sp
    BY DEF LocalsAboveSP
  <2>1. PICK K, L : Ready(K, L) /\ Runs(K)
    BY DEF FrameInv
  <2>2. Where = code[pc]
    BY DEF Where
  <2>3. pc \in 1..Len(code)
    BY <2>1 DEF Runs
  <2>4. pc \in 3..(Len(code) - 4)
    BY <2>1, <2>2, <2>3, Places
  <2>5. K[pc] \in Known /\ o \in Int /\ o >= -K[pc].a
    BY <2>1, <2>2, <2>4, Places
  <2>6. Knows(K[pc])
    BY <1>1, <2>1, <2>4 DEF Runs
  <2>7. PICK k : k = K[pc]
    OBVIOUS
  <2>8. k \in Known /\ o \in Int /\ o >= -k.a /\ sp = Base - k.a - 2 * k.d
    BY <2>5, <2>6, <2>7 DEF Knows
  <2>9. k.a \in Int /\ k.d \in {0, 1} /\ Base \in Int
    BY <2>8, FrameFacts DEF Known
  <2> QED
    BY <2>8, <2>9
<1> QED
  BY <1>2, InitFrameInv, NextFrameInv, PTL DEF Spec

\* Such a function comes back to its caller: to the address the caller has
\* pushed, with the caller's IX, and with nothing left on the stack.
THEOREM ComesBack ==
  ASSUME Globals = {}, Conditional = FALSE
  PROVE  Spec => []ReturnsToCaller
<1>1. Flat
  BY DEF Flat
<1>2. FrameInv => ReturnsToCaller
  BY <1>1 DEF FrameInv, ReturnsToCaller
<1> QED
  BY <1>2, InitFrameInv, NextFrameInv, PTL DEF Spec

-----------------------------------------------------------------------------
(***************************************************************************)
(* What the code of a body means.  To every instruction belongs what HL,   *)
(* DE and the pushed word hold in C's terms, the address of a slot or the  *)
(* value of a name, and the last instruction of an item is the store,      *)
(* test, call or mark by which it does what C does.                        *)
(***************************************************************************)

\* What a register or the pushed word is known to be.
Nothing == [is |-> "nothing", of |-> 0]
Address(o) == [is |-> "address", of |-> o]
ValueOf(e) == [is |-> "value", of |-> e]
Told(h, d, t) == [hl |-> h, de |-> d, top |-> t]
Idle == Told(Nothing, Nothing, Nothing)

\* Name e has the offset o in the scopes s.
Names(s, e, o) == e \notin DOMAIN Lits /\ Visible(s, e) /\ OffsetOf(s, e) = o

\* What instruction x leaves known in HL, DE and the pushed word.
HLKnown(x, s, k, m) ==
  \/ m.hl = Nothing
  \/ x.op = "lea" /\ m.hl = Address(x.n)
  \/ x.op = "imm" /\ \E e \in DOMAIN Lits : x.n = Lits[e] /\ m.hl = ValueOf(e)
  \/ x.op = "ld" /\ \E e : Names(s, e, x.n) /\ m.hl = ValueOf(e)
  \/ x.op = "ldind" /\ \E e, o : Names(s, e, o) /\ k.hl = Address(o) /\ m.hl = ValueOf(e)
  \/ x.op \in {"push", "popde"} /\ m.hl = k.hl
DEKnown(x, k, m) ==
  \/ m.de = Nothing
  \/ x.op = "popde" /\ m.de = k.top
  \/ x.op \in Loads /\ m.de = k.de
TopKnown(x, k, m) ==
  \/ m.top = Nothing
  \/ x.op = "push" /\ m.top = k.hl
  \/ x.op \in Loads \cup {"lea"} /\ m.top = k.top

\* Instruction x with the scopes s takes what is known from k to m, and
\* neither stores to a variable nor goes to another item.
Silent == Loads \cup {"lea", "push", "pop", "popde", "alloc", "label",
                      "pushix", "ldix", "ldsp", "popix", "ret"}
Goes1(x, s, k, m) ==
  /\ x.op \in Silent
  /\ HLKnown(x, s, k, m) /\ DEKnown(x, k, m) /\ TopKnown(x, k, m)

\* Instruction x stores the value of e at the offset o.
StoresTo(x, k, o, e) ==
  \/ x.op = "st" /\ x.n = o /\ k.hl = ValueOf(e)
  \/ x.op = "sthl" /\ k.de = Address(o) /\ k.hl = ValueOf(e)
  \/ x.op = "stde" /\ k.hl = Address(o) /\ k.de = ValueOf(e)

\* Instruction x is the last of the item it with the scopes s; r are those of the next.
Completes(it, x, s, k, r) ==
  \/ /\ it.k = "decl"
     /\ \E o \in Slots : /\ r = Bind(s, it.v, o)
                         /\ IF it.e = "none" THEN x.op = "alloc" ELSE StoresTo(x, k, o, it.e)
  \/ /\ it.k = "set" /\ r = s /\ Visible(s, it.v)
     /\ StoresTo(x, k, OffsetOf(s, it.v), it.e)
  \/ it.k = "call" /\ r = s /\ x.op = "call" /\ k.top = ValueOf(it.v)
  \/ it.k \in {"if", "while"} /\ r = s /\ x.op = "jz" /\ k.hl = ValueOf(it.v)
  \/ it.k = "empty" /\ r = s /\ x.op = "mark"
  \/ it.k = "{" /\ r = Append(s, <<>>) /\ x.op = "mark"
  \/ it.k = "}" /\ r = SubSeq(s, 1, Len(s) - 1) /\ x.op = "mark"
  \/ it.k = "fi" /\ r = s /\ x.op = "label"
\* what a jump takes to the exit
Leaves(it, k) == it.k = "ret" => it.e = "none" \/ k.hl = ValueOf(it.e)

\* From instruction x of the program p to a place y.
Link(p, x, k, y, m) ==
  \/ y.at = x.at /\ y.in = x.in /\ Goes1(x, x.in, k, m)
  \/ /\ x.at \in DOMAIN p /\ m = Idle
     /\ y.at = x.at + 1 /\ Completes(p[x.at], x, x.in, k, y.in)
  \/ x.at \in DOMAIN p /\ m = Idle /\ x.op = "jp" /\ Leaves(p[x.at], k)

\* The scopes of a place: globals and parameters below the others, and no two
\* variables in one slot.
Apart(s) ==
  \A i, j \in DOMAIN s : \A v \in DOMAIN s[i], w \in DOMAIN s[j] :
    s[i][v] = s[j][w] => i = j /\ v = w
\* The scopes a place has.
ScopesOK(s) ==
  /\ IsSeq(s) /\ Len(s) >= 2 /\ s[1] = GlobalScope /\ s[2] = ParamScope
  /\ \A i \in DOMAIN s : \A v \in DOMAIN s[i] : s[i][v] \in Slots
  /\ Apart(s)
\* A place: an item and its scopes.
Place(i, s) == [at |-> i, in |-> s]
PlaceOK(y) == y.at \in Nat \ {0} /\ ScopesOK(y.in)
Begins(y) == y.at = 1 /\ y.in = <<GlobalScope, ParamScope>>

\* The code c of the program p leads to the place q, where k is known.
Chain(c, p, q, k) ==
  /\ IsSeq(c) /\ PlaceOK(q) /\ \A j \in 1..Len(c) : PlaceOK(c[j]) /\ c[j].at <= q.at
  /\ Begins(IF c = <<>> THEN q ELSE c[1])
  /\ \E M : /\ M[1] = Idle /\ M[Len(c) + 1] = k
            /\ \A j \in 1..Len(c) :
                 Link(p, c[j], M[j], IF j = Len(c) THEN q ELSE c[j + 1], M[j + 1])

-----------------------------------------------------------------------------
(* Code that grows *)

\* One instruction, tagged.
LEMMA AtOne ==
  ASSUME NEW x, NEW i, NEW s
  PROVE  LET y == At(<<x>>, i, s)
         IN IsSeq(y) /\ Len(y) = 1 /\ y = <<y[1]>>
            /\ y[1].op = x.op /\ y[1].n = x.n /\ y[1].at = i /\ y[1].in = s
<1> DEFINE z == [op |-> x.op, n |-> x.n, at |-> i, in |-> s]
           y == At(<<x>>, i, s)
<1>1. y = <<z>>
  BY DEF At
<1> HIDE DEF y
<1>2. y \in Seq({z}) /\ Len(y) = 1 /\ y[1] = z
  BY <1>1
<1> QED
  BY <1>1, <1>2 DEF IsSeq, y

\* Two pieces, tagged.
LEMMA AtJoin ==
  ASSUME NEW s, NEW t, IsSeq(s), IsSeq(t), NEW i, NEW r
  PROVE  At(s \o t, i, r) = At(s, i, r) \o At(t, i, r)
<1> DEFINE a == At(s, i, r)
           b == At(t, i, r)
           u == s \o t
           c == At(u, i, r)
           p == Len(s)
           q == Len(t)
<1>1. /\ IsSeq(u) /\ p \in Nat /\ q \in Nat /\ DOMAIN s = 1..p /\ DOMAIN t = 1..q
      /\ DOMAIN u = 1..(p + q) /\ Len(u) = p + q
      /\ \A j \in 1..p : u[j] = s[j]
      /\ \A j \in 1..q : u[p + j] = t[j]
  BY ConcatFacts, ConcatLen
<1> HIDE DEF u, p, q
<1>2. /\ DOMAIN a = 1..p /\ DOMAIN b = 1..q /\ DOMAIN c = 1..(p + q)
      /\ \A j \in 1..p : a[j] = [op |-> s[j].op, n |-> s[j].n, at |-> i, in |-> r]
      /\ \A j \in 1..q : b[j] = [op |-> t[j].op, n |-> t[j].n, at |-> i, in |-> r]
      /\ \A j \in 1..(p + q) : c[j] = [op |-> u[j].op, n |-> u[j].n, at |-> i, in |-> r]
  BY <1>1 DEF At
<1>3. /\ a = [j \in DOMAIN s |-> a[j]] /\ b = [j \in DOMAIN t |-> b[j]]
      /\ c = [j \in DOMAIN u |-> c[j]]
  BY DEF At
<1> HIDE DEF a, b, c
<1>4. IsSeq(a) /\ Len(a) = p /\ IsSeq(b) /\ Len(b) = q /\ IsSeq(c) /\ Len(c) = p + q
  BY <1>1, <1>3, MapFacts DEF p, q
<1>5. /\ IsSeq(a \o b) /\ Len(a \o b) = p + q
      /\ \A j \in 1..p : (a \o b)[j] = a[j]
      /\ \A j \in 1..q : (a \o b)[p + j] = b[j]
  BY <1>4, ConcatFacts, ConcatLen
<1>6. ASSUME NEW j \in 1..(p + q)
      PROVE  c[j] = (a \o b)[j]
  <2>1. CASE j \in 1..p
    BY <1>1, <1>2, <1>5, <2>1
  <2>2. CASE j \notin 1..p
    <3>1. PICK w \in 1..q : j = p + w
      <4>1. j - p \in 1..q /\ j = p + (j - p)
        BY <1>1, <2>2
      <4> QED
        BY <4>1
    <3>2. u[p + w] = t[w] /\ (a \o b)[p + w] = b[w]
      BY <1>1, <1>5, <3>1
    <3>3. c[j] = [op |-> t[w].op, n |-> t[w].n, at |-> i, in |-> r]
      BY <1>2, <3>1, <3>2
    <3> QED
      BY <1>2, <3>1, <3>2, <3>3
  <2> QED
    BY <2>1, <2>2
<1>7. c = a \o b
  BY <1>4, <1>5, <1>6, IsSeqEqual
<1> QED
  BY <1>7 DEF a, b, c, u

\* The chain with one more instruction.
LEMMA GrowOne ==
  ASSUME NEW c, NEW p, NEW q, NEW k, Chain(c, p, q, k),
         NEW x, NEW y, NEW m, x.at = q.at, x.in = q.in, PlaceOK(y), q.at <= y.at,
         Link(p, x, k, y, m)
  PROVE  Chain(Append(c, x), p, y, m)
<1> DEFINE d == Append(c, x)
           n == Len(c)
<1>1. /\ IsSeq(d) /\ n \in Nat /\ Len(d) = n + 1
      /\ \A i \in 1..n : d[i] = c[i]
      /\ d[n + 1] = x
      /\ c = <<>> <=> n = 0
  BY AppendFacts, SeqFacts DEF Chain
<1> HIDE DEF d
<1>2. d # <<>>
  <2>1. d = <<>> <=> Len(d) = 0
    BY <1>1, SeqFacts
  <2> QED
    BY <1>1, <2>1
<1>3. PICK M : /\ M[1] = Idle /\ M[n + 1] = k
               /\ \A j \in 1..n :
                    Link(p, c[j], M[j], IF j = n THEN q ELSE c[j + 1], M[j + 1])
  BY DEF Chain
<1> HIDE DEF n
<1> DEFINE W == [j \in 1..(n + 2) |-> IF j <= n + 1 THEN M[j] ELSE m]
<1>4. /\ \A j \in 1..(n + 1) : W[j] = M[j]
      /\ W[n + 2] = m
  BY <1>1
<1> HIDE DEF W
<1>5. PlaceOK(x)
  BY DEF Chain, PlaceOK
<1>6. \A j \in 1..(n + 1) : PlaceOK(d[j]) /\ d[j].at <= y.at
  <2>1. \A j \in 1..(n + 1) : j \in 1..n \/ j = n + 1
    BY <1>1
  <2>2. \A j \in 1..n : PlaceOK(d[j]) /\ d[j].at <= q.at
    BY <1>1 DEF Chain, n
  <2>3. \A j \in 1..n : d[j].at \in Nat
    BY <2>2 DEF PlaceOK
  <2>4. q.at \in Nat /\ y.at \in Nat
    BY DEF Chain, PlaceOK
  <2>5. \A j \in 1..n : d[j].at <= y.at
    BY <2>2, <2>3, <2>4
  <2> QED
    BY <1>1, <1>5, <2>1, <2>2, <2>5
<1>7. Begins(d[1])
  <2>1. CASE n = 0
    <3>1. d[1] = x /\ Begins(q)
      BY <1>1, <2>1 DEF Chain
    <3> QED
      BY <3>1 DEF Begins
  <2>2. CASE n # 0
    <3>1. 1 \in 1..n
      BY <1>1, <2>2
    <3> QED
      BY <1>1, <2>2, <3>1 DEF Chain
  <2> QED
    BY <2>1, <2>2
<1>8. ASSUME NEW j \in 1..(n + 1)
      PROVE  Link(p, d[j], W[j], IF j = n + 1 THEN y ELSE d[j + 1], W[j + 1])
  <2>1. CASE j = n + 1
    <3>1. W[j] = k /\ W[j + 1] = m /\ d[j] = x
      BY <1>1, <1>3, <1>4, <2>1
    <3> QED
      BY <2>1, <3>1
  <2>2. CASE j = n /\ j # n + 1
    <3>1. W[j] = M[j] /\ W[j + 1] = M[j + 1] /\ d[j] = c[j] /\ d[j + 1] = x /\ j \in 1..n
      BY <1>1, <1>4, <2>2
    <3>2. Link(p, c[j], M[j], q, M[j + 1])
      BY <1>3, <2>2, <3>1
    <3>3. Link(p, c[j], M[j], x, M[j + 1])
      BY <3>2 DEF Link
    <3> QED
      BY <2>2, <3>1, <3>3
  <2>3. CASE j # n /\ j # n + 1
    <3>1. W[j] = M[j] /\ W[j + 1] = M[j + 1] /\ d[j] = c[j] /\ d[j + 1] = c[j + 1] /\ j \in 1..n
      BY <1>1, <1>4, <2>3
    <3>2. Link(p, c[j], M[j], c[j + 1], M[j + 1])
      BY <1>3, <2>3, <3>1
    <3> QED
      BY <2>3, <3>1, <3>2
  <2> QED
    BY <2>1, <2>2, <2>3
<1>9. 1 \in 1..(n + 1) /\ n + 1 + 1 = n + 2
  BY <1>1
<1>10. W[1] = Idle /\ W[n + 1 + 1] = m
  BY <1>3, <1>4, <1>9
<1> QED
  BY <1>1, <1>2, <1>6, <1>7, <1>8, <1>10 DEF Chain, d

\* A longer program.
LEMMA ChainMore ==
  ASSUME NEW c, NEW p, NEW q, NEW k, Chain(c, p, q, k), IsSeq(p), NEW it
  PROVE  Chain(c, Append(p, it), q, k)
<1> DEFINE r == Append(p, it)
<1>1. /\ \A i \in DOMAIN p : i \in DOMAIN r /\ r[i] = p[i]
  BY AppendFacts
<1> HIDE DEF r
<1>2. \A x, h, y, m : Link(p, x, h, y, m) => Link(r, x, h, y, m)
  BY <1>1 DEF Link
<1> QED
  BY <1>2 DEF Chain, r

\* The piece t stays at the place q, and the piece that goes on to y.
Carries(t, q, k, m) ==
  /\ IsSeq(t)
  /\ \A c, p : Chain(c, p, q, k) => Chain(c \o At(t, q.at, q.in), p, q, m)
Finishes(t, p, q, k, y) ==
  /\ IsSeq(t)
  /\ \A c : Chain(c, p, q, k) => Chain(c \o At(t, q.at, q.in), p, y, Idle)

\* A sequence with one more element is joined with that one.
LEMMA AppendJoin ==
  ASSUME NEW s, NEW x, IsSeq(s)
  PROVE  Append(s, x) = s \o <<x>>
<1>1. PICK S : s \in Seq(S)
  BY DEF IsSeq
<1>2. s \in Seq(S \cup {x}) /\ <<x>> \in Seq(S \cup {x})
  BY <1>1
<1> QED
  BY <1>2

\* One value is a sequence of one.
LEMMA OneSeq == ASSUME NEW x PROVE IsSeq(<<x>>)
<1>1. <<x>> \in Seq({x})
  OBVIOUS
<1> QED
  BY <1>1 DEF IsSeq

\* One instruction.
LEMMA GrowAt ==
  ASSUME NEW c, NEW p, NEW q, NEW k, Chain(c, p, q, k),
         NEW x, NEW y, NEW m, PlaceOK(y), q.at <= y.at,
         Link(p, [op |-> x.op, n |-> x.n, at |-> q.at, in |-> q.in], k, y, m)
  PROVE  Chain(c \o At(<<x>>, q.at, q.in), p, y, m)
<1> DEFINE z == [op |-> x.op, n |-> x.n, at |-> q.at, in |-> q.in]
<1>1. z.at = q.at /\ z.in = q.in
  OBVIOUS
<1>2. At(<<x>>, q.at, q.in) = <<z>>
  BY DEF At
<1> HIDE DEF z
<1>3. Chain(Append(c, z), p, y, m)
  BY <1>1, GrowOne DEF z
<1>4. Append(c, z) = c \o <<z>>
  BY AppendJoin DEF Chain
<1> QED
  BY <1>2, <1>3, <1>4

\* One instruction that stays with its item.
LEMMA CarryOne ==
  ASSUME NEW x, NEW q, NEW k, NEW m, PlaceOK(q), Goes1(x, q.in, k, m)
  PROVE  Carries(<<x>>, q, k, m)
<1> DEFINE z == [op |-> x.op, n |-> x.n, at |-> q.at, in |-> q.in]
<1>1. Goes1(z, z.in, k, m)
  BY DEF Goes1, HLKnown, DEKnown, TopKnown
<1>2. z.at = q.at /\ z.in = q.in
  OBVIOUS
<1> HIDE DEF z
<1>3. \A p : Link(p, z, k, q, m)
  BY <1>1, <1>2 DEF Link
<1>5. q.at <= q.at
  BY DEF PlaceOK
<1>4. \A c, p : Chain(c, p, q, k) => Chain(c \o At(<<x>>, q.at, q.in), p, q, m)
  BY <1>3, <1>5, GrowAt DEF z
<1> QED
  BY <1>4, OneSeq DEF Carries

\* One instruction that ends its item.
LEMMA FinishOne ==
  ASSUME NEW x, NEW p, NEW q, NEW k, NEW y, PlaceOK(y), q.at \in DOMAIN p, y.at = q.at + 1,
         Completes(p[q.at], x, q.in, k, y.in)
  PROVE  Finishes(<<x>>, p, q, k, y)
<1> DEFINE z == [op |-> x.op, n |-> x.n, at |-> q.at, in |-> q.in]
<1>0. z.at = q.at /\ z.in = q.in /\ z.op = x.op /\ z.n = x.n
  OBVIOUS
<1> HIDE DEF z
<1>1. Completes(p[q.at], z, z.in, k, y.in)
  <2> DEFINE it == p[q.at]
             s == q.in
             r == y.in
  <2>1. Completes(it, x, s, k, r) /\ z.op = x.op /\ z.n = x.n
    BY <1>0
  <2> HIDE DEF it, s, r
  <2>2. \A o, e : StoresTo(x, k, o, e) <=> StoresTo(z, k, o, e)
    BY <2>1 DEF StoresTo
  <2>3. Completes(it, z, s, k, r)
    BY <2>1, <2>2 DEF Completes
  <2> QED
    BY <1>0, <2>3 DEF it, s, r
<1>2. z.at = q.at /\ z.in = q.in
  BY <1>0
<1>3. Link(p, z, k, y, Idle)
  BY <1>1, <1>2 DEF Link
<1>4. \A c : Chain(c, p, q, k) => Chain(c \o At(<<x>>, q.at, q.in), p, y, Idle)
  <2>1. PlaceOK(q) => q.at <= y.at
    BY DEF PlaceOK
  <2>2. \A c : Chain(c, p, q, k) => PlaceOK(q)
    BY DEF Chain
  <2> QED
    BY <1>3, <2>1, <2>2, GrowAt DEF z
<1> QED
  BY <1>4, OneSeq DEF Finishes

\* A jump may be followed by anything that is not before it.
LEMMA FinishJump ==
  ASSUME NEW x, NEW p, NEW q, NEW k, NEW y, PlaceOK(y), q.at \in DOMAIN p,
         y.at = q.at \/ y.at = q.at + 1,
         x.op = "jp", Leaves(p[q.at], k)
  PROVE  Finishes(<<x>>, p, q, k, y)
<1> DEFINE z == [op |-> x.op, n |-> x.n, at |-> q.at, in |-> q.in]
<1>2. z.at = q.at /\ z.op = "jp"
  OBVIOUS
<1> HIDE DEF z
<1>3. Link(p, z, k, y, Idle)
  BY <1>2 DEF Link
<1>4. \A c : Chain(c, p, q, k) => Chain(c \o At(<<x>>, q.at, q.in), p, y, Idle)
  <2>1. PlaceOK(q) => q.at <= y.at
    BY DEF PlaceOK
  <2>2. \A c : Chain(c, p, q, k) => PlaceOK(q)
    BY DEF Chain
  <2> QED
    BY <1>3, <2>1, <2>2, GrowAt DEF z
<1> QED
  BY <1>4, OneSeq DEF Finishes

\* Tagging keeps a sequence one.
LEMMA AtSeq ==
  ASSUME NEW t, NEW i, NEW s, IsSeq(t)
  PROVE  IsSeq(At(t, i, s))
BY AtFacts

\* Two pieces that stay with their item.
LEMMA CarryJoin ==
  ASSUME NEW s, NEW t, NEW q, NEW k, NEW m, NEW r, Carries(s, q, k, m), Carries(t, q, m, r)
  PROVE  Carries(s \o t, q, k, r)
<1>1. IsSeq(s) /\ IsSeq(t) /\ IsSeq(s \o t)
  BY ConcatFacts DEF Carries
<1>2. ASSUME NEW c, NEW p, Chain(c, p, q, k)
      PROVE  Chain(c \o At(s \o t, q.at, q.in), p, q, r)
  <2> DEFINE a == At(s, q.at, q.in)
             b == At(t, q.at, q.in)
  <2>1. Chain((c \o a) \o b, p, q, r)
    BY <1>2 DEF Carries
  <2>2. At(s \o t, q.at, q.in) = a \o b
    BY <1>1, AtJoin
  <2>3. IsSeq(c) /\ IsSeq(a) /\ IsSeq(b)
    BY <1>1, <1>2, AtSeq DEF Chain
  <2> HIDE DEF a, b
  <2>4. c \o (a \o b) = (c \o a) \o b
    BY <2>3, ConcatAssoc
  <2> QED
    BY <2>1, <2>2, <2>4
<1> QED
  BY <1>1, <1>2 DEF Carries

\* A piece that stays and one that ends the item.
LEMMA FinishJoin ==
  ASSUME NEW s, NEW t, NEW p, NEW q, NEW k, NEW m, NEW y, Carries(s, q, k, m),
         Finishes(t, p, q, m, y)
  PROVE  Finishes(s \o t, p, q, k, y)
<1>1. IsSeq(s) /\ IsSeq(t) /\ IsSeq(s \o t)
  BY ConcatFacts DEF Carries, Finishes
<1>2. ASSUME NEW c, Chain(c, p, q, k)
      PROVE  Chain(c \o At(s \o t, q.at, q.in), p, y, Idle)
  <2> DEFINE a == At(s, q.at, q.in)
             b == At(t, q.at, q.in)
  <2>1. Chain((c \o a) \o b, p, y, Idle)
    BY <1>2 DEF Carries, Finishes
  <2>2. At(s \o t, q.at, q.in) = a \o b
    BY <1>1, AtJoin
  <2>3. IsSeq(c) /\ IsSeq(a) /\ IsSeq(b)
    BY <1>1, <1>2, AtSeq DEF Chain
  <2> HIDE DEF a, b
  <2>4. c \o (a \o b) = (c \o a) \o b
    BY <2>3, ConcatAssoc
  <2> QED
    BY <2>1, <2>2, <2>4
<1> QED
  BY <1>1, <1>2 DEF Finishes

\* Two instructions that stay.
LEMMA CarryTwo ==
  ASSUME NEW x, NEW y, NEW q, NEW k, NEW m, NEW r,
         Carries(<<x>>, q, k, m), Carries(<<y>>, q, m, r)
  PROVE  Carries(<<x, y>>, q, k, r)
BY CarryJoin, TwoJoined

\* One that stays and one that ends the item.
LEMMA FinishTwo ==
  ASSUME NEW x, NEW z, NEW p, NEW q, NEW k, NEW m, NEW y, Carries(<<x>>, q, k, m),
         Finishes(<<z>>, p, q, m, y)
  PROVE  Finishes(<<x, z>>, p, q, k, y)
BY FinishJoin, TwoJoined

\* The fields of what is known.
LEMMA ToldFacts ==
  ASSUME NEW h, NEW d, NEW t
  PROVE  Told(h, d, t).hl = h /\ Told(h, d, t).de = d /\ Told(h, d, t).top = t
BY DEF Told

\* What a name stands for at a place is where the code of z looks.
Found(z, s, e) == e \in DOMAIN Lits \/ (Visible(s, e) /\ OffsetOf(z, e) = OffsetOf(s, e))

\* The code of an expression leaves its value in HL and what is pushed alone.
LEMMA EvalCarries ==
  ASSUME NEW z, NEW e, NEW q, PlaceOK(q), Found(z, q.in, e), NEW h, NEW d, NEW t
  PROVE  Carries(Eval(z, e), q, Told(h, d, t), Told(ValueOf(e), Nothing, t))
<1> DEFINE k == Told(h, d, t)
           m == Told(ValueOf(e), Nothing, t)
<1>1. k.top = t /\ m.hl = ValueOf(e) /\ m.de = Nothing /\ m.top = t
  BY ToldFacts
<1> HIDE DEF k, m
<1>2. CASE e \in DOMAIN Lits
  <2> DEFINE x == I("imm", Lits[e])
  <2>1. x.op = "imm" /\ x.n = Lits[e]
    BY DEF I
  <2> HIDE DEF x
  <2>2. Goes1(x, q.in, k, m)
    BY <1>1, <1>2, <2>1 DEF Goes1, HLKnown, DEKnown, TopKnown, Silent, Loads
  <2>3. Carries(<<x>>, q, k, m)
    BY <2>2, CarryOne
  <2> QED
    BY <1>2, <2>3 DEF Eval, x, k, m
<1>3. CASE e \notin DOMAIN Lits
  <2> DEFINE o == OffsetOf(z, e)
             x == I("ld", o)
             y == I("lea", o)
             w == I("ldind", 0)
             r == Told(Address(o), Nothing, t)
  <2>0. Names(q.in, e, o)
    BY <1>3 DEF Found, Names
  <2>1. Eval(z, e) = LoadLocal(o)
    BY <1>3 DEF Eval
  <2> HIDE DEF o
  <2>2. /\ x.op = "ld" /\ x.n = o /\ y.op = "lea" /\ y.n = o /\ w.op = "ldind"
        /\ r.hl = Address(o) /\ r.de = Nothing /\ r.top = t
    BY ToldFacts DEF I
  <2>3. LoadLocal(o) = IF InReach(o) THEN <<x>> ELSE <<y, w>>
    BY DEF LoadLocal
  <2> HIDE DEF x, y, w, r
  <2>4. Goes1(x, q.in, k, m)
    BY <1>1, <2>0, <2>2 DEF Goes1, HLKnown, DEKnown, TopKnown, Silent, Loads
  <2>5. Goes1(y, q.in, k, r)
    BY <1>1, <2>2 DEF Goes1, HLKnown, DEKnown, TopKnown, Silent, Loads
  <2>6. Goes1(w, q.in, r, m)
    BY <1>1, <2>0, <2>2 DEF Goes1, HLKnown, DEKnown, TopKnown, Silent, Loads
  <2>7. Carries(<<x>>, q, k, m) /\ Carries(<<y>>, q, k, r) /\ Carries(<<w>>, q, r, m)
    BY <2>4, <2>5, <2>6, CarryOne
  <2>8. Carries(<<y, w>>, q, k, m)
    BY <2>7, CarryTwo
  <2> QED
    BY <2>1, <2>3, <2>7, <2>8 DEF k, m
<1> QED
  BY <1>2, <1>3

\* An assignment stores the value at the offset.
LEMMA AssignFinishes ==
  ASSUME NEW z, NEW e, NEW o, NEW p, NEW q, NEW y, PlaceOK(q), PlaceOK(y), Found(z, q.in, e),
         q.at \in DOMAIN p, y.at = q.at + 1,
         \A x, k : StoresTo(x, k, o, e) => Completes(p[q.at], x, q.in, k, y.in)
  PROVE  Finishes(AssignTo(o, Eval(z, e)), p, q, Idle, y)
<1> DEFINE v == Eval(z, e)
           x1 == I("st", o)
           x2 == I("lea", o)
           x3 == I("push", 0)
           x4 == I("popde", 0)
           x5 == I("sthl", 0)
           k0 == Idle
           k1 == Told(ValueOf(e), Nothing, Nothing)
           k2 == Told(Address(o), Nothing, Nothing)
           k3 == Told(Address(o), Nothing, Address(o))
           k4 == Told(ValueOf(e), Nothing, Address(o))
           k5 == Told(ValueOf(e), Address(o), Nothing)
<1>1. /\ x1.op = "st" /\ x1.n = o /\ x2.op = "lea" /\ x2.n = o /\ x3.op = "push"
      /\ x4.op = "popde" /\ x5.op = "sthl"
  BY DEF I
<1>2. /\ k1.hl = ValueOf(e)
      /\ k2.hl = Address(o) /\ k2.de = Nothing /\ k2.top = Nothing
      /\ k3.hl = Address(o) /\ k3.de = Nothing /\ k3.top = Address(o)
      /\ k4.hl = ValueOf(e) /\ k4.top = Address(o)
      /\ k5.hl = ValueOf(e) /\ k5.de = Address(o) /\ k5.top = Nothing
  BY ToldFacts
<1>3. Carries(v, q, k0, k1) /\ Carries(v, q, k3, k4)
  BY EvalCarries DEF Idle
<1>4. AssignTo(o, v) = IF InReach(o) THEN v \o <<x1>> ELSE <<x2, x3>> \o v \o <<x4, x5>>
  BY DEF AssignTo
<1> HIDE DEF v, x1, x2, x3, x4, x5, k0, k1, k2, k3, k4, k5
<1>5. Finishes(<<x1>>, p, q, k1, y)
  BY <1>1, <1>2, FinishOne DEF StoresTo
<1>6. Carries(<<x2>>, q, k0, k2)
  BY <1>1, <1>2, CarryOne DEF Goes1, HLKnown, DEKnown, TopKnown, Silent, Loads
<1>7. Carries(<<x3>>, q, k2, k3)
  BY <1>1, <1>2, CarryOne DEF Goes1, HLKnown, DEKnown, TopKnown, Silent, Loads
<1>8. Carries(<<x4>>, q, k4, k5)
  BY <1>1, <1>2, CarryOne DEF Goes1, HLKnown, DEKnown, TopKnown, Silent, Loads
<1>9. Finishes(<<x5>>, p, q, k5, y)
  BY <1>1, <1>2, FinishOne DEF StoresTo
<1>10. Finishes(v \o <<x1>>, p, q, k0, y)
  BY <1>3, <1>5, FinishJoin
<1>11. Carries(<<x2, x3>>, q, k0, k3)
  BY <1>6, <1>7, CarryTwo
<1>12. Carries(<<x2, x3>> \o v, q, k0, k4)
  BY <1>3, <1>11, CarryJoin
<1>13. Finishes(<<x4, x5>>, p, q, k4, y)
  BY <1>8, <1>9, FinishTwo
<1>14. Finishes((<<x2, x3>> \o v) \o <<x4, x5>>, p, q, k0, y)
  BY <1>12, <1>13, FinishJoin
<1> QED
  BY <1>4, <1>10, <1>14 DEF v, k0

\* A declaration moves SP and stores its initializer.
LEMMA DeclareFinishes ==
  ASSUME NEW z, NEW e, NEW o, NEW p, NEW q, NEW y, PlaceOK(q), PlaceOK(y),
         e # "none" => Found(z, q.in, e),
         q.at \in DOMAIN p, y.at = q.at + 1, p[q.at].k = "decl", p[q.at].e = e, o \in Slots,
         y.in = Bind(q.in, p[q.at].v, o)
  PROVE  Finishes(<<I("alloc", SlotSize)>>
                  \o (IF e = "none" THEN <<>> ELSE Eval(z, e) \o InitStore(o)), p, q, Idle, y)
<1> DEFINE v == Eval(z, e)
           w == InitStore(o)
           x0 == I("alloc", SlotSize)
           x1 == I("st", o)
           x2 == I("push", 0)
           x3 == I("lea", o)
           x4 == I("popde", 0)
           x5 == I("stde", 0)
           k0 == Idle
           k1 == Told(ValueOf(e), Nothing, Nothing)
           k2 == Told(ValueOf(e), Nothing, ValueOf(e))
           k3 == Told(Address(o), Nothing, ValueOf(e))
           k4 == Told(Address(o), ValueOf(e), Nothing)
<1>0. \A x, k : (IF e = "none" THEN x.op = "alloc" ELSE StoresTo(x, k, o, e))
                  => Completes(p[q.at], x, q.in, k, y.in)
  BY DEF Completes
<1>1. /\ x0.op = "alloc" /\ x1.op = "st" /\ x1.n = o /\ x2.op = "push" /\ x3.op = "lea"
      /\ x3.n = o /\ x4.op = "popde" /\ x5.op = "stde"
  BY DEF I
<1>2. /\ k0.hl = Nothing /\ k0.de = Nothing /\ k0.top = Nothing
      /\ k1.hl = ValueOf(e) /\ k1.de = Nothing /\ k1.top = Nothing
      /\ k2.hl = ValueOf(e) /\ k2.de = Nothing /\ k2.top = ValueOf(e)
      /\ k3.hl = Address(o) /\ k3.de = Nothing /\ k3.top = ValueOf(e)
      /\ k4.hl = Address(o) /\ k4.de = ValueOf(e) /\ k4.top = Nothing
  BY ToldFacts DEF Idle
<1>3. w = IF InReach(o) THEN <<x1>> ELSE <<x2, x3, x4, x5>>
  BY DEF InitStore
<1>4. CASE e = "none"
  <2> HIDE DEF x0, k0
  <2>1. Finishes(<<x0>>, p, q, k0, y)
    BY <1>0, <1>1, <1>4, FinishOne
  <2>2. <<x0>> \o <<>> = <<x0>>
    OBVIOUS
  <2> QED
    BY <1>4, <2>1, <2>2 DEF x0, k0
<1>5. CASE e # "none"
  <2>1. Carries(v, q, k0, k1)
    BY <1>5, EvalCarries DEF Idle
  <2> HIDE DEF v, w, x0, x1, x2, x3, x4, x5, k0, k1, k2, k3, k4
  <2>2. Carries(<<x0>>, q, k0, k0)
    BY <1>1, <1>2, CarryOne DEF Goes1, HLKnown, DEKnown, TopKnown, Silent, Loads
  <2>3. Finishes(<<x1>>, p, q, k1, y)
    BY <1>0, <1>1, <1>2, <1>5, FinishOne DEF StoresTo
  <2>4. Carries(<<x2>>, q, k1, k2)
    BY <1>1, <1>2, CarryOne DEF Goes1, HLKnown, DEKnown, TopKnown, Silent, Loads
  <2>5. Carries(<<x3>>, q, k2, k3)
    BY <1>1, <1>2, CarryOne DEF Goes1, HLKnown, DEKnown, TopKnown, Silent, Loads
  <2>6. Carries(<<x4>>, q, k3, k4)
    BY <1>1, <1>2, CarryOne DEF Goes1, HLKnown, DEKnown, TopKnown, Silent, Loads
  <2>7. Finishes(<<x5>>, p, q, k4, y)
    BY <1>0, <1>1, <1>2, <1>5, FinishOne DEF StoresTo
  <2>8. Finishes(<<x2, x3>> \o <<x4, x5>>, p, q, k1, y)
    BY <2>4, <2>5, <2>6, <2>7, CarryTwo, FinishTwo, FinishJoin
  <2>9. Finishes(w, p, q, k1, y)
    BY <1>3, <2>3, <2>8, FourJoined
  <2>10. Finishes(v \o w, p, q, k0, y)
    BY <2>1, <2>9, FinishJoin
  <2>11. Finishes(<<x0>> \o (v \o w), p, q, k0, y)
    BY <2>2, <2>10, FinishJoin
  <2> QED
    BY <1>5, <2>11 DEF x0, v, w, k0
<1> QED
  BY <1>4, <1>5

-----------------------------------------------------------------------------
(* The scopes while the parser reads *)

\* A new scope has no variable, one that ends leaves the others.
LEMMA ScopesMore ==
  ASSUME NEW s, ScopesOK(s)
  PROVE  ScopesOK(Append(s, <<>>))
<1> DEFINE z == <<>>
           r == Append(s, z)
           n == Len(s)
<1>1. DOMAIN z = {}
  OBVIOUS
<1> HIDE DEF z
<1>2. /\ IsSeq(r) /\ n \in Nat /\ Len(r) = n + 1 /\ DOMAIN s = 1..n /\ DOMAIN r = 1..(n + 1)
      /\ \A i \in 1..n : r[i] = s[i]
      /\ r[n + 1] = z /\ n >= 2
  BY AppendFacts DEF ScopesOK
<1> HIDE DEF r, n
<1>3. 1 \in 1..n /\ 2 \in 1..n
  BY <1>2
<1>4. ASSUME NEW i \in DOMAIN r, NEW v \in DOMAIN r[i]
      PROVE  i \in DOMAIN s /\ v \in DOMAIN s[i] /\ r[i][v] = s[i][v]
  <2>1. i # n + 1
    BY <1>1, <1>2, <1>4
  <2>2. i \in 1..n
    BY <1>2, <1>4, <2>1
  <2> QED
    BY <1>2, <1>4, <2>2
<1>5. Apart(r)
  BY <1>4 DEF Apart, ScopesOK
<1>6. \A i \in DOMAIN r : \A v \in DOMAIN r[i] : r[i][v] \in Slots
  BY <1>4 DEF ScopesOK
<1> QED
  BY <1>2, <1>3, <1>5, <1>6 DEF ScopesOK, r, z

\* The scopes without the innermost ones.
LEMMA ScopesLess ==
  ASSUME NEW s, ScopesOK(s), NEW n \in 2..Len(s)
  PROVE  ScopesOK(SubSeq(s, 1, n))
<1> DEFINE r == SubSeq(s, 1, n)
           k == Len(s)
<1>0. k \in Nat /\ DOMAIN s = 1..k
  BY SeqFacts DEF ScopesOK
<1>1. /\ IsSeq(r) /\ Len(r) = n /\ DOMAIN r = 1..n /\ \A i \in 1..n : r[i] = s[i]
  <2>1. n \in 0..Len(s)
    BY <1>0
  <2> QED
    BY <2>1, SubSeqFacts DEF ScopesOK
<1> HIDE DEF r, k
<1>2. 1 \in 1..n /\ 2 \in 1..n /\ n >= 2 /\ \A i \in 1..n : i \in DOMAIN s
  BY <1>0 DEF k
<1>3. Apart(r)
  BY <1>1, <1>2 DEF Apart, ScopesOK
<1>4. \A i \in DOMAIN r : \A v \in DOMAIN r[i] : r[i][v] \in Slots
  BY <1>1, <1>2 DEF ScopesOK
<1> QED
  BY <1>1, <1>2, <1>3, <1>4 DEF ScopesOK, r

\* A name bound in the innermost scope, to a slot nobody has.
LEMMA BindFacts ==
  ASSUME NEW s, IsSeq(s), s # <<>>, NEW v, NEW o
  PROVE  LET r == Bind(s, v, o)
             n == Len(s)
         IN /\ n \in Nat \ {0} /\ DOMAIN s = 1..n
            /\ IsSeq(r) /\ Len(r) = n /\ DOMAIN r = 1..n
            /\ \A i \in 1..n : i # n => r[i] = s[i]
            /\ DOMAIN r[n] = DOMAIN s[n] \cup {v}
            /\ r[n][v] = o /\ \A w \in DOMAIN s[n] : w # v => r[n][w] = s[n][w]
<1> DEFINE r == Bind(s, v, o)
           n == Len(s)
<1>1. n \in Nat \ {0} /\ DOMAIN s = 1..n
  BY SeqFacts
<1>2. /\ DOMAIN r = DOMAIN s
      /\ \A i \in DOMAIN s : i # n => r[i] = s[i]
      /\ n \in DOMAIN s => r[n] = [x \in DOMAIN s[n] \cup {v} |-> IF x = v THEN o ELSE s[n][x]]
  BY DEF Bind
<1>3. r = [i \in DOMAIN s |-> r[i]]
  BY DEF Bind
<1> HIDE DEF r, n
<1>4. IsSeq(r) /\ Len(r) = n
  BY <1>3, MapFacts DEF n
<1>5. n \in 1..n
  BY <1>1
<1>6. r[n] = [x \in DOMAIN s[n] \cup {v} |-> IF x = v THEN o ELSE s[n][x]]
  BY <1>1, <1>2, <1>5
<1>7. DOMAIN r[n] = DOMAIN s[n] \cup {v} /\ r[n][v] = o
      /\ \A w \in DOMAIN s[n] : w # v => r[n][w] = s[n][w]
  BY <1>6
<1> QED
  BY <1>1, <1>2, <1>4, <1>7 DEF r, n

\* The scopes with a variable at an offset that is free.
LEMMA ScopesBound ==
  ASSUME NEW s, ScopesOK(s), Len(s) >= 3, NEW v, NEW o \in Slots,
         \A i \in DOMAIN s : \A w \in DOMAIN s[i] : s[i][w] # o
  PROVE  ScopesOK(Bind(s, v, o))
<1> DEFINE r == Bind(s, v, o)
           n == Len(s)
<1>0. IsSeq(s) /\ n >= 3
  BY DEF ScopesOK
<1>1. s # <<>>
  <2>1. Len(s) # 0
    BY <1>0
  <2> QED
    BY <1>0, <2>1, SeqFacts
<1>2. /\ n \in Nat /\ DOMAIN s = 1..n /\ IsSeq(r) /\ Len(r) = n /\ DOMAIN r = 1..n
      /\ \A i \in 1..n : i # n => r[i] = s[i]
      /\ DOMAIN r[n] = DOMAIN s[n] \cup {v}
      /\ r[n][v] = o /\ \A w \in DOMAIN s[n] : w # v => r[n][w] = s[n][w]
  BY <1>0, <1>1, BindFacts
<1> HIDE DEF r, n
<1>3. 1 \in 1..n /\ 2 \in 1..n /\ 1 # n /\ 2 # n /\ n >= 2
  BY <1>0, <1>2
<1>4. ASSUME NEW i \in DOMAIN r, NEW w \in DOMAIN r[i]
      PROVE  \/ i = n /\ w = v /\ r[i][w] = o
             \/ i \in DOMAIN s /\ w \in DOMAIN s[i] /\ r[i][w] = s[i][w]
  BY <1>2, <1>4
<1>5. Apart(r)
  BY <1>4 DEF Apart, ScopesOK
<1>6. \A i \in DOMAIN r : \A w \in DOMAIN r[i] : r[i][w] \in Slots
  BY <1>4 DEF ScopesOK
<1> QED
  BY <1>2, <1>3, <1>5, <1>6 DEF ScopesOK, r, n

\* The innermost scope that has a name.
LEMMA ScopeIs ==
  ASSUME NEW s, IsSeq(s), NEW v, Visible(s, v)
  PROVE  /\ ScopeOf(s, v) \in DOMAIN s /\ v \in DOMAIN s[ScopeOf(s, v)]
         /\ \A i \in DOMAIN s : v \in DOMAIN s[i] => i <= ScopeOf(s, v)
<1> DEFINE S == {i \in DOMAIN s : v \in DOMAIN s[i]}
<1>1. Len(s) \in Nat /\ DOMAIN s = 1..Len(s)
  BY SeqFacts
<1>2. S \in SUBSET (0..Len(s)) /\ S # {}
  BY <1>1 DEF Visible
<1>3. \E m \in S : \A x \in S : m >= x
  BY <1>1, <1>2, LargestNat
<1>4. Max(S) \in S /\ \A x \in S : Max(S) >= x
  BY <1>3 DEF Max
<1>5. ScopeOf(s, v) = Max(S)
  BY DEF ScopeOf
<1>6. \A x \in S : x \in Int
  BY <1>2
<1> QED
  BY <1>4, <1>5, <1>6

\* Another name is found where it was.
LEMMA BoundElsewhere ==
  ASSUME NEW s, IsSeq(s), NEW v, NEW o, NEW e, e # v, Visible(s, e)
  PROVE  OffsetOf(Bind(s, v, o), e) = OffsetOf(s, e)
<1> DEFINE r == Bind(s, v, o)
           n == Len(s)
<1>1. s # <<>>
  <2>1. DOMAIN s # {}
    BY DEF Visible
  <2>2. Len(s) # 0
    <3>1. DOMAIN s = 1..Len(s)
      BY SeqFacts
    <3> QED
      BY <2>1, <3>1
  <2> QED
    BY <2>2, SeqFacts
<1>2. /\ n \in Nat /\ DOMAIN s = 1..n /\ DOMAIN r = 1..n
      /\ \A i \in 1..n : i # n => r[i] = s[i]
      /\ DOMAIN r[n] = DOMAIN s[n] \cup {v}
      /\ \A w \in DOMAIN s[n] : w # v => r[n][w] = s[n][w]
  BY <1>1, BindFacts
<1> HIDE DEF r, n
<1>3. \A i \in 1..n : e \in DOMAIN r[i] <=> e \in DOMAIN s[i]
  BY <1>2
<1>4. {i \in DOMAIN r : e \in DOMAIN r[i]} = {i \in DOMAIN s : e \in DOMAIN s[i]}
  BY <1>2, <1>3
<1>5. ScopeOf(r, e) = ScopeOf(s, e)
  BY <1>4 DEF ScopeOf
<1>6. ScopeOf(s, e) \in 1..n /\ e \in DOMAIN s[ScopeOf(s, e)]
  BY <1>2, ScopeIs
<1>7. \A i \in 1..n : \A w \in DOMAIN s[i] : w # v => r[i][w] = s[i][w]
  BY <1>2
<1>8. r[ScopeOf(s, e)][e] = s[ScopeOf(s, e)][e]
  BY <1>6, <1>7
<1> QED
  BY <1>5, <1>8 DEF OffsetOf, r

\* The scopes around a function that names no global.
LEMMA FirstScopes ==
  ASSUME Globals = {}, Conditional = FALSE
  PROVE  ScopesOK(<<GlobalScope, ParamScope>>)
<1> DEFINE s == <<GlobalScope, ParamScope>>
<1>1. s \in Seq({GlobalScope, ParamScope}) /\ Len(s) = 2 /\ s[1] = GlobalScope /\ s[2] = ParamScope
      /\ DOMAIN s = 1..2
  OBVIOUS
<1>2. DOMAIN GlobalScope = {}
  BY DEF GlobalScope
<1> HIDE DEF s
<1>3. ASSUME NEW v \in {Params[i] : i \in DOMAIN Params}
      PROVE  \E i \in DOMAIN Params : Params[i] = v /\ ParamScope[v] = 4 + 2 * (i - 1)
                                      /\ ParamScope[v] \in Slots
  <2> DEFINE i == CHOOSE i \in DOMAIN Params : Params[i] = v
             p == Len(Params)
  <2>1. i \in DOMAIN Params /\ Params[i] = v
    OBVIOUS
  <2>2. i \in 1..p /\ p \in Nat
    BY <2>1, FrameAssumption
  <2>3. ParamScope[v] = 4 + 2 * (i - 1)
    BY DEF ParamScope
  <2>4. /\ Size \in Nat /\ Base \in Nat /\ MaxItems \in Nat \ {0}
        /\ Base + 4 + 2 * p < Size /\ Size % 2 = 0 /\ Base % 2 = 0
    BY SizeAssumption, StackAssumption, FrameAssumption
  <2> HIDE DEF i, p
  <2> DEFINE o == 4 + 2 * (i - 1)
  <2>5. o \in -(2 * MaxItems - 2)..(Size - Base - 2) /\ o >= 4 /\ o % 2 = 0
    BY <2>2, <2>4
  <2>6. o \in Slots
    BY <2>5 DEF Slots
  <2> QED
    BY <2>1, <2>3, <2>6
<1>4. DOMAIN ParamScope = {Params[i] : i \in DOMAIN Params}
  BY DEF ParamScope
<1>5. ASSUME NEW i \in DOMAIN s, NEW v \in DOMAIN s[i]
      PROVE  i = 2 /\ v \in DOMAIN ParamScope /\ s[i][v] = ParamScope[v]
  BY <1>1, <1>2, <1>5
<1>6. ASSUME NEW v \in DOMAIN ParamScope, NEW w \in DOMAIN ParamScope, ParamScope[v] = ParamScope[w]
      PROVE  v = w
  <2>1. PICK i \in DOMAIN Params : Params[i] = v /\ ParamScope[v] = 4 + 2 * (i - 1)
    BY <1>3, <1>4
  <2>2. PICK j \in DOMAIN Params : Params[j] = w /\ ParamScope[w] = 4 + 2 * (j - 1)
    BY <1>3, <1>4
  <2>3. i \in Int /\ j \in Int
    <3>1. DOMAIN Params = 1..Len(Params)
      BY FrameAssumption
    <3> QED
      BY <3>1
  <2>4. 4 + 2 * (i - 1) = 4 + 2 * (j - 1)
    BY <1>6, <2>1, <2>2
  <2>5. i = j
    BY <2>3, <2>4
  <2> QED
    BY <2>1, <2>2, <2>5
<1>7. Apart(s)
  BY <1>5, <1>6 DEF Apart
<1>8. \A i \in DOMAIN s : \A v \in DOMAIN s[i] : s[i][v] \in Slots
  BY <1>3, <1>4, <1>5
<1>9. Len(s) >= 2 /\ IsSeq(s)
  BY <1>1 DEF IsSeq
<1> QED
  BY <1>1, <1>7, <1>8, <1>9 DEF ScopesOK, s

-----------------------------------------------------------------------------
(* The parser extends the chain *)

\* The code read so far leads to the place behind the last item.
ReadChain == IsSeq(prog) /\ Chain(code, prog, Place(Pos, scopes), Idle)

\* The parts of a place.
LEMMA PlaceFacts ==
  ASSUME NEW i, NEW s
  PROVE  Place(i, s).at = i /\ Place(i, s).in = s
BY DEF Place

\* The place behind the last item.
LEMMA NewItem ==
  ASSUME ReadChain, NEW it, prog' = Append(prog, it)
  PROVE  /\ ScopesOK(scopes) /\ PlaceOK(Place(Pos, scopes)) /\ IsSeq(code)
         /\ IsSeq(prog') /\ Pos \in Nat \ {0} /\ Pos \in DOMAIN prog' /\ prog'[Pos] = it
         /\ Pos' = Pos + 1
         /\ \A s : ScopesOK(s) => PlaceOK(Place(Pos + 1, s))
         /\ Chain(code, prog', Place(Pos, scopes), Idle)
<1>1. /\ IsSeq(prog') /\ Len(prog) \in Nat /\ Len(prog') = Len(prog) + 1
      /\ DOMAIN prog' = 1..(Len(prog) + 1) /\ prog'[Len(prog) + 1] = it
  BY AppendFacts DEF ReadChain
<1>2. Pos \in Nat \ {0} /\ Pos \in DOMAIN prog' /\ prog'[Pos] = it /\ Pos' = Pos + 1
  BY <1>1 DEF Pos
<1>3. PlaceOK(Place(Pos, scopes)) /\ IsSeq(code)
  BY DEF ReadChain, Chain
<1>4. ScopesOK(scopes)
  BY <1>3, PlaceFacts DEF PlaceOK
<1>5. \A s : ScopesOK(s) => PlaceOK(Place(Pos + 1, s))
  BY <1>2, PlaceFacts DEF PlaceOK
<1>6. Chain(code, prog', Place(Pos, scopes), Idle)
  BY ChainMore DEF ReadChain
<1> QED
  BY <1>1, <1>2, <1>3, <1>4, <1>5, <1>6

\* An item of one piece.
LEMMA OnePieceChain ==
  ASSUME ReadChain, NEW it, NEW t, Read(it, At(t, Pos, scopes)),
         Finishes(t, prog', Place(Pos, scopes), Idle, Place(Pos + 1, scopes'))
  PROVE  ReadChain'
<1>1. prog' = Append(prog, it) /\ code' = code \o At(t, Pos, scopes)
  BY DEF Read
<1>2. IsSeq(prog') /\ Pos' = Pos + 1 /\ Chain(code, prog', Place(Pos, scopes), Idle)
  BY <1>1, NewItem
<1>3. Chain(code', prog', Place(Pos + 1, scopes'), Idle)
  BY <1>1, <1>2, PlaceFacts DEF Finishes
<1>4. Chain(code', prog', Place(Pos', scopes'), Idle)
  BY <1>2, <1>3
<1> QED
  BY <1>2, <1>4 DEF ReadChain, Place

\* An item of two pieces, the second behind it.
LEMMA TwoPieceChain ==
  ASSUME ReadChain, NEW it, NEW t, NEW u, NEW s,
         Read(it, At(t, Pos, scopes) \o At(u, Pos + 1, s)),
         Finishes(t, prog', Place(Pos, scopes), Idle, Place(Pos + 1, s)),
         Carries(u, Place(Pos + 1, s), Idle, Idle)
  PROVE  Chain(code', prog', Place(Pos', s), Idle) /\ IsSeq(prog')
<1> DEFINE a == At(t, Pos, scopes)
           b == At(u, Pos + 1, s)
<1>1. prog' = Append(prog, it) /\ code' = code \o (a \o b)
  BY DEF Read
<1>2. IsSeq(prog') /\ Pos' = Pos + 1 /\ Chain(code, prog', Place(Pos, scopes), Idle) /\ IsSeq(code)
  BY <1>1, NewItem
<1>3. Chain(code \o a, prog', Place(Pos + 1, s), Idle)
  BY <1>2, PlaceFacts DEF Finishes
<1>4. Chain((code \o a) \o b, prog', Place(Pos + 1, s), Idle)
  BY <1>3, PlaceFacts DEF Carries
<1>5. IsSeq(a) /\ IsSeq(b)
  BY AtSeq DEF Finishes, Carries
<1> HIDE DEF a, b
<1>6. code' = (code \o a) \o b
  BY <1>1, <1>2, <1>5, ConcatAssoc
<1> QED
  BY <1>2, <1>4, <1>6

\* A piece that comes back to its place.
LEMMA FinishAgain ==
  ASSUME NEW s, NEW t, NEW p, NEW q, NEW k, NEW y, Finishes(s, p, q, k, q),
         Finishes(t, p, q, Idle, y)
  PROVE  Finishes(s \o t, p, q, k, y)
<1>1. IsSeq(s) /\ IsSeq(t) /\ IsSeq(s \o t)
  BY ConcatFacts DEF Finishes
<1>2. ASSUME NEW c, Chain(c, p, q, k)
      PROVE  Chain(c \o At(s \o t, q.at, q.in), p, y, Idle)
  <2> DEFINE a == At(s, q.at, q.in)
             b == At(t, q.at, q.in)
  <2>1. Chain((c \o a) \o b, p, y, Idle)
    BY <1>2 DEF Finishes
  <2>2. At(s \o t, q.at, q.in) = a \o b
    BY <1>1, AtJoin
  <2>3. IsSeq(c) /\ IsSeq(a) /\ IsSeq(b)
    BY <1>1, <1>2, AtSeq DEF Chain
  <2> HIDE DEF a, b
  <2>4. c \o (a \o b) = (c \o a) \o b
    BY <2>3, ConcatAssoc
  <2> QED
    BY <2>1, <2>2, <2>4
<1> QED
  BY <1>1, <1>2 DEF Finishes

\* An instruction that tells nothing.
LEMMA CarryIdle ==
  ASSUME NEW x, NEW q, NEW k, PlaceOK(q), x.op \in Silent
  PROVE  Carries(<<x>>, q, k, Idle)
<1>1. Idle.hl = Nothing /\ Idle.de = Nothing /\ Idle.top = Nothing
  BY ToldFacts DEF Idle
<1>2. Goes1(x, q.in, k, Idle)
  BY <1>1 DEF Goes1, HLKnown, DEKnown, TopKnown
<1> QED
  BY <1>2, CarryOne

\* What may be used is found where it is.
LEMMA UsableFound ==
  ASSUME NEW e, Usable(e)
  PROVE  Found(scopes, scopes, e)
BY DEF Usable, Found

\* A declaration.
LEMMA DeclareChain ==
  ASSUME ReadInv, ReadChain, Len(scopes) >= 3, Declare
  PROVE  ReadChain' /\ ScopesOK(scopes') /\ Len(scopes') = Len(scopes)
<1> DEFINE o == off - 2
           q == Place(Pos, scopes)
           y == Place(Pos + 1, scopes')
<1>1. Room
  BY DEF Declare
<1>2. PICK d \in {x \in Simple : x.k = "decl"} :
        /\ d.e = "none" \/ (Usable(d.e) /\ d.e # d.v)
        /\ scopes' = Bind(scopes, d.v, o)
        /\ Read(d, At(<<I("alloc", SlotSize)>>
                      \o (IF d.e = "none" THEN <<>>
                          ELSE Eval(Bind(scopes, d.v, o), d.e) \o InitStore(o)),
                      Pos, scopes))
  BY DEF Declare, SlotSize
<1>3. /\ ScopesOK(scopes) /\ PlaceOK(q) /\ Pos \in DOMAIN prog' /\ prog'[Pos] = d
      /\ \A s : ScopesOK(s) => PlaceOK(Place(Pos + 1, s))
  <2>1. prog' = Append(prog, d)
    BY <1>2 DEF Read
  <2> QED
    BY <2>1, NewItem
<1>4. o \in Slots
  BY <1>1, NewSlot
<1>5. \A i \in DOMAIN scopes : \A w \in DOMAIN scopes[i] : scopes[i][w] # o
  <2>1. off \in Int
    BY DEF ReadInv
  <2>2. \A i \in DOMAIN scopes : \A w \in DOMAIN scopes[i] :
          scopes[i][w] \in Int /\ scopes[i][w] >= off
    BY DEF ReadInv, ScopesAt, Slots
  <2>3. ~(o >= off)
    BY <2>1
  <2> HIDE DEF o
  <2> QED
    BY <2>2, <2>3
<1> HIDE DEF o
<1>6. ScopesOK(scopes')
  BY <1>2, <1>3, <1>4, <1>5, ScopesBound
<1>7. IsSeq(scopes) /\ scopes # <<>>
  <2>1. IsSeq(scopes) /\ Len(scopes) >= 2
    BY <1>3 DEF ScopesOK
  <2>2. Len(scopes) # 0
    BY <2>1
  <2> QED
    BY <2>1, <2>2, SeqFacts
<1>8. Len(scopes') = Len(scopes)
  BY <1>2, <1>7, BindFacts
<1>9. d.e # "none" => Found(Bind(scopes, d.v, o), scopes, d.e)
  BY <1>2, <1>7, BoundElsewhere DEF Usable, Found
<1>10. q.at = Pos /\ q.in = scopes /\ y.at = Pos + 1 /\ y.in = scopes' /\ PlaceOK(y)
  BY <1>3, <1>6, PlaceFacts
<1> HIDE DEF q, y
<1>11. Finishes(<<I("alloc", SlotSize)>>
                \o (IF d.e = "none" THEN <<>>
                    ELSE Eval(Bind(scopes, d.v, o), d.e) \o InitStore(o)), prog', q, Idle, y)
  <2>1. d.k = "decl"
    OBVIOUS
  <2> QED
    BY <1>2, <1>3, <1>4, <1>9, <1>10, <2>1, DeclareFinishes
<1>12. ReadChain'
  BY <1>2, <1>11, OnePieceChain DEF q, y
<1> QED
  BY <1>6, <1>8, <1>12

\* An assignment.
LEMMA AssignChain ==
  ASSUME ReadChain, Assign, scopes' = scopes
  PROVE  ReadChain'
<1> DEFINE q == Place(Pos, scopes)
           y == Place(Pos + 1, scopes')
<1>1. PICK d \in {x \in Simple : x.k = "set"} :
        /\ Visible(scopes, d.v) /\ Usable(d.e)
        /\ Read(d, At(AssignTo(OffsetOf(scopes, d.v), Eval(scopes, d.e)), Pos, scopes))
  BY DEF Assign
<1>2. /\ PlaceOK(q) /\ Pos \in DOMAIN prog' /\ prog'[Pos] = d /\ PlaceOK(y)
  <2>1. prog' = Append(prog, d)
    BY <1>1 DEF Read
  <2> QED
    BY <2>1, NewItem
<1>3. q.at = Pos /\ q.in = scopes /\ y.at = Pos + 1 /\ y.in = scopes
  BY PlaceFacts
<1> DEFINE o == OffsetOf(scopes, d.v)
<1> HIDE DEF q, y
<1>4. \A x, k : StoresTo(x, k, o, d.e) => Completes(prog'[q.at], x, q.in, k, y.in)
  BY <1>1, <1>2, <1>3 DEF Completes
<1>5. Found(scopes, q.in, d.e)
  BY <1>1, <1>3, UsableFound
<1> HIDE DEF o
<1>6. Finishes(AssignTo(o, Eval(scopes, d.e)), prog', q, Idle, y)
  BY <1>2, <1>3, <1>4, <1>5, AssignFinishes
<1> QED
  BY <1>1, <1>6, OnePieceChain DEF q, y, o

\* A call.
LEMMA CallChain ==
  ASSUME ReadChain, Call, scopes' = scopes
  PROVE  ReadChain'
<1> DEFINE q == Place(Pos, scopes)
           y == Place(Pos + 1, scopes)
           x1 == I("push", 0)
           x2 == I("call", 0)
           x3 == I("pop", 0)
<1>1. PICK d \in {x \in Simple : x.k = "call"} :
        /\ Usable(d.v)
        /\ Read(d, At(Eval(scopes, d.v) \o <<x1, x2>>, Pos, scopes)
                     \o At(<<x3>>, Pos + 1, scopes))
  BY DEF Call
<1>2. /\ PlaceOK(q) /\ Pos \in DOMAIN prog' /\ prog'[Pos] = d /\ PlaceOK(y)
  <2>1. prog' = Append(prog, d)
    BY <1>1 DEF Read
  <2> QED
    BY <2>1, NewItem
<1>3. q.at = Pos /\ q.in = scopes /\ y.at = Pos + 1 /\ y.in = scopes
  BY PlaceFacts
<1>4. x1.op = "push" /\ x2.op = "call" /\ x3.op = "pop"
  BY DEF I
<1> DEFINE e == d.v
           v == Eval(scopes, e)
           k1 == Told(ValueOf(e), Nothing, Nothing)
           k2 == Told(Nothing, Nothing, ValueOf(e))
<1>5. /\ k1.hl = ValueOf(e) /\ k2.hl = Nothing /\ k2.de = Nothing /\ k2.top = ValueOf(e)
  BY ToldFacts
<1>6. Found(scopes, q.in, e)
  BY <1>1, <1>3, UsableFound
<1> HIDE DEF q, y
<1>7. Carries(v, q, Idle, k1)
  BY <1>2, <1>6, EvalCarries DEF Idle
<1> HIDE DEF x1, x2, x3, v, k1, k2
<1>8. Carries(<<x1>>, q, k1, k2)
  BY <1>2, <1>4, <1>5, CarryOne DEF Goes1, HLKnown, DEKnown, TopKnown, Silent
<1>9. Finishes(<<x2>>, prog', q, k2, y)
  <2>1. Completes(prog'[q.at], x2, q.in, k2, y.in)
    BY <1>2, <1>3, <1>4, <1>5 DEF Completes
  <2> QED
    BY <1>2, <1>3, <2>1, FinishOne
<1>10. Finishes(v \o <<x1, x2>>, prog', q, Idle, y)
  BY <1>7, <1>8, <1>9, FinishTwo, FinishJoin
<1>11. Carries(<<x3>>, y, Idle, Idle)
  BY <1>2, <1>4, CarryIdle DEF Silent
<1>12. Chain(code', prog', Place(Pos', scopes), Idle) /\ IsSeq(prog')
  BY <1>1, <1>10, <1>11, TwoPieceChain DEF q, y, v
<1> QED
  BY <1>12 DEF ReadChain, Place

\* A return.
LEMMA ReturnChain ==
  ASSUME ReadChain, Return, scopes' = scopes
  PROVE  ReadChain'
<1> DEFINE q == Place(Pos, scopes)
           y == Place(Pos + 1, scopes')
           x == I("jp", ExitLabel)
<1>1. PICK d \in {z \in Simple : z.k = "ret"} :
        /\ d.e = "none" \/ Usable(d.e)
        /\ Read(d, At((IF d.e = "none" THEN <<>> ELSE Eval(scopes, d.e)) \o <<x>>, Pos, scopes))
  BY DEF Return
<1>2. /\ PlaceOK(q) /\ Pos \in DOMAIN prog' /\ prog'[Pos] = d /\ PlaceOK(y)
  <2>1. prog' = Append(prog, d)
    BY <1>1 DEF Read
  <2> QED
    BY <2>1, NewItem
<1>3. q.at = Pos /\ q.in = scopes /\ y.at = Pos + 1
  BY PlaceFacts
<1>4. x.op = "jp"
  BY DEF I
<1> DEFINE e == d.e
           v == Eval(scopes, e)
           k1 == Told(ValueOf(e), Nothing, Nothing)
<1>5. k1.hl = ValueOf(e)
  BY ToldFacts
<1> HIDE DEF q, y, x, v, k1
<1>6. CASE e = "none"
  <2>1. Finishes(<<x>>, prog', q, Idle, y)
    BY <1>2, <1>3, <1>4, <1>6, FinishJump DEF Leaves
  <2>2. <<>> \o <<x>> = <<x>>
    OBVIOUS
  <2> QED
    BY <1>1, <1>6, <2>1, <2>2, OnePieceChain DEF q, y
<1>7. CASE e # "none"
  <2>1. Found(scopes, q.in, e)
    BY <1>1, <1>3, <1>7, UsableFound
  <2>2. Carries(v, q, Idle, k1)
    BY <1>2, <2>1, EvalCarries DEF Idle, v, k1
  <2>3. Finishes(<<x>>, prog', q, k1, y)
    BY <1>2, <1>3, <1>4, <1>5, FinishJump DEF Leaves
  <2>4. Finishes(v \o <<x>>, prog', q, Idle, y)
    BY <2>2, <2>3, FinishJoin
  <2> QED
    BY <1>1, <1>7, <2>4, OnePieceChain DEF q, y, v
<1> QED
  BY <1>6, <1>7

\* The mark of an item.
LEMMA MarkFinishes ==
  ASSUME NEW p, NEW q, NEW y, PlaceOK(y), q.at \in DOMAIN p, y.at = q.at + 1,
         \A x : x.op = "mark" => Completes(p[q.at], x, q.in, Idle, y.in)
  PROVE  Finishes(Mark, p, q, Idle, y)
<1>1. I("mark", 0).op = "mark"
  BY DEF I
<1>2. Completes(p[q.at], I("mark", 0), q.in, Idle, y.in)
  BY <1>1
<1> QED
  BY <1>2, FinishOne DEF Mark

\* An item that is only a mark.
LEMMA MarkChain ==
  ASSUME ReadChain, NEW it, Read(it, At(Mark, Pos, scopes)), ScopesOK(scopes'),
         \A x : x.op = "mark" => Completes(it, x, scopes, Idle, scopes')
  PROVE  ReadChain'
<1> DEFINE q == Place(Pos, scopes)
           y == Place(Pos + 1, scopes')
<1>1. Pos \in DOMAIN prog' /\ prog'[Pos] = it /\ PlaceOK(y)
  <2>1. prog' = Append(prog, it)
    BY DEF Read
  <2> QED
    BY <2>1, NewItem
<1>2. q.at = Pos /\ q.in = scopes /\ y.at = Pos + 1 /\ y.in = scopes'
  BY PlaceFacts
<1> HIDE DEF q, y
<1>3. Finishes(Mark, prog', q, Idle, y)
  BY <1>1, <1>2, MarkFinishes
<1> QED
  BY <1>3, OnePieceChain DEF q, y

\* An empty statement.
LEMMA EmptyChain ==
  ASSUME ReadChain, Empty, scopes' = scopes
  PROVE  ReadChain'
<1> DEFINE it == Item("empty", "none", "none")
<1>1. it.k = "empty" /\ Read(it, At(Mark, Pos, scopes))
  BY DEF Empty, Item
<1>2. ScopesOK(scopes)
  BY PlaceFacts DEF ReadChain, Chain, PlaceOK
<1> HIDE DEF it
<1>3. \A x : x.op = "mark" => Completes(it, x, scopes, Idle, scopes')
  BY <1>1 DEF Completes
<1> QED
  BY <1>1, <1>2, <1>3, MarkChain

\* A block opens: a new scope, with nothing in it.
LEMMA OpenBlockChain ==
  ASSUME ReadChain, OpenBlock
  PROVE  ReadChain' /\ ScopesOK(scopes')
<1> DEFINE it == Item("{", "none", "none")
<1>1. it.k = "{" /\ Read(it, At(Mark, Pos, scopes)) /\ scopes' = Append(scopes, <<>>)
  BY DEF OpenBlock, Item
<1>2. ScopesOK(scopes')
  <2>1. ScopesOK(scopes)
    BY PlaceFacts DEF ReadChain, Chain, PlaceOK
  <2> QED
    BY <1>1, <2>1, ScopesMore
<1> HIDE DEF it
<1>3. \A x : x.op = "mark" => Completes(it, x, scopes, Idle, scopes')
  BY <1>1 DEF Completes
<1> QED
  BY <1>1, <1>2, <1>3, MarkChain

\* A block closes: its scope is gone.
LEMMA CloseBlockChain ==
  ASSUME ReadChain, Len(scopes) >= 3, CloseBlock
  PROVE  ReadChain' /\ ScopesOK(scopes')
<1> DEFINE it == Item("}", "none", "none")
<1>1. /\ it.k = "}" /\ Read(it, At(Mark, Pos, scopes))
      /\ scopes' = SubSeq(scopes, 1, Len(scopes) - 1)
  BY DEF CloseBlock, BlockEnd, Item
<1>2. ScopesOK(scopes')
  <2>1. ScopesOK(scopes)
    BY PlaceFacts DEF ReadChain, Chain, PlaceOK
  <2>2. Len(scopes) \in Nat
    BY <2>1, SeqFacts DEF ScopesOK
  <2>3. Len(scopes) - 1 \in 2..Len(scopes)
    BY <2>2
  <2> QED
    BY <1>1, <2>1, <2>3, ScopesLess
<1> HIDE DEF it
<1>3. \A x : x.op = "mark" => Completes(it, x, scopes, Idle, scopes')
  BY <1>1 DEF Completes
<1> QED
  BY <1>1, <1>2, <1>3, MarkChain

\* The body closes: the exit is behind it, where only the parameters are left.
Ended == Chain(code, prog, Place(Pos, <<GlobalScope, ParamScope>>), Idle) /\ IsSeq(prog)

\* The brace of the body: the chain has the epilogue at its end.
LEMMA CloseBodyChain ==
  ASSUME ReadChain, Len(scopes) = 3, CloseBody
  PROVE  Ended'
<1> DEFINE it == Item("}", "none", "none")
           s == SubSeq(scopes, 1, 2)
           q == Place(Pos, scopes)
           y == Place(Pos + 1, s)
           t == Epilogue(ExitLabel)
<1>1. it.k = "}" /\ Read(it, At(Mark, Pos, scopes) \o At(t, Pos + 1, s))
  BY DEF CloseBody, Item
<1>2. prog' = Append(prog, it)
  BY <1>1 DEF Read
<1>3. Pos \in DOMAIN prog' /\ prog'[Pos] = it /\ ScopesOK(scopes) /\ Pos' = Pos + 1
  BY <1>2, NewItem
<1>4. ScopesOK(s)
  <2>1. 2 \in 2..Len(scopes)
    OBVIOUS
  <2> QED
    BY <1>3, <2>1, ScopesLess
<1>5. PlaceOK(y)
  BY <1>2, <1>4, NewItem
<1>6. s = <<GlobalScope, ParamScope>>
  <2>1. IsSeq(s) /\ Len(s) = 2 /\ s[1] = GlobalScope /\ s[2] = ParamScope
    <3>1. 2 \in 0..Len(scopes)
      OBVIOUS
    <3>2. Len(s) = 2
      BY <1>3, <3>1, SubSeqFacts DEF ScopesOK
    <3> QED
      BY <1>4, <3>2 DEF ScopesOK
  <2>2. /\ <<GlobalScope, ParamScope>> \in Seq({GlobalScope, ParamScope})
        /\ Len(<<GlobalScope, ParamScope>>) = 2
    OBVIOUS
  <2>3. IsSeq(<<GlobalScope, ParamScope>>)
    BY <2>2 DEF IsSeq
  <2> HIDE DEF s
  <2>4. \A i \in 1..Len(s) : s[i] = <<GlobalScope, ParamScope>>[i]
    BY <2>1
  <2> QED
    BY <2>1, <2>2, <2>3, <2>4, IsSeqEqual
<1>8. SubSeq(scopes, 1, Len(scopes) - 1) = s
  OBVIOUS
<1> HIDE DEF s
<1>7. /\ q.at = Pos /\ q.in = scopes /\ y.at = Pos + 1 /\ y.in = s
  BY PlaceFacts
<1> HIDE DEF it, q, y
<1>9. \A x : x.op = "mark" => Completes(it, x, scopes, Idle, s)
  BY <1>1, <1>8 DEF Completes
<1>10. Finishes(Mark, prog', q, Idle, y)
  BY <1>3, <1>5, <1>7, <1>9, MarkFinishes
<1>11. Carries(t, y, Idle, Idle)
  <2> DEFINE a == I("label", ExitLabel)
             b == I("ldsp", 0)
             c == I("popix", 0)
             d == I("ret", 0)
  <2>1. /\ a.op \in Silent /\ b.op \in Silent /\ c.op \in Silent /\ d.op \in Silent
        /\ t = <<a, b, c, d>>
    BY DEF I, Silent, Epilogue
  <2> HIDE DEF a, b, c, d, t
  <2>2. /\ Carries(<<a>>, y, Idle, Idle) /\ Carries(<<b>>, y, Idle, Idle)
        /\ Carries(<<c>>, y, Idle, Idle) /\ Carries(<<d>>, y, Idle, Idle)
    BY <1>5, <2>1, CarryIdle
  <2>3. Carries(<<a, b>>, y, Idle, Idle) /\ Carries(<<c, d>>, y, Idle, Idle)
    BY <2>2, CarryTwo
  <2>4. Carries(<<a, b>> \o <<c, d>>, y, Idle, Idle)
    BY <2>3, CarryJoin
  <2>5. t = <<a, b>> \o <<c, d>>
    BY <2>1, FourJoined
  <2> QED
    BY <2>4, <2>5
<1> HIDE DEF t
<1>12. Chain(code', prog', Place(Pos', s), Idle) /\ IsSeq(prog')
  BY <1>1, <1>10, <1>11, TwoPieceChain DEF q, y
<1> QED
  BY <1>6, <1>12 DEF Ended, Place, GlobalScope, ParamScope

\* The test of an if or a while.
LEMMA TestFinishes ==
  ASSUME NEW c, NEW n, NEW p, NEW q, NEW y, PlaceOK(q), PlaceOK(y), Found(scopes, q.in, c),
         q.at \in DOMAIN p, y.at = q.at + 1, y.in = q.in,
         p[q.at].k \in {"if", "while"}, p[q.at].v = c
  PROVE  Finishes(Eval(scopes, c) \o <<I("jz", n)>>, p, q, Idle, y)
<1> DEFINE v == Eval(scopes, c)
           k == Told(ValueOf(c), Nothing, Nothing)
           x == I("jz", n)
<1>1. k.hl = ValueOf(c) /\ x.op = "jz"
  BY ToldFacts DEF I
<1>2. Carries(v, q, Idle, k)
  BY EvalCarries DEF Idle
<1> HIDE DEF v, k, x
<1>3. Finishes(<<x>>, p, q, k, y)
  <2>1. Completes(p[q.at], x, q.in, k, y.in)
    BY <1>1 DEF Completes
  <2> QED
    BY <2>1, FinishOne
<1>4. Finishes(v \o <<x>>, p, q, Idle, y)
  BY <1>2, <1>3, FinishJoin
<1> QED
  BY <1>4 DEF v, x

\* A condition, with its label before it, and the jump behind it.
LEMMA WhileChain ==
  ASSUME ReadChain, While
  PROVE  ReadChain'
<1> DEFINE q == Place(Pos, scopes)
           y == Place(Pos + 1, scopes')
           b == I("label", TwoLabels.l1)
           j == I("jz", TwoLabels.l2)
<1>1. PICK c \in {x \in Conds : Usable(x)} :
        Read(Item("while", c, "none"), At(<<b>> \o Eval(scopes, c) \o <<j>>, Pos, scopes))
  BY DEF While
<1> DEFINE it == Item("while", c, "none")
           v == Eval(scopes, c)
<1>2. it.k = "while" /\ it.v = c /\ scopes' = scopes
  BY DEF Item, While
<1> HIDE DEF it
<1>3. Pos \in DOMAIN prog' /\ prog'[Pos] = it /\ PlaceOK(q) /\ PlaceOK(y)
  <2>1. prog' = Append(prog, it)
    BY <1>1 DEF Read, it
  <2> QED
    BY <1>2, <2>1, NewItem
<1>4. q.at = Pos /\ q.in = scopes /\ y.at = Pos + 1 /\ y.in = scopes
  BY <1>2, PlaceFacts
<1> HIDE DEF q, y
<1>5. Found(scopes, q.in, c)
  BY <1>4, UsableFound
<1>6. Finishes(v \o <<j>>, prog', q, Idle, y)
  BY <1>2, <1>3, <1>4, <1>5, TestFinishes
<1>7. Carries(<<b>>, q, Idle, Idle)
  <2>1. b.op \in Silent
    BY DEF I, Silent
  <2> QED
    BY <1>3, <2>1, CarryIdle
<1>8. Finishes(<<b>> \o (v \o <<j>>), prog', q, Idle, y)
  BY <1>6, <1>7, FinishJoin
<1>9. <<b>> \o (v \o <<j>>) = <<b>> \o v \o <<j>>
  <2>1. IsSeq(<<b>>) /\ IsSeq(<<j>>) /\ IsSeq(v)
    BY OneSeq, EvalPiece DEF Piece
  <2> HIDE DEF b, j, v
  <2> QED
    BY <2>1, ConcatAssoc
<1> QED
  BY <1>1, <1>8, <1>9, OnePieceChain DEF q, y, it

\* The head of an if.
LEMMA IfChain ==
  ASSUME ReadChain, If
  PROVE  ReadChain'
<1> DEFINE q == Place(Pos, scopes)
           y == Place(Pos + 1, scopes')
           j == I("jz", TwoLabels.l1)
<1>1. PICK c \in {x \in Conds : Usable(x)} :
        Read(Item("if", c, "none"), At(Eval(scopes, c) \o <<j>>, Pos, scopes))
  BY DEF If
<1> DEFINE it == Item("if", c, "none")
           v == Eval(scopes, c)
<1>2. it.k = "if" /\ it.v = c /\ scopes' = scopes
  BY DEF Item, If
<1> HIDE DEF it
<1>3. Pos \in DOMAIN prog' /\ prog'[Pos] = it /\ PlaceOK(q) /\ PlaceOK(y)
  <2>1. prog' = Append(prog, it)
    BY <1>1 DEF Read, it
  <2> QED
    BY <1>2, <2>1, NewItem
<1>4. q.at = Pos /\ q.in = scopes /\ y.at = Pos + 1 /\ y.in = scopes
  BY <1>2, PlaceFacts
<1> HIDE DEF q, y
<1>5. Found(scopes, q.in, c)
  BY <1>4, UsableFound
<1>6. Finishes(v \o <<j>>, prog', q, Idle, y)
  BY <1>2, <1>3, <1>4, <1>5, TestFinishes
<1> QED
  BY <1>1, <1>6, OnePieceChain DEF q, y, it

\* The end of a loop or of a branch: a jump, and behind it a label.
LEMMA JumpLabelChain ==
  ASSUME ReadChain, scopes' = scopes, NEW it, it.k # "ret", NEW l, NEW n,
         Read(it, At(<<I("jp", l)>>, Pos, scopes) \o At(<<I("label", n)>>, Pos + 1, scopes))
  PROVE  ReadChain'
<1> DEFINE q == Place(Pos, scopes)
           y == Place(Pos + 1, scopes)
           j == I("jp", l)
           b == I("label", n)
<1>1. Pos \in DOMAIN prog' /\ prog'[Pos] = it /\ PlaceOK(q) /\ PlaceOK(y)
  <2>1. prog' = Append(prog, it)
    BY DEF Read
  <2> QED
    BY <2>1, NewItem
<1>2. q.at = Pos /\ q.in = scopes /\ y.at = Pos + 1
  BY PlaceFacts
<1>3. j.op = "jp" /\ b.op \in Silent
  BY DEF I, Silent
<1> HIDE DEF q, y, j, b
<1>4. Finishes(<<j>>, prog', q, Idle, y)
  BY <1>1, <1>2, <1>3, FinishJump DEF Leaves
<1>5. Carries(<<b>>, y, Idle, Idle)
  BY <1>1, <1>3, CarryIdle
<1>6. Chain(code', prog', Place(Pos', scopes), Idle) /\ IsSeq(prog')
  BY <1>4, <1>5, TwoPieceChain DEF q, y, j, b
<1> QED
  BY <1>6 DEF ReadChain, Place

\* The end of a while: back to its test.
LEMMA EndWhileChain ==
  ASSUME ReadChain, EndWhile
  PROVE  ReadChain'
<1>1. Item("od", "none", "none").k # "ret"
  BY DEF Item
<1> QED
  BY <1>1, JumpLabelChain DEF EndWhile

\* The else of an if.
LEMMA EndThenElseChain ==
  ASSUME ReadChain, EndThenElse
  PROVE  ReadChain'
<1>1. Item("else", "none", "none").k # "ret"
  BY DEF Item
<1> QED
  BY <1>1, JumpLabelChain DEF EndThenElse, SkipElse

\* The end of an if without an else.
LEMMA EndThenChain ==
  ASSUME ReadChain, EndThen
  PROVE  ReadChain'
<1> DEFINE it == Item("fi", "none", "none")
           q == Place(Pos, scopes)
           y == Place(Pos + 1, scopes')
           j == I("jp", Top.l2)
           a == I("label", Top.l1)
           b == I("label", Top.l2)
<1>1. /\ it.k = "fi" /\ scopes' = scopes
      /\ Read(it, At(<<j>> \o <<a, b>>, Pos, scopes))
  BY DEF Item, EndThen, SkipElse
<1>2. Pos \in DOMAIN prog' /\ prog'[Pos] = it /\ PlaceOK(q) /\ PlaceOK(y)
  <2>1. prog' = Append(prog, it)
    BY <1>1 DEF Read
  <2> QED
    BY <1>1, <2>1, NewItem
<1>3. q.at = Pos /\ q.in = scopes /\ y.at = Pos + 1 /\ y.in = scopes
  BY <1>1, PlaceFacts
<1>4. j.op = "jp" /\ a.op \in Silent /\ b.op = "label"
  BY DEF I, Silent
<1> HIDE DEF it, q, y, j, a, b
<1>5. Finishes(<<j>>, prog', q, Idle, q)
  BY <1>1, <1>2, <1>3, <1>4, FinishJump DEF Leaves
<1>6. Finishes(<<a, b>>, prog', q, Idle, y)
  <2>1. Carries(<<a>>, q, Idle, Idle)
    BY <1>2, <1>4, CarryIdle
  <2>2. Completes(prog'[q.at], b, q.in, Idle, y.in)
    BY <1>1, <1>2, <1>3, <1>4 DEF Completes
  <2>3. Finishes(<<b>>, prog', q, Idle, y)
    BY <1>2, <1>3, <2>2, FinishOne
  <2> QED
    BY <2>1, <2>3, FinishTwo
<1>7. Finishes(<<j>> \o <<a, b>>, prog', q, Idle, y)
  BY <1>5, <1>6, FinishAgain
<1> QED
  BY <1>1, <1>7, OnePieceChain DEF q, y

\* The end of an else branch.
LEMMA EndElseChain ==
  ASSUME ReadChain, EndElse
  PROVE  ReadChain'
<1> DEFINE it == Item("fi", "none", "none")
           q == Place(Pos, scopes)
           y == Place(Pos + 1, scopes')
           b == I("label", Top.l2)
<1>1. it.k = "fi" /\ scopes' = scopes /\ Read(it, At(<<b>>, Pos, scopes))
  BY DEF Item, EndElse
<1>2. Pos \in DOMAIN prog' /\ prog'[Pos] = it /\ PlaceOK(y)
  <2>1. prog' = Append(prog, it)
    BY <1>1 DEF Read
  <2> QED
    BY <1>1, <2>1, NewItem
<1>3. q.at = Pos /\ q.in = scopes /\ y.at = Pos + 1 /\ y.in = scopes
  BY <1>1, PlaceFacts
<1>4. b.op = "label"
  BY DEF I
<1> HIDE DEF it, q, y, b
<1>5. Completes(prog'[q.at], b, q.in, Idle, y.in)
  BY <1>1, <1>2, <1>3, <1>4 DEF Completes
<1>6. Finishes(<<b>>, prog', q, Idle, y)
  BY <1>2, <1>3, <1>5, FinishOne
<1> QED
  BY <1>1, <1>6, OnePieceChain DEF q, y

\* An assignment, a call, a return or an empty statement.
LEMMA SimpleStatementChain ==
  ASSUME ReadChain, SimpleStatement
  PROVE  ReadChain'
<1>1. scopes' = scopes /\ (Assign \/ Call \/ Return \/ Empty)
  BY DEF SimpleStatement
<1> QED
  BY <1>1, AssignChain, CallChain, ReturnChain, EmptyChain

\* Three instructions are two and one.
LEMMA ThreeAppended ==
  ASSUME NEW a, NEW b, NEW c
  PROVE  <<a, b, c>> = Append(<<a, b>>, c)
OBVIOUS

\* The function of no item yet.
LEMMA InitChain ==
  ASSUME Flat, Init
  PROVE  ReadChain /\ Len(scopes) = 3
<1> DEFINE it == Item("{", "none", "none")
           s == <<GlobalScope, ParamScope>>
           q == Place(1, s)
           y == Place(2, scopes)
<1>1. /\ it.k = "{" /\ prog = <<it>>
      /\ code = At(Prologue \o Mark, 1, s)
      /\ scopes = <<GlobalScope, ParamScope, <<>>>>
  BY DEF Init, Item
<1>2. scopes = Append(s, <<>>)
  <2> DEFINE e == <<>>
  <2>1. scopes = <<GlobalScope, ParamScope, e>>
    BY <1>1
  <2> HIDE DEF e
  <2>2. scopes = Append(s, e)
    BY <2>1, ThreeAppended
  <2> QED
    BY <2>2 DEF e
<1>3. Len(prog) = 1 /\ 1 \in DOMAIN prog /\ prog[1] = it /\ IsSeq(prog) /\ Pos = 2
  <2> HIDE DEF it
  <2>1. IsSeq(<<it>>) /\ Len(<<it>>) = 1 /\ 1 \in DOMAIN <<it>> /\ <<it>>[1] = it
    BY OneSeq
  <2>2. prog = <<it>>
    BY <1>1
  <2>3. IsSeq(prog) /\ Len(prog) = 1 /\ 1 \in DOMAIN prog /\ prog[1] = it
    BY <2>1, <2>2
  <2> QED
    BY <2>3 DEF Pos
<1>4. ScopesOK(s) /\ ScopesOK(scopes) /\ Len(scopes) = 3
  <2>1. Globals = {} /\ Conditional = FALSE
    BY DEF Flat
  <2>2. ScopesOK(s)
    BY <2>1, FirstScopes
  <2>3. Len(scopes) = 3
    BY <1>1
  <2> HIDE DEF s
  <2> QED
    BY <1>2, <2>2, <2>3, ScopesMore
<1>5. q.at = 1 /\ q.in = s /\ y.at = 2 /\ y.in = scopes
  BY PlaceFacts
<1> HIDE DEF q, y, it
<1>6. PlaceOK(q) /\ PlaceOK(y) /\ Begins(q)
  BY <1>4, <1>5 DEF PlaceOK, Begins
<1> HIDE DEF s
<1>7. Chain(<<>>, prog, q, Idle)
  <2> DEFINE M == [j \in {1} |-> Idle]
  <2>1. Len(<<>>) = 0 /\ <<>> \in Seq({})
    OBVIOUS
  <2>2. M[1] = Idle /\ M[Len(<<>>) + 1] = Idle
    BY <2>1
  <2>3. 1..Len(<<>>) = {}
    BY <2>1
  <2> HIDE DEF M
  <2>4. \E K : K[1] = Idle /\ K[Len(<<>>) + 1] = Idle
    BY <2>2
  <2> QED
    BY <1>6, <2>1, <2>3, <2>4 DEF Chain, IsSeq
<1>8. Carries(Prologue, q, Idle, Idle)
  <2> DEFINE a == I("pushix", 0)
             b == I("ldix", 0)
  <2>1. a.op \in Silent /\ b.op \in Silent
    BY DEF I, Silent
  <2> HIDE DEF a, b
  <2>2. Carries(<<a>>, q, Idle, Idle) /\ Carries(<<b>>, q, Idle, Idle)
    BY <1>6, <2>1, CarryIdle
  <2>3. Carries(<<a, b>>, q, Idle, Idle)
    BY <2>2, CarryTwo
  <2> QED
    BY <2>3 DEF a, b, Prologue
<1>9. Finishes(Mark, prog, q, Idle, y)
  <2>1. \A x : x.op = "mark" => Completes(prog[q.at], x, q.in, Idle, y.in)
    BY <1>1, <1>2, <1>3, <1>5 DEF Completes
  <2>2. q.at \in DOMAIN prog /\ y.at = q.at + 1
    BY <1>3, <1>5
  <2> QED
    BY <1>6, <2>1, <2>2, MarkFinishes
<1> DEFINE t == Prologue \o Mark
<1>10. Finishes(t, prog, q, Idle, y)
  BY <1>8, <1>9, FinishJoin
<1> HIDE DEF t
<1>11. Chain(<<>> \o At(t, q.at, q.in), prog, y, Idle)
  BY <1>7, <1>10 DEF Finishes
<1>12. <<>> \o At(t, q.at, q.in) = code
  <2>1. code = At(t, q.at, q.in)
    BY <1>1, <1>5 DEF t
  <2>2. IsSeq(code)
    BY <1>10, <2>1, AtSeq DEF Finishes
  <2>3. \E S : code \in Seq(S)
    BY <2>2 DEF IsSeq
  <2>4. <<>> \o code = code
    BY <2>3
  <2> QED
    BY <2>1, <2>4
<1> QED
  BY <1>3, <1>4, <1>11, <1>12 DEF ReadChain, y
=============================================================================
