------------------------- MODULE ExprCodegenProofs -------------------------
(***************************************************************************)
(* Theorems about ExprCodegen, for every input, every set of declared      *)
(* names, every machine size and every argument limit.                     *)
(*                                                                         *)
(* The pushes and pops of the emitted code pair up, and an assignment's    *)
(* saved address is intact when its store needs it (StackIsBalanced,       *)
(* AddressSurvives).  Shape says that the words on the machine stack are   *)
(* the active calls' own words, call after call, and which word is a saved *)
(* address; ModeOK says what the innermost call is when the parser stands  *)
(* at a given place, which is what allows a step to know whose words it    *)
(* pops.  Neither is inductive without the other.                          *)
(*                                                                         *)
(* What the code computes is what C says: TypeCorrect, MemoryIsRight,      *)
(* DescriptorsAreSound, ArgumentsAreRight, ValuesAreDelivered.  The        *)
(* invariant Sem follows the operands that active calls hold while younger *)
(* calls parse and execute code: each is still where its descriptor says,  *)
(* unless the younger code is not C.                                       *)
(***************************************************************************)
EXTENDS ExprCodegen, SeqLemmas, TLAPS

-----------------------------------------------------------------------------
Fields == {"k", "min", "op", "lhs", "can", "args", "slots", "sp0", "at"}

FrameOK(f) ==
  /\ DOMAIN f = Fields
  /\ f.sp0 \in Nat /\ f.slots \in Nat
  /\ f.slots # 0 => f.k = "call" \/ (f.k = "expr" /\ f.op = "=")

Kept(f, s) ==
  f.k = "expr" /\ f.slots = 1
    => Pair(s[f.sp0 + 1][1], s[f.sp0 + 1][2]) = f.at

Shape(c, s) ==
  /\ IsSeq(c) /\ IsSeq(s)
  /\ \A i \in DOMAIN c : FrameOK(c[i]) /\ Kept(c[i], s)
  /\ \A i \in DOMAIN c :
       c[i].sp0 = IF i = 1 THEN 0 ELSE c[i - 1].sp0 + c[i - 1].slots
  /\ \A i, j \in DOMAIN c : i < j => c[i].sp0 + c[i].slots <= c[j].sp0
  /\ Len(s) = IF c = <<>> THEN 0 ELSE c[Len(c)].sp0 + c[Len(c)].slots

ModeOK(c, m) ==
  /\ m = "loop" => c # <<>> /\ c[Len(c)].k = "expr" /\ c[Len(c)].op = "none"
  /\ m \in {"args", "push"} => c # <<>> /\ c[Len(c)].k = "call"

IInv == Shape(ctl, stk) /\ ModeOK(ctl, mode)

\* Entering a call whose base is the present depth of the machine stack
\* keeps the shape.
LEMMA PushFrame ==
  ASSUME NEW c, NEW s, NEW f, Shape(c, s),
         FrameOK(f), f.sp0 = Len(s), f.slots = 0
  PROVE  Shape(Append(c, f), s)
<1> DEFINE n == Len(c)
           d == Append(c, f)
<1>1. /\ n \in Nat /\ DOMAIN c = 1..n /\ IsSeq(d) /\ Len(d) = n + 1
      /\ DOMAIN d = 1..(n + 1) /\ d[n + 1] = f
      /\ \A i \in 1..n : d[i] = c[i]
  BY AppendFacts DEF Shape
<1>2. c = <<>> <=> n = 0
  BY SeqFacts DEF Shape
<1>3. d # <<>>
  BY <1>1, SeqFacts
<1> HIDE DEF n, d
<1>4. \A i \in DOMAIN d : FrameOK(d[i]) /\ Kept(d[i], s)
  BY <1>1 DEF Shape, Kept
<1>5. \A i \in DOMAIN d :
        d[i].sp0 = IF i = 1 THEN 0 ELSE d[i - 1].sp0 + d[i - 1].slots
  <2> SUFFICES ASSUME NEW i \in 1..(n + 1)
               PROVE  d[i].sp0 = IF i = 1 THEN 0 ELSE d[i - 1].sp0 + d[i - 1].slots
    BY <1>1
  <2>1. CASE i = n + 1
    BY <2>1, <1>1, <1>2 DEF Shape, n
  <2>2. CASE i \in 1..n
    BY <2>2, <1>1 DEF Shape
  <2> QED
    BY <2>1, <2>2, <1>1
<1>6. \A i, j \in DOMAIN d : i < j => d[i].sp0 + d[i].slots <= d[j].sp0
  <2> SUFFICES ASSUME NEW i \in 1..(n + 1), NEW j \in 1..(n + 1), i < j
               PROVE  d[i].sp0 + d[i].slots <= d[j].sp0
    BY <1>1
  <2>1. CASE j = n + 1
    <3>1. i \in 1..n /\ n # 0
      BY <2>1, <1>1
    <3>2. d[i] = c[i] /\ d[j].sp0 = c[n].sp0 + c[n].slots
      BY <2>1, <3>1, <1>1, <1>2 DEF Shape, n
    <3>3. c[n].sp0 \in Nat /\ c[n].slots \in Nat /\ n \in DOMAIN c /\ i \in DOMAIN c
      BY <3>1, <1>1 DEF Shape, FrameOK
    <3>4. CASE i = n
      BY <3>2, <3>3, <3>4
    <3>5. CASE i < n
      <4>1. c[i].sp0 + c[i].slots <= c[n].sp0
        BY <3>5, <3>3 DEF Shape
      <4>2. c[i].sp0 \in Nat /\ c[i].slots \in Nat
        BY <3>3 DEF Shape, FrameOK
      <4> QED
        BY <4>1, <4>2, <3>2, <3>3
    <3> QED
      BY <3>1, <3>4, <3>5, <1>1
  <2>2. CASE j \in 1..n
    BY <2>2, <1>1 DEF Shape
  <2> QED
    BY <2>1, <2>2, <1>1
<1>7. Len(s) = d[Len(d)].sp0 + d[Len(d)].slots
  <2>1. Len(s) \in Nat
    BY SeqFacts DEF Shape
  <2> QED
    BY <2>1, <1>1
<1> QED
  BY <1>1, <1>3, <1>4, <1>5, <1>6, <1>7 DEF Shape, d

\* Leaving a call that holds no words keeps the shape.
LEMMA PopFrame ==
  ASSUME NEW c, NEW s, NEW t, Shape(c, s), c # <<>>,
         IsSeq(t), Len(t) = c[Len(c)].sp0,
         \A i \in 1..Len(t) : t[i] = s[i]
  PROVE  Shape(Butlast(c), t)
<1> DEFINE n == Len(c)
           d == Butlast(c)
<1>1. /\ n \in Nat \ {0} /\ DOMAIN c = 1..n /\ IsSeq(d) /\ Len(d) = n - 1
      /\ DOMAIN d = 1..(n - 1) /\ n \in DOMAIN c
      /\ \A i \in 1..(n - 1) : d[i] = c[i] /\ i \in DOMAIN c
  BY ButlastFacts DEF Shape
<1>2. d = <<>> <=> n = 1
  <2>1. d = <<>> <=> Len(d) = 0
    BY <1>1, SeqFacts
  <2> QED
    BY <2>1, <1>1
<1>3. FrameOK(c[n])
  BY <1>1 DEF Shape
<1> HIDE DEF n, d
<1>4. \A i \in DOMAIN d : FrameOK(d[i]) /\ Kept(d[i], t)
  <2> SUFFICES ASSUME NEW i \in 1..(n - 1)
               PROVE  FrameOK(d[i]) /\ Kept(d[i], t)
    BY <1>1
  <2>1. d[i] = c[i] /\ i \in DOMAIN c /\ i < n
    BY <1>1
  <2>2. FrameOK(c[i]) /\ Kept(c[i], s) /\ c[i].sp0 + c[i].slots <= c[n].sp0
    BY <2>1, <1>1 DEF Shape
  <2>3. c[i].slots = 1 => c[i].sp0 + 1 \in 1..Len(t)
    BY <2>2, <1>3 DEF FrameOK, n
  <2> QED
    BY <2>1, <2>2, <2>3 DEF Kept
<1>5. \A i \in DOMAIN d :
        d[i].sp0 = IF i = 1 THEN 0 ELSE d[i - 1].sp0 + d[i - 1].slots
  <2> SUFFICES ASSUME NEW i \in 1..(n - 1)
               PROVE  d[i].sp0 = IF i = 1 THEN 0 ELSE d[i - 1].sp0 + d[i - 1].slots
    BY <1>1
  <2>1. d[i] = c[i] /\ i \in DOMAIN c
    BY <1>1
  <2>2. i # 1 => d[i - 1] = c[i - 1]
    BY <1>1
  <2> QED
    BY <2>1, <2>2 DEF Shape
<1>6. \A i, j \in DOMAIN d : i < j => d[i].sp0 + d[i].slots <= d[j].sp0
  BY <1>1 DEF Shape
<1>7. Len(t) = IF d = <<>> THEN 0 ELSE d[Len(d)].sp0 + d[Len(d)].slots
  <2>1. Len(t) = IF n = 1 THEN 0 ELSE c[n - 1].sp0 + c[n - 1].slots
    <3>1. Len(t) = c[n].sp0
      BY DEF n
    <3> QED
      BY <3>1, <1>1 DEF Shape
  <2>2. n # 1 => d[Len(d)] = c[n - 1]
    BY <1>1
  <2> QED
    BY <2>1, <2>2, <1>2
<1> QED
  BY <1>1, <1>4, <1>5, <1>6, <1>7 DEF Shape, d

\* Updating the innermost call and its own words, and nothing below them,
\* keeps the shape.
LEMMA ReplaceTop ==
  ASSUME NEW c, NEW s, NEW f, NEW t, Shape(c, s), c # <<>>,
         FrameOK(f), f.sp0 = c[Len(c)].sp0, IsSeq(t),
         Len(t) = f.sp0 + f.slots, Kept(f, t),
         \A i \in 1..f.sp0 : t[i] = s[i]
  PROVE  Shape(Replaced(c, f), t)
<1> DEFINE n == Len(c)
           d == Replaced(c, f)
<1>1. /\ n \in Nat \ {0} /\ DOMAIN c = 1..n /\ IsSeq(d) /\ Len(d) = n
      /\ DOMAIN d = 1..n /\ d[n] = f /\ n \in DOMAIN c
      /\ \A i \in 1..(n - 1) : d[i] = c[i] /\ i \in DOMAIN c
  <2>1. IsSeq(c)
    BY DEF Shape
  <2>2. n \in Nat \ {0} /\ DOMAIN c = 1..n /\ IsSeq(d) /\ Len(d) = n
    BY <2>1, ReplaceFacts
  <2>3. DOMAIN d = 1..n /\ d[n] = f
    BY <2>1, ReplaceFacts
  <2>4. \A i \in 1..(n - 1) : d[i] = c[i]
    BY <2>1, ReplaceFacts
  <2> HIDE DEF n, d
  <2> QED
    BY <2>2, <2>3, <2>4
<1>2. d # <<>>
  BY <1>1, SeqFacts
<1>3. FrameOK(c[n])
  BY <1>1 DEF Shape
<1> HIDE DEF n, d
<1>4. \A i \in DOMAIN d : FrameOK(d[i]) /\ Kept(d[i], t)
  <2> SUFFICES ASSUME NEW i \in 1..n
               PROVE  FrameOK(d[i]) /\ Kept(d[i], t)
    BY <1>1
  <2>1. CASE i = n
    BY <2>1, <1>1
  <2>2. CASE i \in 1..(n - 1)
    <3>1. d[i] = c[i] /\ i \in DOMAIN c /\ i < n
      BY <2>2, <1>1
    <3>2. FrameOK(c[i]) /\ Kept(c[i], s) /\ c[i].sp0 + c[i].slots <= c[n].sp0
      BY <3>1, <1>1 DEF Shape
    <3>3. c[i].slots = 1 => c[i].sp0 + 1 \in 1..f.sp0
      BY <3>2, <1>3 DEF FrameOK, n
    <3> QED
      BY <3>1, <3>2, <3>3 DEF Kept
  <2> QED
    BY <2>1, <2>2, <1>1
<1>5. \A i \in DOMAIN d :
        d[i].sp0 = IF i = 1 THEN 0 ELSE d[i - 1].sp0 + d[i - 1].slots
  <2> SUFFICES ASSUME NEW i \in 1..n
               PROVE  d[i].sp0 = IF i = 1 THEN 0 ELSE d[i - 1].sp0 + d[i - 1].slots
    BY <1>1
  <2>1. d[i].sp0 = c[i].sp0
    BY <1>1 DEF n
  <2>2. CASE i = 1
    BY <2>1, <2>2, <1>1 DEF Shape
  <2>3. CASE i # 1
    <3>1. i - 1 \in 1..(n - 1) /\ i \in DOMAIN c
      BY <2>3, <1>1
    <3>2. d[i - 1] = c[i - 1]
      BY <3>1, <1>1
    <3> QED
      BY <2>1, <2>3, <3>1, <3>2 DEF Shape
  <2> QED
    BY <2>2, <2>3
<1>6. \A i, j \in DOMAIN d : i < j => d[i].sp0 + d[i].slots <= d[j].sp0
  <2> SUFFICES ASSUME NEW i \in 1..n, NEW j \in 1..n, i < j
               PROVE  d[i].sp0 + d[i].slots <= d[j].sp0
    BY <1>1
  <2>1. d[i] = c[i] /\ d[j].sp0 = c[j].sp0 /\ i \in DOMAIN c /\ j \in DOMAIN c
    BY <1>1 DEF n
  <2> QED
    BY <2>1 DEF Shape
<1> QED
  BY <1>1, <1>2, <1>4, <1>5, <1>6 DEF Shape, d

\* the common cases: the top frame changes and the stack does not; it is left
\* with nothing on the stack
LEMMA KeepStack ==
  ASSUME NEW c, NEW s, NEW f, Shape(c, s), c # <<>>,
         FrameOK(f), f.sp0 = c[Len(c)].sp0, f.slots = c[Len(c)].slots,
         f.at = c[Len(c)].at, f.k = c[Len(c)].k
  PROVE  Shape(Replaced(c, f), s)
<1>1. /\ IsSeq(s) /\ Len(s) = f.sp0 + f.slots
      /\ Len(c) \in DOMAIN c
  BY ButlastFacts DEF Shape
<1>2. Kept(f, s)
  BY <1>1 DEF Shape, Kept
<1> QED
  BY <1>1, <1>2, ReplaceTop

\* In a well-shaped state the innermost call that holds no words may go.
LEMMA LeaveFrame ==
  ASSUME NEW c, NEW s, Shape(c, s), c # <<>>, c[Len(c)].slots = 0
  PROVE  Shape(Butlast(c), s)
<1>1. IsSeq(s) /\ Len(c) \in DOMAIN c
  BY ButlastFacts DEF Shape
<1>2. Len(s) = c[Len(c)].sp0
  BY <1>1 DEF Shape, FrameOK
<1> QED
  BY <1>1, <1>2, PopFrame

-----------------------------------------------------------------------------
\* The strengthened invariant holds when cc1_parse_expr is entered.
THEOREM InitIInv == Init => IInv
<1> SUFFICES ASSUME Init
             PROVE  IInv
  OBVIOUS
<1>1. ctl = <<NoFrame>> /\ stk = <<>> /\ mode = "unary"
  BY DEF Init
<1>2. /\ IsSeq(ctl) /\ Len(ctl) = 1 /\ DOMAIN ctl = {1} /\ ctl # <<>>
      /\ ctl[1] = NoFrame
  <2>1. IsSeq(ctl)
    <3>1. ctl \in Seq({NoFrame})
      BY <1>1
    <3> QED
      BY <3>1 DEF IsSeq
  <2>2. Len(ctl) = 1 /\ ctl[1] = NoFrame
    BY <1>1
  <2>3. DOMAIN ctl = 1..1 /\ ctl # <<>>
    BY <2>1, <2>2, SeqFacts
  <2> QED
    BY <2>1, <2>2, <2>3
<1>3. IsSeq(stk) /\ Len(stk) = 0
  <2>1. stk \in Seq({})
    BY <1>1
  <2> QED
    BY <1>1, <2>1 DEF IsSeq
<1>4. FrameOK(NoFrame) /\ NoFrame.sp0 = 0 /\ NoFrame.slots = 0
  BY DEF NoFrame, FrameOK, Fields
<1>5. \A i \in DOMAIN ctl : FrameOK(ctl[i]) /\ Kept(ctl[i], stk)
  BY <1>2, <1>4 DEF Kept
<1>6. Shape(ctl, stk)
  BY <1>2, <1>3, <1>4, <1>5 DEF Shape
<1> QED
  BY <1>1, <1>6 DEF IInv, ModeOK

\* a call of the parser: the new frame starts where the stack ends
LEMMA EnterStep ==
  ASSUME IInv, NEW f, FrameOK(f), f.slots = 0, Enter(f),
         UNCHANGED stk,
         mode' = "unary" \/ (mode' = "args" /\ f.k = "call")
  PROVE  IInv'
<1> DEFINE g == [f EXCEPT !.sp0 = Len(stk)]
<1>1. Len(stk) \in Nat
  BY SeqFacts DEF IInv, Shape
<1>2. FrameOK(g) /\ g.sp0 = Len(stk) /\ g.slots = 0 /\ g.k = f.k
  BY <1>1 DEF FrameOK, Fields
<1>3. ctl' = Append(ctl, g)
  BY DEF Enter
<1> HIDE DEF g
<1>4. Shape(Append(ctl, g), stk)
  BY <1>2, PushFrame DEF IInv
<1>5. IsSeq(ctl)
  BY DEF IInv, Shape
<1>6. /\ Append(ctl, g) # <<>>
      /\ Append(ctl, g)[Len(Append(ctl, g))] = g
  <2>1. /\ IsSeq(Append(ctl, g)) /\ Len(ctl) \in Nat
        /\ Len(Append(ctl, g)) = Len(ctl) + 1
        /\ Append(ctl, g)[Len(ctl) + 1] = g
    BY <1>5, AppendFacts
  <2>2. Append(ctl, g) = <<>> <=> Len(Append(ctl, g)) = 0
    BY <2>1, SeqFacts
  <2> QED
    BY <2>1, <2>2
<1>7. ModeOK(Append(ctl, g), mode')
  BY <1>2, <1>6 DEF ModeOK
<1> QED
  BY <1>3, <1>4, <1>7 DEF IInv

\* the top frame is replaced: what the mode then says of it
LEMMA ReplaceStep ==
  ASSUME IInv, ctl # <<>>, NEW f, ctl' = Append(Below, f),
         Shape(Replaced(ctl, f), stk'),
         mode' = "loop" => f.k = "expr" /\ f.op = "none",
         mode' \in {"args", "push"} => f.k = "call"
  PROVE  IInv'
<1>1. ctl' = Replaced(ctl, f)
  BY DEF Replaced, Below, Butlast
<1>2. Replaced(ctl, f) # <<>> /\ Replaced(ctl, f)[Len(Replaced(ctl, f))] = f
  <2>1. IsSeq(ctl) /\ IsSeq(Replaced(ctl, f))
    BY DEF IInv, Shape
  <2>2. /\ Len(ctl) \in Nat \ {0} /\ Len(Replaced(ctl, f)) = Len(ctl)
        /\ Replaced(ctl, f)[Len(ctl)] = f
    BY <2>1, ReplaceFacts
  <2>3. Replaced(ctl, f) = <<>> <=> Len(Replaced(ctl, f)) = 0
    BY <2>1, SeqFacts
  <2> QED
    BY <2>2, <2>3
<1>3. ModeOK(Replaced(ctl, f), mode')
  BY <1>2 DEF ModeOK
<1> QED
  BY <1>1, <1>3 DEF IInv

\* a call of the parser returns
LEMMA ReturnStep ==
  ASSUME IInv, ctl # <<>>, Top.slots = 0, ctl' = Below, UNCHANGED stk,
         mode' \in {"return", "postfix"}
  PROVE  IInv'
<1>1. Below = Butlast(ctl)
  BY DEF Below, Butlast
<1>2. Shape(Butlast(ctl), stk)
  BY LeaveFrame DEF IInv, Top
<1> QED
  BY <1>1, <1>2 DEF IInv, ModeOK

\* The innermost call of a reachable state is a frame of the right shape.
LEMMA TopFacts ==
  ASSUME IInv, ctl # <<>>
  PROVE  /\ FrameOK(Top) /\ Kept(Top, stk) /\ IsSeq(ctl) /\ IsSeq(stk)
         /\ Len(stk) = Top.sp0 + Top.slots /\ Len(stk) \in Nat
<1>1. IsSeq(ctl) /\ IsSeq(stk)
  BY DEF IInv, Shape
<1>2. Len(ctl) \in DOMAIN ctl
  BY <1>1, ButlastFacts
<1> QED
  BY <1>1, <1>2, SeqFacts DEF IInv, Shape, Top

\* steps that leave the calls of the parser and the machine stack alone
LEMMA QuietStep ==
  ASSUME IInv, UNCHANGED <<ctl, stk>>,
         mode' \notin {"loop", "args", "push"} \/ (mode = "args" /\ mode' = "push")
  PROVE  IInv'
<1>1. Shape(ctl', stk')
  BY DEF IInv
<1>2. ModeOK(ctl', mode')
  BY DEF IInv, ModeOK
<1> QED
  BY <1>1, <1>2 DEF IInv

\* A call that has done nothing yet holds nothing.
LEMMA NoFrameOK ==
  /\ FrameOK(NoFrame) /\ NoFrame.k = "expr" /\ NoFrame.slots = 0
  /\ NoFrame.sp0 = 0 /\ NoFrame.at = Junk
  /\ DOMAIN NoFrame = Fields
BY DEF NoFrame, FrameOK, Fields

\* The same for a call of cc1_parse_expr with any minimal precedence.
LEMMA ExprFrameOK ==
  ASSUME NEW p
  PROVE  /\ FrameOK(ExprFrame(p)) /\ ExprFrame(p).slots = 0 /\ ExprFrame(p).k = "expr"
         /\ DOMAIN ExprFrame(p) = Fields
BY NoFrameOK DEF ExprFrame, FrameOK, Fields

\* an operator: the top frame waits in f, and a frame for its right operand
\* starts where the stack now ends
LEMMA EnterRhsStep ==
  ASSUME IInv, ctl # <<>>, NEW f, NEW p, NEW depth,
         Shape(Replaced(ctl, f), stk'), depth = Len(stk'),
         EnterRhs(f, depth, p), mode' = "unary"
  PROVE  IInv'
<1> DEFINE g == [ExprFrame(p) EXCEPT !.sp0 = depth]
           d == Replaced(ctl, f)
<1>1. ctl' = Append(d, g)
  BY DEF EnterRhs, Replaced, Below, Butlast
<1>2. depth \in Nat
  BY SeqFacts DEF Shape
<1>3. FrameOK(g) /\ g.sp0 = depth /\ g.slots = 0
  BY <1>2, ExprFrameOK DEF FrameOK, Fields
<1> HIDE DEF g, d
<1>4. Shape(Append(d, g), stk')
  BY <1>3, PushFrame DEF d
<1> QED
  BY <1>1, <1>4 DEF IInv, ModeOK

\* Popping what the innermost call pushed brings the stack back to where
\* the call found it.
LEMMA Pops ==
  ASSUME IInv, ctl # <<>>
  PROVE  /\ IsSeq(Popped(Top.slots)) /\ Len(Popped(Top.slots)) = Top.sp0
         /\ \A i \in 1..Top.sp0 : Popped(Top.slots)[i] = stk[i]
<1>1. /\ Top.sp0 \in Nat /\ Top.slots \in Nat /\ IsSeq(stk)
      /\ Len(stk) = Top.sp0 + Top.slots
  BY TopFacts DEF FrameOK
<1>2. Len(stk) - Top.slots \in 0..Len(stk) /\ Len(stk) - Top.slots = Top.sp0
  BY <1>1
<1> QED
  BY <1>1, <1>2, SubSeqFacts DEF Popped

-----------------------------------------------------------------------------
(* One lemma per action that touches the calls or the stack                *)

\* '(' enters two calls (cc1_parse_primary and cc1_parse_expr).
LEMMA OpenParenStep == ASSUME IInv, OpenParen PROVE IInv'
<1> DEFINE g == [NoFrame EXCEPT !.k = "paren", !.sp0 = Len(stk)]
           h == [NoFrame EXCEPT !.sp0 = Len(stk)]
<1>1. /\ IsSeq(ctl) /\ Len(stk) \in Nat /\ UNCHANGED stk
      /\ Shape(ctl, stk) /\ mode' = "unary"
  BY SeqFacts DEF IInv, Shape, OpenParen, machine
<1>2. /\ FrameOK(g) /\ g.sp0 = Len(stk) /\ g.slots = 0
      /\ FrameOK(h) /\ h.sp0 = Len(stk) /\ h.slots = 0
  BY <1>1, NoFrameOK DEF FrameOK, Fields
<1>3. ctl' = Append(Append(ctl, g), h)
  <2>1. PICK S : ctl \in Seq(S)
    BY <1>1 DEF IsSeq
  <2>2. ctl' = ctl \o <<g, h>>
    BY DEF OpenParen
  <2> HIDE DEF g, h
  <2>3. ctl \in Seq(S \cup {g, h})
    BY <2>1
  <2> QED
    BY <2>2, <2>3
<1> HIDE DEF g, h
<1>4. Shape(Append(ctl, g), stk)
  BY <1>1, <1>2, PushFrame
<1>5. Shape(Append(Append(ctl, g), h), stk)
  BY <1>2, <1>4, PushFrame
<1> QED
  BY <1>1, <1>3, <1>5 DEF IInv, ModeOK

\* '&' and '*' enter one call of cc1_parse_unary.
LEMMA PrefixOpStep == ASSUME IInv, PrefixOp PROVE IInv'
<1> DEFINE f == [NoFrame EXCEPT !.k = IF tok.k = "&" THEN "amp" ELSE "deref"]
<1>1. FrameOK(f) /\ f.slots = 0
  BY NoFrameOK DEF FrameOK, Fields
<1>2. Enter(f) /\ UNCHANGED stk /\ mode' = "unary"
  BY DEF PrefixOp, machine
<1> HIDE DEF f
<1> QED
  BY <1>1, <1>2, EnterStep

\* '(' after a primary enters the argument list.
LEMMA OpenCallStep == ASSUME IInv, OpenCall PROVE IInv'
<1> DEFINE f == [NoFrame EXCEPT !.k = "call", !.lhs = res]
<1>1. FrameOK(f) /\ f.slots = 0 /\ f.k = "call"
  BY NoFrameOK DEF FrameOK, Fields
<1>2. Enter(f) /\ UNCHANGED stk /\ mode' = "args"
  BY DEF OpenCall, machine
<1> HIDE DEF f
<1> QED
  BY <1>1, <1>2, EnterStep

\* An argument is a call of cc1_parse_expr, or too many of them an error.
LEMMA ParseArgStep == ASSUME IInv, ParseArg PROVE IInv'
<1>1. UNCHANGED stk /\ mode = "args"
  BY DEF ParseArg, machine
<1>2. CASE Len(Top.args) >= MaxArgs
  BY <1>1, <1>2, QuietStep DEF ParseArg
<1>3. CASE ~(Len(Top.args) >= MaxArgs)
  <2>1. Enter(ExprFrame(1)) /\ mode' = "unary"
    BY <1>3 DEF ParseArg
  <2> QED
    BY <1>1, <2>1, ExprFrameOK, EnterStep
<1> QED
  BY <1>2, <1>3

\* A parenthesised expression returns, with or without its ')'.
LEMMA CloseParenStep == ASSUME IInv, CloseParen PROVE IInv'
<1>1. /\ ctl # <<>> /\ Top.k = "paren" /\ ctl' = Below /\ UNCHANGED stk
      /\ mode' = "postfix"
  BY DEF CloseParen, Returning, machine
<1>2. Top.slots = 0
  BY <1>1, TopFacts DEF FrameOK
<1> QED
  BY <1>1, <1>2, ReturnStep

\* cc1_parse_unary returns from '&'.
LEMMA AddressOfStep == ASSUME IInv, AddressOf PROVE IInv'
<1>1. /\ ctl # <<>> /\ Top.k = "amp" /\ ctl' = Below /\ UNCHANGED stk
      /\ mode' = "return"
  BY DEF AddressOf, Returning
<1>2. Top.slots = 0
  BY <1>1, TopFacts DEF FrameOK
<1> QED
  BY <1>1, <1>2, ReturnStep

\* cc1_parse_unary returns from '*'.
LEMMA DereferenceStep == ASSUME IInv, Dereference PROVE IInv'
<1>1. /\ ctl # <<>> /\ Top.k = "deref" /\ ctl' = Below /\ UNCHANGED stk
      /\ mode' = "return"
  BY DEF Dereference, Returning
<1>2. Top.slots = 0
  BY <1>1, TopFacts DEF FrameOK
<1> QED
  BY <1>1, <1>2, ReturnStep

\* In the operator loop the innermost call is cc1_parse_expr and holds nothing.
LEMMA LoopTop ==
  ASSUME IInv, InLoop
  PROVE  /\ ctl # <<>> /\ Top.k = "expr" /\ Top.op = "none" /\ Top.slots = 0
         /\ Len(stk) = Top.sp0 /\ Len(stk) \in Nat
<1>1. ctl # <<>> /\ Top.k = "expr" /\ Top.op = "none"
  BY DEF InLoop, IInv, ModeOK, Top
<1>2. /\ FrameOK(Top) /\ Len(stk) = Top.sp0 + Top.slots /\ Len(stk) \in Nat
  BY <1>1, TopFacts
<1>3. Top.slots = 0 /\ Top.sp0 \in Nat
  BY <1>1, <1>2 DEF FrameOK
<1>4. Len(stk) = Top.sp0
  BY <1>2, <1>3
<1> QED
  BY <1>1, <1>2, <1>3, <1>4

\* cc1_parse_expr returns when the next operator binds less.
LEMMA EndExprStep == ASSUME IInv, EndExpr PROVE IInv'
<1>1. InLoop /\ ctl' = Below /\ UNCHANGED stk /\ mode' = "return"
  BY DEF EndExpr, machine
<1> QED
  BY <1>1, LoopTop, ReturnStep

\* An argument returns to its list; nothing was pushed for it yet.
LEMMA ArgParsedStep == ASSUME IInv, ArgParsed PROVE IInv'
<1> DEFINE f == [Top EXCEPT !.args = Append(Top.args, res)]
<1>1. /\ ctl # <<>> /\ Top.k = "call" /\ ctl' = Append(Below, f) /\ UNCHANGED stk
      /\ mode' \in {"args", "push"}
  BY DEF ArgParsed, Returning, Replace, machine
<1>2. /\ FrameOK(f) /\ f.k = "call"
      /\ f.sp0 = Top.sp0 /\ f.slots = Top.slots /\ f.at = Top.at
  BY <1>1, TopFacts DEF FrameOK, Fields
<1> HIDE DEF f
<1>3. Shape(Replaced(ctl, f), stk)
  BY <1>1, <1>2, KeepStack DEF IInv, Top, Replaced
<1> QED
  BY <1>1, <1>2, <1>3, ReplaceStep

\* The first operand returns to cc1_parse_expr.
LEMMA UnaryParsedStep == ASSUME IInv, UnaryParsed PROVE IInv'
<1> DEFINE f == [Top EXCEPT !.lhs = res]
<1>1. /\ ctl # <<>> /\ Top.k = "expr" /\ Top.op = "none"
      /\ ctl' = Append(Below, f) /\ UNCHANGED stk /\ mode' = "loop"
  BY DEF UnaryParsed, Returning, Replace, machine
<1>2. /\ FrameOK(f) /\ f.k = "expr" /\ f.op = "none"
      /\ f.sp0 = Top.sp0 /\ f.slots = Top.slots /\ f.at = Top.at
  BY <1>1, TopFacts DEF FrameOK, Fields
<1> HIDE DEF f
<1>3. Shape(Replaced(ctl, f), stk)
  BY <1>1, <1>2, KeepStack DEF IInv, Top, Replaced
<1> QED
  BY <1>1, <1>2, <1>3, ReplaceStep

\* the operators whose operands are both converted when they meet: the top
\* frame is back in the loop with nothing of its own on the stack
LEMMA BinaryStep ==
  ASSUME IInv, Returning("expr"), Top.op # "=", NEW e,
         Replace([Top EXCEPT !.op = "none", !.lhs = e]),
         UNCHANGED stk, mode' = "loop"
  PROVE  IInv'
<1> DEFINE f == [Top EXCEPT !.op = "none", !.lhs = e]
<1>1. ctl # <<>> /\ Top.k = "expr" /\ ctl' = Append(Below, f)
  BY DEF Returning, Replace
<1>2. Top.slots = 0
  BY <1>1, TopFacts DEF FrameOK
<1>3. /\ FrameOK(f) /\ f.k = Top.k /\ f.op = "none"
      /\ f.sp0 = Top.sp0 /\ f.slots = Top.slots /\ f.at = Top.at
  BY <1>1, <1>2, TopFacts DEF FrameOK, Fields
<1> HIDE DEF f
<1>4. Shape(Replaced(ctl, f), stk)
  BY <1>1, <1>3, KeepStack DEF IInv, Top, Replaced
<1> QED
  BY <1>1, <1>3, <1>4, ReplaceStep

\* A binary operator enters its right operand with nothing on the stack.
LEMMA StartBinaryStep == ASSUME IInv, StartBinary PROVE IInv'
<1> DEFINE f == [Top EXCEPT !.op = tok.k]
<1>1. /\ InLoop /\ UNCHANGED stk /\ mode' = "unary"
      /\ EnterRhs(f, Len(stk), Prec(tok.k) + 1)
  BY DEF StartBinary, machine
<1>2. /\ FrameOK(f) /\ f.k = Top.k
      /\ f.sp0 = Top.sp0 /\ f.slots = Top.slots /\ f.at = Top.at
  BY <1>1, LoopTop, TopFacts DEF FrameOK, Fields
<1> HIDE DEF f
<1>3. Shape(Replaced(ctl, f), stk)
  BY <1>1, <1>2, LoopTop, KeepStack DEF IInv, Top, Replaced
<1> QED
  BY <1>1, <1>3, LoopTop, EnterRhsStep

\* '=' pushes the address of its target, or nothing, and enters its right
\* side.
LEMMA StartAssignStep == ASSUME IInv, StartAssign PROVE IInv'
<1> DEFINE lhs == Top.lhs
           can == /\ lhs.off
                  /\ IF IsChar8(lhs.ty) THEN ByteInReach(lhs.ix) ELSE WordInReach(lhs.ix)
           save == ~can /\ (lhs.addr \/ lhs.off)
           r == IF save /\ ~lhs.addr THEN LoadLocalAddrHL(reg, lhs.ix) ELSE reg
           n == IF save THEN 1 ELSE 0
           at == IF save THEN HL(r) ELSE Junk
           f == [Top EXCEPT !.op = "=", !.can = can, !.slots = n, !.at = at]
<1>1. /\ InLoop /\ mode' = "unary"
      /\ EnterRhs(f, Len(stk'), Prec("="))
      /\ stk' = IF save THEN Append(stk, <<r.h, r.l>>) ELSE stk
  BY DEF StartAssign
<1>2. /\ ctl # <<>> /\ Top.k = "expr" /\ FrameOK(Top) /\ IsSeq(stk)
      /\ Len(stk) = Top.sp0 /\ Len(stk) \in Nat /\ Top.slots = 0
  BY <1>1, LoopTop, TopFacts
<1>3. /\ FrameOK(f) /\ f.k = "expr" /\ f.sp0 = Top.sp0 /\ f.slots = n /\ f.at = at
  BY <1>2 DEF FrameOK, Fields
<1>4. /\ IsSeq(stk') /\ Len(stk') = f.sp0 + f.slots
      /\ \A i \in 1..f.sp0 : stk'[i] = stk[i]
      /\ Kept(f, stk')
  <2>1. CASE save
    <3> DEFINE w == <<r.h, r.l>>
    <3>1. stk' = Append(stk, w) /\ n = 1
      BY <1>1, <2>1
    <3>2. at = Pair(w[1], w[2])
      BY <2>1 DEF HL
    <3> HIDE DEF w, f, at, n, r, save
    <3>3. /\ IsSeq(stk') /\ Len(stk') = Len(stk) + 1
          /\ \A i \in 1..Len(stk) : stk'[i] = stk[i]
          /\ stk'[Len(stk) + 1] = w
      BY <3>1, <1>2, AppendFacts
    <3> QED
      BY <3>1, <3>2, <3>3, <1>2, <1>3 DEF Kept
  <2>2. CASE ~save
    <3>1. stk' = stk /\ n = 0
      BY <1>1, <2>2
    <3> HIDE DEF f, at, n, r, save
    <3> QED
      BY <3>1, <1>2, <1>3 DEF Kept
  <2> QED
    BY <2>1, <2>2
<1> HIDE DEF f, n, at, r, save, can, lhs
<1>5. Shape(Replaced(ctl, f), stk')
  BY <1>2, <1>3, <1>4, ReplaceTop DEF IInv, Top
<1> QED
  BY <1>1, <1>2, <1>5, EnterRhsStep

\* The store pops the saved address, and nothing else.
LEMMA AssignStep == ASSUME IInv, Assign PROVE IInv'
<1>1. /\ ctl # <<>> /\ Top.k = "expr"
      /\ stk' = Popped(Top.slots) /\ mode' = "loop"
  BY DEF Assign, Returning
<1>2. FrameOK(Top)
  BY <1>1, TopFacts
<1>3. PICK f : /\ ctl' = Append(Below, f) /\ DOMAIN f = Fields
               /\ f.k = Top.k /\ f.op = "none" /\ f.sp0 = Top.sp0 /\ f.slots = 0
  <2>1. PICK e : Replace([Top EXCEPT !.op = "none", !.slots = 0, !.at = Junk,
                                     !.can = FALSE, !.lhs = e])
    BY DEF Assign
  <2> DEFINE g == [Top EXCEPT !.op = "none", !.slots = 0, !.at = Junk,
                              !.can = FALSE, !.lhs = e]
  <2>2. ctl' = Append(Below, g)
    BY <2>1 DEF Replace
  <2>3. DOMAIN g = Fields /\ g.k = Top.k /\ g.op = "none" /\ g.sp0 = Top.sp0 /\ g.slots = 0
    BY <1>2 DEF FrameOK, Fields
  <2> HIDE DEF g
  <2> QED
    BY <2>2, <2>3
<1>4. FrameOK(f) /\ Top.sp0 \in Nat
  BY <1>2, <1>3 DEF FrameOK
<1>5. /\ IsSeq(stk') /\ Len(stk') = f.sp0 + f.slots
      /\ \A i \in 1..f.sp0 : stk'[i] = stk[i]
  <2>1. /\ IsSeq(stk') /\ Len(stk') = Top.sp0
        /\ \A i \in 1..Top.sp0 : stk'[i] = stk[i]
    BY <1>1, Pops
  <2>2. f.sp0 + f.slots = Top.sp0 /\ f.sp0 = Top.sp0
    BY <1>3, <1>4
  <2> QED
    BY <2>1, <2>2
<1>6. Kept(f, stk')
  BY <1>3 DEF Kept
<1>7. Shape(Replaced(ctl, f), stk')
  BY <1>1, <1>3, <1>4, <1>5, <1>6, ReplaceTop DEF IInv, Top
<1> QED
  BY <1>1, <1>3, <1>7, ReplaceStep

\* One argument is pushed as one word of the call.
LEMMA PushArgStep == ASSUME IInv, PushArg PROVE IInv'
<1> DEFINE f == [Top EXCEPT !.slots = Top.slots + 1]
<1>1. PICK w : /\ mode = "push" /\ mode' = "push"
               /\ stk' = Append(stk, w) /\ Replace(f)
  BY DEF PushArg
<1>2. ctl # <<>> /\ Top.k = "call" /\ ctl' = Append(Below, f)
  BY <1>1 DEF IInv, ModeOK, Replace, Top
<1>3. /\ FrameOK(f) /\ f.k = "call" /\ f.sp0 = Top.sp0 /\ f.slots = Top.slots + 1
      /\ Top.sp0 \in Nat /\ Top.slots \in Nat
  BY <1>2, TopFacts DEF FrameOK, Fields
<1> HIDE DEF f
<1>4. IsSeq(stk) /\ Len(stk) = Top.sp0 + Top.slots
  BY <1>2, TopFacts
<1>5. /\ IsSeq(stk') /\ Len(stk') = Len(stk) + 1
      /\ \A i \in 1..Len(stk) : stk'[i] = stk[i]
  BY <1>1, <1>4, AppendFacts
<1>6. /\ Len(stk') = f.sp0 + f.slots /\ \A i \in 1..f.sp0 : stk'[i] = stk[i]
  BY <1>3, <1>4, <1>5
<1>7. Kept(f, stk')
  BY <1>3 DEF Kept
<1>8. Shape(Replaced(ctl, f), stk')
  BY <1>2, <1>3, <1>5, <1>6, <1>7, ReplaceTop DEF IInv, Top
<1> QED
  BY <1>1, <1>2, <1>3, <1>8, ReplaceStep

\* The clean-up of a call pops exactly the words of its arguments.
LEMMA EmitCallStep == ASSUME IInv, EmitCall PROVE IInv'
<1>1. /\ mode = "push" /\ stk' = Popped(Top.slots) /\ ctl' = Below /\ mode' = "return"
  BY DEF EmitCall, Cleanup
<1>2. ctl # <<>>
  BY <1>1 DEF IInv, ModeOK
<1>3. /\ IsSeq(stk') /\ Len(stk') = Top.sp0
      /\ \A i \in 1..Len(stk') : stk'[i] = stk[i]
  BY <1>1, <1>2, Pops
<1>4. Shape(Butlast(ctl), stk')
  BY <1>2, <1>3, PopFrame DEF IInv, Top
<1> QED
  BY <1>1, <1>4 DEF IInv, ModeOK, Below, Butlast

-----------------------------------------------------------------------------
\* Every step of the parser, and stuttering, keeps the strengthened invariant.
THEOREM NextIInv == IInv /\ [Next]_vars => IInv'
<1> SUFFICES ASSUME IInv, [Next]_vars
             PROVE  IInv'
  OBVIOUS
<1>1. CASE Leaf \/ NoPrimary \/ NoCallSuffix \/ NoArgs
  <2>1. /\ UNCHANGED <<ctl, stk>>
        /\ mode' \in {"postfix", "return"} \/ (mode = "args" /\ mode' = "push")
    BY <1>1 DEF Leaf, NoPrimary, NoCallSuffix, NoArgs, machine
  <2> QED
    BY <2>1, QuietStep
<1>2. CASE SizeofOpen \/ SizeofParen \/ SizeofType \/ SizeofStar \/ SizeofClose
  <2>1. /\ UNCHANGED <<ctl, stk>>
        /\ mode' \in {"sizeof(", "sizeof", "sizeof*", "return"}
    BY <1>2 DEF SizeofOpen, SizeofParen, SizeofType, SizeofStar, SizeofClose, machine
  <2> QED
    BY <2>1, QuietStep
<1>3. CASE UseValue
  BY <1>3, QuietStep DEF UseValue
<1>4. CASE AddOperands \/ CompareOperands \/ KeepRhs
  <2>1. PICK e : /\ Returning("expr") /\ Top.op # "="
                 /\ Replace([Top EXCEPT !.op = "none", !.lhs = e])
                 /\ UNCHANGED stk /\ mode' = "loop"
    <3>1. CASE AddOperands
      BY <3>1 DEF AddOperands
    <3>2. CASE CompareOperands
      BY <3>2 DEF CompareOperands
    <3>3. CASE KeepRhs
      BY <3>3 DEF KeepRhs, machine
    <3> QED
      BY <1>4, <3>1, <3>2, <3>3
  <2> QED
    BY <2>1, BinaryStep
<1>5. CASE UNCHANGED vars
  BY <1>5 DEF vars, machine, IInv
<1> QED
  BY <1>1, <1>2, <1>3, <1>4, <1>5, OpenParenStep, CloseParenStep, PrefixOpStep,
     AddressOfStep, DereferenceStep, OpenCallStep, ParseArgStep, ArgParsedStep,
     PushArgStep, EmitCallStep, UnaryParsedStep, EndExprStep, StartAssignStep,
     AssignStep, StartBinaryStep
  DEF Next, Step, Done

\* Every push that expression code makes is popped by the call of the parser
\* that emitted it, whatever the input, its length and its errors.
THEOREM StackIsBalanced == Spec => []StackBalanced
<1>1. IInv => StackBalanced
  BY DEF IInv, Shape, StackBalanced, Top
<1> QED
  BY <1>1, InitIInv, NextIInv, PTL DEF Spec

\* The address an assignment saves is the one its store pops.
THEOREM AddressSurvives == Spec => []SavedAddressSurvives
<1>1. ASSUME IInv, NEW i \in DOMAIN ctl, ctl[i].k = "expr", ctl[i].slots = 1
      PROVE  Len(stk) > ctl[i].sp0
  <2>1. /\ Len(ctl) \in Nat \ {0} /\ DOMAIN ctl = 1..Len(ctl)
        /\ Len(ctl) \in DOMAIN ctl
    BY <1>1, SeqFacts DEF IInv, Shape
  <2>2. Len(stk) = ctl[Len(ctl)].sp0 + ctl[Len(ctl)].slots
    BY <1>1, <2>1, SeqFacts DEF IInv, Shape
  <2>3. \A j \in DOMAIN ctl : ctl[j].sp0 \in Nat /\ ctl[j].slots \in Nat
    BY <1>1 DEF IInv, Shape, FrameOK
  <2>4. CASE i = Len(ctl)
    BY <1>1, <2>1, <2>2, <2>3, <2>4
  <2>5. CASE i < Len(ctl)
    <3>1. ctl[i].sp0 + ctl[i].slots <= ctl[Len(ctl)].sp0
      BY <1>1, <2>1, <2>5 DEF IInv, Shape
    <3> QED
      BY <1>1, <2>1, <2>2, <2>3, <3>1
  <2> QED
    BY <1>1, <2>1, <2>4, <2>5
<1>2. IInv => SavedAddressSurvives
  BY <1>1 DEF IInv, Shape, Kept, SavedAddressSurvives
<1> QED
  BY <1>2, InitIInv, NextIInv, PTL DEF Spec

-----------------------------------------------------------------------------
(* The arithmetic of bytes and words                                       *)

\* A quotient and a remainder are what division gives.
LEMMA DivMod ==
  ASSUME NEW n \in Nat, n > 0, NEW q \in Int, NEW r \in 0..(n - 1)
  PROVE  (n * q + r) % n = r /\ (n * q + r) \div n = q
OBVIOUS

\* What a remainder is.
LEMMA ModRange ==
  ASSUME NEW n \in Nat, n > 0, NEW a \in Int
  PROVE  a % n \in 0..(n - 1) /\ a = n * (a \div n) + (a % n) /\ a \div n \in Int
OBVIOUS

\* A number below the modulus is its own remainder.
LEMMA ModSmall ==
  ASSUME NEW n \in Nat, n > 0, NEW a \in 0..(n - 1)
  PROVE  a % n = a
OBVIOUS

\* A remainder and its number have the same successor.
LEMMA ModNext ==
  ASSUME NEW n \in Nat, n > 0, NEW a \in Int
  PROVE  ((a % n) + 1) % n = (a + 1) % n
<1>1. PICK q \in Int, r \in 0..(n - 1) : a = n * q + r
  BY ModRange
<1>2. a % n = r
  BY <1>1, DivMod
<1>3. CASE r + 1 < n
  <2>1. (a + 1) % n = r + 1
    BY <1>1, <1>3, DivMod
  <2> QED
    BY <1>2, <1>3, <2>1, ModSmall
<1>4. CASE r + 1 = n
  <2>1. a + 1 = n * (q + 1) + 0
    BY <1>1, <1>4
  <2>2. (a + 1) % n = 0
    BY <2>1, DivMod
  <2>3. n = n * 1 + 0
    OBVIOUS
  <2>4. n % n = 0
    BY <2>3, DivMod
  <2> QED
    BY <1>2, <1>4, <2>2, <2>4
<1> QED
  BY <1>3, <1>4

\* A byte is a word.
LEMMA Words ==
  /\ Byte * Byte \in Nat /\ Byte * Byte > 0 /\ Byte * Byte > Byte
  /\ 0..(Byte - 1) \subseteq Word
BY ByteAssumption DEF Word

\* Numbers are known.
LEMMA KnownInt == \A w \in Int : Known(w)
BY JunkAssumption DEF Known

\* A word is its two bytes.
LEMMA SplitWord ==
  ASSUME NEW w \in Word
  PROVE  /\ Hi(w) \in 0..(Byte - 1) /\ Lo(w) \in 0..(Byte - 1)
         /\ Pair(Hi(w), Lo(w)) = w
         /\ w \in 0..(Byte - 1) => Lo(w) = w /\ Hi(w) = 0
<1>1. /\ w % Byte \in 0..(Byte - 1) /\ w = Byte * (w \div Byte) + (w % Byte)
      /\ w \div Byte \in Int /\ w \in Int
  BY ByteAssumption, ModRange DEF Word
<1>2. w \div Byte >= 0 /\ w \div Byte < Byte
  <2> DEFINE q == w \div Byte
             r == w % Byte
  <2>1. q \in Int /\ r \in 0..(Byte - 1) /\ w = Byte * q + r /\ Byte \in Nat /\ Byte > 1
    BY <1>1, ByteAssumption
  <2>2. w >= 0 /\ w < Byte * Byte
    BY ByteAssumption DEF Word
  <2> HIDE DEF q, r
  <2>3. q >= 0
    <3> SUFFICES ASSUME q <= -1 PROVE FALSE
      BY <2>1
    <3>1. Byte * q <= Byte * (-1)
      BY <2>1
    <3> QED
      BY <3>1, <2>1, <2>2
  <2>4. q < Byte
    <3> SUFFICES ASSUME q >= Byte PROVE FALSE
      BY <2>1
    <3>1. Byte * q >= Byte * Byte
      BY <2>1
    <3> QED
      BY <3>1, <2>1, <2>2
  <2> QED
    BY <2>3, <2>4 DEF q
<1>3. Known(w) /\ Known(w \div Byte) /\ Known(w % Byte)
  BY <1>1, KnownInt
<1>4. Hi(w) = w \div Byte /\ Lo(w) = w % Byte
  BY <1>3 DEF Hi, Lo
<1>5. Pair(Hi(w), Lo(w)) = w
  <2>1. Pair(Hi(w), Lo(w)) = (w \div Byte) * Byte + (w % Byte)
    BY <1>3, <1>4 DEF Pair
  <2>2. (w \div Byte) * Byte = Byte * (w \div Byte)
    BY <1>1, ByteAssumption
  <2> QED
    BY <2>1, <2>2, <1>1
<1>6. ASSUME w \in 0..(Byte - 1) PROVE Lo(w) = w /\ Hi(w) = 0
  <2>1. w = Byte * 0 + w
    BY <1>6, ByteAssumption
  <2> QED
    BY <2>1, <1>4, <1>6, DivMod, ByteAssumption
<1> QED
  BY <1>1, <1>2, <1>4, <1>5, <1>6, ByteAssumption

\* Two bytes are a word.
LEMMA JoinBytes ==
  ASSUME NEW h \in 0..(Byte - 1), NEW l \in 0..(Byte - 1)
  PROVE  /\ Pair(h, l) \in Word /\ Hi(Pair(h, l)) = h /\ Lo(Pair(h, l)) = l
<1>1. Known(h) /\ Known(l) /\ h \in Int /\ l \in Int /\ Byte \in Int
  BY KnownInt, ByteAssumption
<1>2. Pair(h, l) = Byte * h + l /\ Byte * h \in Int
  <2>1. h * Byte = Byte * h
    BY <1>1
  <2> QED
    BY <1>1, <2>1 DEF Pair
<1>3. Known(Byte * h + l)
  BY <1>1, KnownInt
<1>4. (Byte * h + l) % Byte = l /\ (Byte * h + l) \div Byte = h
  BY <1>1, ByteAssumption, DivMod
<1>5. Byte * h + l >= 0 /\ Byte * h + l < Byte * Byte
  <2>1. Byte * h <= Byte * (Byte - 1) /\ Byte * h >= 0
    BY ByteAssumption
  <2>2. Byte * (Byte - 1) = Byte * Byte - Byte
    BY ByteAssumption
  <2> QED
    BY <2>1, <2>2, <1>1, ByteAssumption
<1> QED
  BY <1>1, <1>2, <1>3, <1>4, <1>5, ByteAssumption DEF Word, Hi, Lo

\* Everything is cut to a word.
LEMMA WWord == \A a \in Int : W(a) \in Word
BY Words, ModRange DEF W, Word

\* Words add up to a word.
LEMMA SumWord ==
  ASSUME NEW v \in Int, NEW w \in Int
  PROVE  Sum(v, w) = W(v + w) /\ Sum(v, w) = Sum(w, v) /\ Sum(v, w) \in Word
<1>1. Known(v) /\ Known(w) /\ v + w = w + v /\ v + w \in Int
  BY KnownInt
<1> QED
  BY <1>1, WWord DEF Sum

\* A frame slot has an address, and the next byte is the next address.
LEMMA LocalWord ==
  ASSUME NEW i \in Int
  PROVE  /\ Local(i) \in Word
         /\ Sum(Local(i), 1) = Local(i + 1)
<1>1. FramePtr \in Int /\ FramePtr + i \in Int /\ FramePtr + (i + 1) = FramePtr + i + 1
  BY FrameAssumption
<1>2. Local(i) \in Word /\ Local(i) \in Int
  BY <1>1, WWord DEF Local, Word
<1>3. W(W(FramePtr + i) + 1) = W(FramePtr + i + 1)
  BY <1>1, Words, ModNext DEF W
<1> QED
  BY <1>1, <1>2, <1>3, SumWord DEF Local

\* A displacement in reach is the slot's.
LEMMA NearLocal ==
  ASSUME NEW i \in Int, ByteInReach(i)
  PROVE  IxD(i) = Local(i)
<1>1. Reach \in Nat /\ Reach > 0 /\ i + Reach \in 0..(2 * Reach - 1)
  BY ReachAssumption DEF ByteInReach
<1>2. (i + Reach) % (2 * Reach) = i + Reach
  BY <1>1, ModSmall
<1>3. ((i + Reach) % (2 * Reach)) - Reach = i
  BY <1>1, <1>2
<1> QED
  BY <1>3 DEF IxD

-----------------------------------------------------------------------------
(* The type invariant: registers, memory and descriptors                   *)

Regs == [{"a", "h", "l", "d", "e"} -> Cell]
Mems == [Word -> Cell]

\* Every operation on words and memory yields cells and words.
LEMMA CellFacts ==
  /\ 0 \in Cell /\ 1 \in Value /\ 0 \in Value /\ Junk \in Cell /\ Junk \in Value
  /\ \A v \in Value : Hi(v) \in Cell /\ Lo(v) \in Cell /\ Lo(v) \in Value
  /\ \A h, l \in Cell : Pair(h, l) \in Value
  /\ \A v, w \in Value : Sum(v, w) \in Value
  /\ \A n \in Int : W(n) \in Value /\ Local(n) \in Value /\ IxD(n) \in Value
<1>1. 0 \in Cell /\ 1 \in Value /\ 0 \in Value /\ Junk \in Cell /\ Junk \in Value
  BY Words, ByteAssumption DEF Cell, Value, Word
<1>2. \A v \in Value : Hi(v) \in Cell /\ Lo(v) \in Cell /\ Lo(v) \in Value
  <2> SUFFICES ASSUME NEW v \in Value
               PROVE  Hi(v) \in Cell /\ Lo(v) \in Cell /\ Lo(v) \in Value
    OBVIOUS
  <2>1. CASE v \in Word
    <3>1. Hi(v) \in 0..(Byte - 1) /\ Lo(v) \in 0..(Byte - 1)
      BY <2>1, SplitWord
    <3> QED
      BY <3>1, Words DEF Cell, Value
  <2>2. CASE v = Junk
    <3>1. Hi(v) = Junk /\ Lo(v) = Junk
      BY <2>2 DEF Hi, Lo, Known
    <3> QED
      BY <3>1 DEF Cell, Value
  <2> QED
    BY <2>1, <2>2 DEF Value
<1>3. \A h, l \in Cell : Pair(h, l) \in Value
  <2> SUFFICES ASSUME NEW h \in Cell, NEW l \in Cell PROVE Pair(h, l) \in Value
    OBVIOUS
  <2>1. CASE h = Junk \/ l = Junk
    BY <2>1 DEF Pair, Known, Value
  <2>2. CASE h # Junk /\ l # Junk
    BY <2>2, JoinBytes DEF Cell, Value
  <2> QED
    BY <2>1, <2>2
<1>4. \A v, w \in Value : Sum(v, w) \in Value
  <2> SUFFICES ASSUME NEW v \in Value, NEW w \in Value PROVE Sum(v, w) \in Value
    OBVIOUS
  <2>1. CASE v = Junk \/ w = Junk
    BY <2>1 DEF Sum, Known, Value
  <2>2. CASE v # Junk /\ w # Junk
    <3>1. v \in Int /\ w \in Int
      BY <2>2 DEF Value, Word
    <3> QED
      BY <3>1, SumWord DEF Value
  <2> QED
    BY <2>1, <2>2
<1>5. ASSUME NEW n \in Int
      PROVE  W(n) \in Value /\ Local(n) \in Value /\ IxD(n) \in Value
  <2>1. W(n) \in Word /\ Local(n) \in Word
    BY WWord, LocalWord
  <2> DEFINE d == ((n + Reach) % (2 * Reach)) - Reach
  <2>2. d \in Int
    <3>1. 2 * Reach \in Nat /\ 2 * Reach > 0 /\ n + Reach \in Int /\ Reach \in Int
      BY ReachAssumption
    <3>2. (n + Reach) % (2 * Reach) \in 0..(2 * Reach - 1)
      BY <3>1, ModRange
    <3> QED
      BY <3>1, <3>2
  <2>3. Local(d) \in Word
    <3> HIDE DEF d
    <3> QED
      BY <2>2, LocalWord
  <2> QED
    BY <2>1, <2>3 DEF IxD, Value
<1> QED
  BY <1>1, <1>2, <1>3, <1>4, <1>5

\* Memory is read and written in cells.
LEMMA MemFacts ==
  ASSUME NEW M \in Mems
  PROVE  /\ \A w \in Value : Fetch(M, w) \in Cell /\ Fetch2(M, w) \in Value
         /\ \A w \in Value : \A b \in Cell : Store(M, w, b) \in Mems
<1>1. \A w \in Value : Fetch(M, w) \in Cell
  BY DEF Fetch, Known, Value, Mems, Cell
<1>2. \A w \in Value : Fetch2(M, w) \in Value
  BY <1>1, CellFacts DEF Fetch2
<1>3. \A w \in Value : \A b \in Cell : Store(M, w, b) \in Mems
  <2> SUFFICES ASSUME NEW w \in Value, NEW b \in Cell PROVE Store(M, w, b) \in Mems
    OBVIOUS
  <2>1. CASE w = Junk
    BY <2>1, CellFacts DEF Store, Known, Mems
  <2>2. CASE w # Junk
    BY <2>2 DEF Store, Known, Mems
  <2> QED
    BY <2>1, <2>2
<1> QED
  BY <1>1, <1>2, <1>3

\* The instructions the emitter knows leave cells in the registers.
LEMMA RegFacts ==
  ASSUME NEW r \in Regs
  PROVE  /\ HL(r) \in Value /\ DE(r) \in Value /\ ZeroExtendA(r) \in Regs
         /\ \A w \in Value : LdHL(r, w) \in Regs /\ LdDE(r, w) \in Regs
<1>1. r.a \in Cell /\ r.h \in Cell /\ r.l \in Cell /\ r.d \in Cell /\ r.e \in Cell
  BY DEF Regs
<1>2. HL(r) \in Value /\ DE(r) \in Value
  BY <1>1, CellFacts DEF HL, DE
<1>3. ZeroExtendA(r) \in Regs
  BY <1>1, CellFacts DEF ZeroExtendA, Regs
<1>4. ASSUME NEW w \in Value PROVE LdHL(r, w) \in Regs /\ LdDE(r, w) \in Regs
  <2>1. Hi(w) \in Cell /\ Lo(w) \in Cell
    BY CellFacts
  <2> QED
    BY <2>1 DEF LdHL, LdDE, Regs
<1> QED
  BY <1>2, <1>3, <1>4

\* Loads leave the registers with cells.
LEMMA LoadFacts ==
  ASSUME NEW r \in Regs, NEW M \in Mems
  PROVE  /\ LoadU8(r, M) \in Regs /\ LoadU16(r, M) \in Regs
         /\ \A i \in Int : /\ LoadLocalAddrHL(r, i) \in Regs
                           /\ LoadByteLocal(r, M, i) \in Regs
                           /\ LoadWordLocal(r, M, i) \in Regs
<1>1. \A s \in Regs : LoadU8(s, M) \in Regs /\ LoadU16(s, M) \in Regs
  <2> SUFFICES ASSUME NEW s \in Regs PROVE LoadU8(s, M) \in Regs /\ LoadU16(s, M) \in Regs
    OBVIOUS
  <2>1. HL(s) \in Value /\ Sum(HL(s), 1) \in Value
    BY RegFacts, CellFacts
  <2>2. Fetch(M, HL(s)) \in Cell /\ Fetch(M, Sum(HL(s), 1)) \in Cell
    BY <2>1, MemFacts
  <2> QED
    BY <2>2 DEF LoadU8, LoadU16, Regs
<1>2. ASSUME NEW i \in Int PROVE LoadLocalAddrHL(r, i) \in Regs
  <2>1. W(i) \in Value /\ Local(i) \in Value
    BY CellFacts
  <2>2. LdDE(r, W(i)) \in Regs
    BY <2>1, RegFacts
  <2> QED
    BY <2>1, <2>2, RegFacts DEF LoadLocalAddrHL
<1>3. ASSUME NEW i \in Int PROVE LoadByteLocal(r, M, i) \in Regs
  <2>1. CASE ByteInReach(i)
    <3>1. Fetch(M, IxD(i)) \in Cell /\ 0 \in Cell
      BY CellFacts, MemFacts
    <3> QED
      BY <2>1, <3>1 DEF LoadByteLocal, Regs
  <2>2. CASE ~ByteInReach(i)
    BY <2>2, <1>1, <1>2, RegFacts DEF LoadByteLocal
  <2> QED
    BY <2>1, <2>2
<1>4. ASSUME NEW i \in Int PROVE LoadWordLocal(r, M, i) \in Regs
  <2>1. CASE WordInReach(i)
    <3>1. Fetch(M, IxD(i)) \in Cell /\ Fetch(M, IxD(i + 1)) \in Cell
      BY CellFacts, MemFacts
    <3> QED
      BY <2>1, <3>1 DEF LoadWordLocal, Regs
  <2>2. CASE ~WordInReach(i)
    BY <2>2, <1>1, <1>2 DEF LoadWordLocal
  <2> QED
    BY <2>1, <2>2
<1> QED
  BY <1>1, <1>2, <1>3, <1>4

DescFields == {"ty", "lv", "const", "ival", "label", "a", "hl", "off", "ix",
               "addr", "val", "loc", "rd", "wr"}

\* a descriptor's numbers are numbers and its label is one
Desc(e) ==
  /\ DOMAIN e = DescFields
  /\ e.ival \in Int /\ e.ix \in Int /\ e.val \in Value /\ e.loc \in Value
  /\ e.label # "none" => e.label \in Funcs \cup {"str"}

\* The two conversions take typed operands and registers to such.
LEMMA EnsureTyped ==
  ASSUME NEW e, NEW r, NEW M, Desc(e), r \in Regs, M \in Mems
  PROVE  /\ Desc(EnsureHL(e, r, M).d) /\ EnsureHL(e, r, M).r \in Regs
         /\ Desc(EnsureA(e, r, M).d) /\ EnsureA(e, r, M).r \in Regs
<1>1. r.a \in Cell /\ r.h \in Cell /\ r.l \in Cell
  BY DEF Regs
<1>2. ASSUME NEW c \in Cell PROVE [r EXCEPT !.a = c] \in Regs
  BY <1>2 DEF Regs
<1>3. W(e.ival) \in Value /\ IxD(e.ix) \in Value /\ e.ix \in Int /\ e.ival \in Int
  BY CellFacts DEF Desc
<1>4. e.label # "none" => LabelAddr[e.label] \in Value
  BY LabelAssumption DEF Desc, Value, Word
<1>5. Desc(EnsureHL(e, r, M).d)
  <2>1. /\ Desc([e EXCEPT !.hl = TRUE])
        /\ Desc([[e EXCEPT !.hl = TRUE] EXCEPT !.off = FALSE])
        /\ Desc([[e EXCEPT !.hl = TRUE] EXCEPT !.addr = FALSE])
        /\ Desc([[e EXCEPT !.hl = TRUE] EXCEPT !.a = FALSE])
    BY DEF Desc, DescFields
  <2> QED
    BY <2>1 DEF EnsureHL
<1>6. Desc(EnsureA(e, r, M).d)
  <2>1. /\ Desc([e EXCEPT !.a = TRUE])
        /\ Desc([[e EXCEPT !.a = TRUE] EXCEPT !.off = FALSE])
        /\ Desc([[e EXCEPT !.a = TRUE] EXCEPT !.addr = FALSE])
    BY DEF Desc, DescFields
  <2> QED
    BY <2>1 DEF EnsureA
<1>7. EnsureHL(e, r, M).r \in Regs
  <2> DEFINE w == IF e.label # "none" THEN LabelAddr[e.label] ELSE W(e.ival)
  <2>1. LdHL(r, w) \in Regs
    <3>1. w \in Value
      BY <1>3, <1>4
    <3> HIDE DEF w
    <3> QED
      BY <3>1, RegFacts
  <2>2. /\ LoadByteLocal(r, M, e.ix) \in Regs /\ LoadWordLocal(r, M, e.ix) \in Regs
        /\ LoadU16(r, M) \in Regs /\ ZeroExtendA(r) \in Regs
        /\ ZeroExtendA(LoadU8(r, M)) \in Regs
    BY <1>3, LoadFacts, RegFacts
  <2> HIDE DEF w
  <2>3. EnsureHL(e, r, M).r \in
          {r, LoadByteLocal(r, M, e.ix), LoadWordLocal(r, M, e.ix), LoadU16(r, M),
           ZeroExtendA(LoadU8(r, M)), ZeroExtendA(r), LdHL(r, w)}
    BY DEF EnsureHL, w
  <2> QED
    BY <2>1, <2>2, <2>3
<1>8. EnsureA(e, r, M).r \in Regs
  <2>1. /\ [r EXCEPT !.a = Fetch(M, IxD(e.ix))] \in Regs
        /\ [r EXCEPT !.a = Lo(W(e.ival))] \in Regs
        /\ [r EXCEPT !.a = r.l] \in Regs
    <3>1. Fetch(M, IxD(e.ix)) \in Cell /\ Lo(W(e.ival)) \in Cell
      BY <1>3, MemFacts, CellFacts
    <3> QED
      BY <1>1, <1>2, <3>1
  <2>2. LoadU8(LoadLocalAddrHL(r, e.ix), M) \in Regs /\ LoadU8(r, M) \in Regs
    BY <1>3, LoadFacts
  <2>3. EnsureA(e, r, M).r \in
          {r, [r EXCEPT !.a = Fetch(M, IxD(e.ix))], [r EXCEPT !.a = Lo(W(e.ival))],
           [r EXCEPT !.a = r.l], LoadU8(LoadLocalAddrHL(r, e.ix), M), LoadU8(r, M)}
    BY DEF EnsureA
  <2> QED
    BY <2>1, <2>2, <2>3
<1> QED
  BY <1>5, <1>6, <1>7, <1>8

FrameTyped(f) ==
  /\ f.k \in {"expr", "paren", "amp", "deref", "call"}
  /\ f.at \in Value /\ Desc(f.lhs)
  /\ IsSeq(f.args) /\ \A k \in DOMAIN f.args : Desc(f.args[k])

CtlTyped(c) == \A i \in DOMAIN c : FrameTyped(c[i])
StkTyped(s) == \A i \in DOMAIN s : s[i][1] \in Cell /\ s[i][2] \in Cell

\* what TypeOK says, of descriptors too
TInv ==
  /\ tok \in Tokens \cup {EndTok} /\ left \in 0..MaxTokens /\ mode \in Modes
  /\ goal \in Goals /\ err \in BOOLEAN /\ frag \in BOOLEAN /\ cub \in BOOLEAN
  /\ CtlTyped(ctl) /\ StkTyped(stk) /\ Desc(res)
  /\ reg \in Regs /\ mem \in Mems /\ cmem \in Mems

\* The zeroed descriptor is one.
LEMMA DescNone == Desc(NoDesc)
BY CellFacts DEF Desc, DescFields, NoDesc

\* So are those of literals and names.
LEMMA DescLeaves ==
  /\ \A n \in Int : Desc(Literal(n))
  /\ Desc(StringLit)
  /\ \A v \in Vars \cup Funcs : cmem \in Mems => Desc(LoadIdent(v))
<1>1. \A n \in Int : Desc(Literal(n))
  BY DescNone, CellFacts DEF Literal, Desc, DescFields
<1>2. Desc(StringLit)
  <2>1. LabelAddr["str"] \in Value
    BY LabelAssumption DEF Value, Word
  <2> QED
    BY <2>1, DescNone DEF StringLit, Desc, DescFields
<1>3. ASSUME NEW v \in Vars \cup Funcs, cmem \in Mems PROVE Desc(LoadIdent(v))
  <2>1. CASE v \in Vars
    <3>1. VarOff[v] \in Int /\ Local(VarOff[v]) \in Value
      BY <2>1, VarAssumption, CellFacts
    <3>2. Load(VarType[v], cmem, Local(VarOff[v])) \in Value
      <4>1. Fetch(cmem, Local(VarOff[v])) \in Cell /\ Fetch2(cmem, Local(VarOff[v])) \in Value
        BY <1>3, <3>1, MemFacts
      <4> QED
        BY <4>1, Words DEF Load, Cell, Value
    <3> QED
      BY <2>1, <3>1, <3>2, DescNone DEF LoadIdent, Desc, DescFields
  <2>2. CASE v \notin Vars
    <3>1. v \in Funcs /\ LabelAddr[v] \in Value
      BY <1>3, <2>2, LabelAssumption DEF Value, Word
    <3> QED
      BY <2>2, <3>1, DescNone DEF LoadIdent, Desc, DescFields
  <2> QED
    BY <2>1, <2>2
<1> QED
  BY <1>1, <1>2, <1>3

\* One more call, the innermost one gone, the innermost one changed.
LEMMA CtlFacts ==
  ASSUME NEW c, IsSeq(c), CtlTyped(c)
  PROVE  /\ \A f : FrameTyped(f) => CtlTyped(Append(c, f)) /\ IsSeq(Append(c, f))
         /\ c # <<>> => CtlTyped(Butlast(c)) /\ FrameTyped(c[Len(c)]) /\ IsSeq(Butlast(c))
         /\ c # <<>> => \A f : FrameTyped(f) => CtlTyped(Replaced(c, f)) /\ IsSeq(Replaced(c, f))
<1>1. ASSUME NEW d, IsSeq(d), CtlTyped(d), NEW f, FrameTyped(f)
      PROVE  CtlTyped(Append(d, f)) /\ IsSeq(Append(d, f))
  <2>1. /\ IsSeq(Append(d, f)) /\ DOMAIN Append(d, f) = 1..(Len(d) + 1)
        /\ Len(d) \in Nat /\ DOMAIN d = 1..Len(d) /\ Append(d, f)[Len(d) + 1] = f
        /\ \A i \in 1..Len(d) : Append(d, f)[i] = d[i]
    BY <1>1, AppendFacts
  <2>2. \A i \in 1..(Len(d) + 1) : i = Len(d) + 1 \/ i \in 1..Len(d)
    BY <2>1
  <2> QED
    BY <1>1, <2>1, <2>2 DEF CtlTyped
<1>2. ASSUME c # <<>>
      PROVE  CtlTyped(Butlast(c)) /\ FrameTyped(c[Len(c)]) /\ IsSeq(Butlast(c))
  <2>1. /\ IsSeq(Butlast(c)) /\ DOMAIN Butlast(c) = 1..(Len(c) - 1)
        /\ \A i \in 1..(Len(c) - 1) : Butlast(c)[i] = c[i]
        /\ DOMAIN c = 1..Len(c) /\ Len(c) \in Nat \ {0}
    BY <1>2, ButlastFacts
  <2>2. Len(c) \in DOMAIN c /\ \A i \in 1..(Len(c) - 1) : i \in DOMAIN c
    BY <2>1
  <2> QED
    BY <2>1, <2>2 DEF CtlTyped
<1> QED
  BY <1>1, <1>2 DEF Replaced

\* The machine stack holds pairs of cells.
LEMMA StkFacts ==
  ASSUME NEW s, IsSeq(s), StkTyped(s)
  PROVE  /\ \A h, l \in Cell : StkTyped(Append(s, <<h, l>>))
         /\ \A n \in 0..Len(s) : StkTyped(SubSeq(s, 1, n))
<1>1. ASSUME NEW h \in Cell, NEW l \in Cell PROVE StkTyped(Append(s, <<h, l>>))
  <2> DEFINE w == <<h, l>>
  <2>1. w[1] \in Cell /\ w[2] \in Cell
    OBVIOUS
  <2> HIDE DEF w
  <2>2. /\ DOMAIN Append(s, w) = 1..(Len(s) + 1)
        /\ Len(s) \in Nat /\ DOMAIN s = 1..Len(s) /\ Append(s, w)[Len(s) + 1] = w
        /\ \A i \in 1..Len(s) : Append(s, w)[i] = s[i]
    BY AppendFacts
  <2>3. \A i \in 1..(Len(s) + 1) : i = Len(s) + 1 \/ i \in 1..Len(s)
    BY <2>2
  <2>4. StkTyped(Append(s, w))
    BY <2>1, <2>2, <2>3 DEF StkTyped
  <2> QED
    BY <2>4 DEF w
<1>2. ASSUME NEW n \in 0..Len(s) PROVE StkTyped(SubSeq(s, 1, n))
  <2>1. /\ DOMAIN SubSeq(s, 1, n) = 1..n /\ \A i \in 1..n : SubSeq(s, 1, n)[i] = s[i]
        /\ Len(s) \in Nat /\ DOMAIN s = 1..Len(s)
    BY SubSeqFacts, SeqFacts
  <2>2. \A i \in 1..n : i \in DOMAIN s
    BY <2>1
  <2> QED
    BY <2>1, <2>2 DEF StkTyped
<1> QED
  BY <1>1, <1>2

-----------------------------------------------------------------------------
(* The type invariant: one lemma per kind of step                          *)

\* The calls that are entered are typed.
LEMMA NewFrames ==
  /\ FrameTyped(NoFrame) /\ DOMAIN NoFrame = Fields
  /\ \A k \in {"expr", "paren", "amp", "deref", "call"} : \A n :
       FrameTyped([NoFrame EXCEPT !.k = k, !.sp0 = n])
  /\ \A d, n : Desc(d) => FrameTyped([NoFrame EXCEPT !.k = "call", !.lhs = d, !.sp0 = n])
  /\ \A p, n : FrameTyped([ExprFrame(p) EXCEPT !.sp0 = n]) /\ FrameTyped([NoFrame EXCEPT !.sp0 = n])
<1>1. IsSeq(<<>>) /\ DOMAIN <<>> = {}
  <2>1. <<>> \in Seq({}) /\ Len(<<>>) = 0
    OBVIOUS
  <2>2. IsSeq(<<>>)
    BY <2>1 DEF IsSeq
  <2> QED
    BY <2>1, <2>2, SeqFacts
<1>2. Junk \in Value /\ Desc(NoDesc)
  BY CellFacts, DescNone
<1>3. DOMAIN NoFrame = Fields
  BY DEF NoFrame, Fields
<1>4. FrameTyped(NoFrame)
  BY <1>1, <1>2 DEF FrameTyped, NoFrame
<1>5. ASSUME NEW k \in {"expr", "paren", "amp", "deref", "call"}, NEW n
      PROVE  FrameTyped([NoFrame EXCEPT !.k = k, !.sp0 = n])
  BY <1>5, <1>3, <1>4 DEF FrameTyped, Fields
<1>6. ASSUME NEW d, NEW n, Desc(d)
      PROVE  FrameTyped([NoFrame EXCEPT !.k = "call", !.lhs = d, !.sp0 = n])
  BY <1>6, <1>3, <1>4 DEF FrameTyped, Fields
<1>7. ASSUME NEW p, NEW n
      PROVE  FrameTyped([ExprFrame(p) EXCEPT !.sp0 = n]) /\ FrameTyped([NoFrame EXCEPT !.sp0 = n])
  <2>1. DOMAIN ExprFrame(p) = Fields /\ FrameTyped(ExprFrame(p))
    BY <1>3, <1>4 DEF FrameTyped, Fields, ExprFrame
  <2> QED
    BY <2>1, <1>3, <1>4 DEF FrameTyped, Fields
<1> QED
  BY <1>3, <1>4, <1>5, <1>6, <1>7

\* what the innermost call is
LEMMA TopTyped ==
  ASSUME IInv, TInv, ctl # <<>>
  PROVE  /\ FrameTyped(Top) /\ DOMAIN Top = Fields
         /\ Desc(Top.lhs) /\ Top.at \in Value /\ Top.k \in {"expr", "paren", "amp", "deref", "call"}
         /\ CtlTyped(Below)
         /\ \A f : FrameTyped(f) => CtlTyped(Append(Below, f))
<1>1. IsSeq(ctl) /\ FrameOK(Top)
  BY TopFacts
<1>2. /\ CtlTyped(Butlast(ctl)) /\ FrameTyped(ctl[Len(ctl)])
      /\ \A f : FrameTyped(f) => CtlTyped(Replaced(ctl, f))
  BY <1>1, CtlFacts DEF TInv
<1> QED
  BY <1>1, <1>2 DEF Top, Below, Butlast, Replaced, FrameOK, FrameTyped

\* the token of lookahead
LEMMA TokenTyped ==
  ASSUME TInv
  PROVE  /\ Advance => tok' \in Tokens \cup {EndTok} /\ left' \in 0..MaxTokens
         /\ UNCHANGED <<tok, left>> => tok' \in Tokens \cup {EndTok} /\ left' \in 0..MaxTokens
         /\ \A kind : Expect(kind) => /\ tok' \in Tokens \cup {EndTok} /\ left' \in 0..MaxTokens
                                      /\ err' \in BOOLEAN
<1>1. ASSUME Advance PROVE tok' \in Tokens \cup {EndTok} /\ left' \in 0..MaxTokens
  BY <1>1, BoundAssumption DEF Advance, TInv
<1>2. ASSUME UNCHANGED <<tok, left>> PROVE tok' \in Tokens \cup {EndTok} /\ left' \in 0..MaxTokens
  BY <1>2 DEF TInv
<1>3. ASSUME NEW kind, Expect(kind) PROVE err' \in BOOLEAN /\ (Advance \/ UNCHANGED <<tok, left>>)
  BY <1>3 DEF Expect, TInv
<1> QED
  BY <1>1, <1>2, <1>3

\* a step that emits nothing
LEMMA QuietTyped ==
  ASSUME TInv, UNCHANGED <<reg, stk, mem, cmem, goal>>,
         tok' \in Tokens \cup {EndTok} /\ left' \in 0..MaxTokens,
         mode' \in Modes, err' \in BOOLEAN, frag' \in BOOLEAN, cub' \in BOOLEAN,
         CtlTyped(ctl'), Desc(res')
  PROVE  TInv'
BY DEF TInv

\* A token that is not the end of the input is one of the alphabet.
LEMMA ReadToken ==
  ASSUME TInv
  PROVE  /\ tok.k = "int" => tok.n \in Int
         /\ tok.k = "ident" => tok.s \in Vars \cup Funcs
<1>1. tok \in Tokens \/ tok = EndTok
  BY DEF TInv
<1>2. EndTok.k = ";"
  BY DEF EndTok, T
<1> QED
  BY <1>1, <1>2, TokenAssumption

\* cc1_parse_primary keeps the types
LEMMA PrimaryTyped ==
  ASSUME IInv, TInv, Leaf \/ NoPrimary \/ NoCallSuffix \/ NoArgs
  PROVE  TInv'
<1>1. ASSUME Leaf PROVE Desc(res') /\ Advance /\ mode' \in Modes
  <2>1. CASE tok.k = "int"
    <3>1. tok.n \in Int
      BY <2>1, ReadToken
    <3>2. res' = Literal(tok.n)
      BY <1>1, <2>1 DEF Leaf
    <3> QED
      BY <1>1, <3>1, <3>2, DescLeaves DEF Leaf, Modes
  <2>2. CASE tok.k = "str"
    BY <1>1, <2>2, DescLeaves DEF Leaf, Modes
  <2>3. CASE tok.k = "ident"
    <3>1. tok.s \in Vars \cup Funcs
      BY <2>3, ReadToken
    <3>2. res' = LoadIdent(tok.s)
      BY <1>1, <2>3 DEF Leaf
    <3> QED
      BY <1>1, <3>1, <3>2, DescLeaves DEF Leaf, Modes, TInv
  <2> QED
    BY <1>1, <2>1, <2>2, <2>3 DEF Leaf
<1>2. ASSUME NoPrimary \/ NoCallSuffix \/ NoArgs
      PROVE  Desc(res') /\ (Advance \/ UNCHANGED <<tok, left>>) /\ mode' \in Modes
  BY <1>2, DescNone DEF NoPrimary, NoCallSuffix, NoArgs, TInv, Modes
<1>3. UNCHANGED <<reg, stk, mem, cmem, goal>> /\ UNCHANGED ctl
  BY DEF Leaf, NoPrimary, NoCallSuffix, NoArgs, machine, ghost
<1>4. err' \in BOOLEAN /\ frag' \in BOOLEAN /\ cub' \in BOOLEAN
  BY DEF Leaf, NoPrimary, NoCallSuffix, NoArgs, ghost, TInv
<1>5. CtlTyped(ctl')
  BY <1>3 DEF TInv
<1> QED
  BY <1>1, <1>2, <1>3, <1>4, <1>5, TokenTyped, QuietTyped

\* so does sizeof
LEMMA SizeofTyped ==
  ASSUME TInv, SizeofOpen \/ SizeofParen \/ SizeofType \/ SizeofStar \/ SizeofClose
  PROVE  TInv'
<1>1. Desc(Literal(0)) /\ Desc(Literal(SizeOf(res.ty)))
  <2>1. SizeOf(res.ty) \in Int /\ 0 \in Int
    BY DEF SizeOf
  <2> QED
    BY <2>1, DescLeaves
<1>2. Desc([NoDesc EXCEPT !.ty = <<tok.s>>]) /\ Desc([res EXCEPT !.ty = PtrTo(res.ty)])
  <2>1. \A d, t : Desc(d) => Desc([d EXCEPT !.ty = t])
    BY DEF Desc, DescFields
  <2> QED
    BY <2>1, DescNone DEF TInv
<1>3. Desc(res')
  BY <1>1, <1>2 DEF SizeofOpen, SizeofParen, SizeofType, SizeofStar, SizeofClose, TInv
<1>4. UNCHANGED <<reg, stk, mem, cmem, goal>> /\ UNCHANGED ctl
  BY DEF SizeofOpen, SizeofParen, SizeofType, SizeofStar, SizeofClose, machine, ghost
<1>5. mode' \in Modes /\ frag' \in BOOLEAN /\ cub' \in BOOLEAN
  BY DEF SizeofOpen, SizeofParen, SizeofType, SizeofStar, SizeofClose, ghost, TInv, Modes
<1>6. /\ tok' \in Tokens \cup {EndTok} /\ left' \in 0..MaxTokens
      /\ err' \in BOOLEAN
  <2>1. CASE SizeofClose
    BY <2>1, TokenTyped DEF SizeofClose
  <2>2. CASE SizeofOpen \/ SizeofParen \/ SizeofType \/ SizeofStar
    <3>1. (Advance \/ UNCHANGED <<tok, left>>) /\ err' \in BOOLEAN
      BY <2>2 DEF SizeofOpen, SizeofParen, SizeofType, SizeofStar, TInv
    <3> QED
      BY <3>1, TokenTyped
  <2> QED
    BY <2>1, <2>2
<1>7. CtlTyped(ctl')
  BY <1>4 DEF TInv
<1> QED
  BY <1>3, <1>4, <1>5, <1>6, <1>7, QuietTyped

\* entering calls
LEMMA EnterTyped ==
  ASSUME IInv, TInv, OpenParen \/ PrefixOp \/ OpenCall \/ ParseArg
  PROVE  TInv'
<1>1. IsSeq(ctl) /\ CtlTyped(ctl) /\ Desc(res)
  BY DEF IInv, Shape, TInv
<1>2. \A f : FrameTyped(f) => CtlTyped(Append(ctl, f)) /\ IsSeq(Append(ctl, f))
  BY <1>1, CtlFacts
<1>3. CtlTyped(ctl')
  <2>1. CASE OpenParen
    <3> DEFINE g == [NoFrame EXCEPT !.k = "paren", !.sp0 = Len(stk)]
               h == [NoFrame EXCEPT !.sp0 = Len(stk)]
    <3>1. ctl' = Append(Append(ctl, g), h)
      <4>1. PICK S : ctl \in Seq(S)
        BY <1>1 DEF IsSeq
      <4>2. ctl' = ctl \o <<g, h>>
        BY <2>1 DEF OpenParen
      <4> HIDE DEF g, h
      <4>3. ctl \in Seq(S \cup {g, h})
        BY <4>1
      <4> QED
        BY <4>2, <4>3
    <3>2. FrameTyped(g) /\ FrameTyped(h)
      BY NewFrames
    <3> HIDE DEF g, h
    <3>3. CtlTyped(Append(ctl, g)) /\ IsSeq(Append(ctl, g))
      BY <1>2, <3>2
    <3> QED
      BY <3>1, <3>2, <3>3, CtlFacts
  <2>2. CASE PrefixOp
    <3> DEFINE kind == IF tok.k = "&" THEN "amp" ELSE "deref"
               g == [NoFrame EXCEPT !.k = kind, !.sp0 = Len(stk)]
    <3>1. ctl' = Append(ctl, g)
      <4>1. [[NoFrame EXCEPT !.k = kind] EXCEPT !.sp0 = Len(stk)] = g
        BY DEF NoFrame
      <4> QED
        BY <2>2, <4>1 DEF PrefixOp, Enter
    <3>2. FrameTyped(g)
      BY NewFrames
    <3> HIDE DEF g
    <3> QED
      BY <3>1, <3>2, <1>2
  <2>3. CASE OpenCall
    <3> DEFINE g == [NoFrame EXCEPT !.k = "call", !.lhs = res, !.sp0 = Len(stk)]
    <3>1. ctl' = Append(ctl, g)
      <4>1. [[NoFrame EXCEPT !.k = "call", !.lhs = res] EXCEPT !.sp0 = Len(stk)] = g
        BY DEF NoFrame
      <4> QED
        BY <2>3, <4>1 DEF OpenCall, Enter
    <3>2. FrameTyped(g)
      BY <1>1, NewFrames
    <3> HIDE DEF g
    <3> QED
      BY <3>1, <3>2, <1>2
  <2>4. CASE ParseArg
    <3> DEFINE g == [ExprFrame(1) EXCEPT !.sp0 = Len(stk)]
    <3>1. ctl' = ctl \/ ctl' = Append(ctl, g)
      BY <2>4 DEF ParseArg, Enter
    <3>2. FrameTyped(g)
      BY NewFrames
    <3> HIDE DEF g
    <3> QED
      BY <1>1, <1>2, <3>1, <3>2
  <2> QED
    BY <2>1, <2>2, <2>3, <2>4
<1>4. UNCHANGED <<reg, stk, mem, cmem, goal>> /\ UNCHANGED res
  BY DEF OpenParen, PrefixOp, OpenCall, ParseArg, machine, ghost
<1>5. mode' \in Modes
  BY DEF OpenParen, PrefixOp, OpenCall, ParseArg, TInv, Modes
<1>6. err' \in BOOLEAN /\ frag' \in BOOLEAN /\ cub' \in BOOLEAN
  BY DEF OpenParen, PrefixOp, OpenCall, ParseArg, ghost, TInv
<1>7. Advance \/ UNCHANGED <<tok, left>>
  BY DEF OpenParen, PrefixOp, OpenCall, ParseArg
<1>8. Desc(res')
  BY <1>1, <1>4
<1> QED
  BY <1>3, <1>4, <1>5, <1>6, <1>7, <1>8, TokenTyped, QuietTyped

\* returning from calls, and going on in one, with nothing emitted
LEMMA ReturnTyped ==
  ASSUME IInv, TInv, CloseParen \/ ArgParsed \/ UnaryParsed \/ EndExpr \/ KeepRhs
  PROVE  TInv'
<1>1. ctl # <<>>
  BY DEF CloseParen, ArgParsed, UnaryParsed, EndExpr, KeepRhs, Returning, InLoop
<1>2. /\ FrameTyped(Top) /\ DOMAIN Top = Fields /\ Desc(Top.lhs) /\ CtlTyped(Below)
      /\ \A f : FrameTyped(f) => CtlTyped(Append(Below, f))
  BY <1>1, TopTyped
<1>3. Desc(res)
  BY DEF TInv
<1>4. CtlTyped(ctl')
  <2>1. CASE CloseParen \/ EndExpr
    BY <2>1, <1>2 DEF CloseParen, EndExpr
  <2>2. CASE ArgParsed
    <3> DEFINE g == [Top EXCEPT !.args = Append(Top.args, res)]
    <3>1. ctl' = Append(Below, g)
      BY <2>2 DEF ArgParsed, Replace
    <3>2. IsSeq(Top.args) /\ \A k \in DOMAIN Top.args : Desc(Top.args[k])
      BY <1>2 DEF FrameTyped
    <3>3. /\ IsSeq(Append(Top.args, res))
          /\ \A k \in DOMAIN Append(Top.args, res) : Desc(Append(Top.args, res)[k])
      <4>1. /\ IsSeq(Append(Top.args, res)) /\ DOMAIN Append(Top.args, res) = 1..(Len(Top.args) + 1)
            /\ Len(Top.args) \in Nat /\ DOMAIN Top.args = 1..Len(Top.args)
            /\ Append(Top.args, res)[Len(Top.args) + 1] = res
            /\ \A i \in 1..Len(Top.args) : Append(Top.args, res)[i] = Top.args[i]
        BY <3>2, AppendFacts
      <4>2. \A i \in 1..(Len(Top.args) + 1) : i = Len(Top.args) + 1 \/ i \in 1..Len(Top.args)
        BY <4>1
      <4> QED
        BY <4>1, <4>2, <3>2, <1>3
    <3>4. FrameTyped(g)
      BY <1>2, <3>3 DEF FrameTyped, Fields
    <3> HIDE DEF g
    <3> QED
      BY <3>1, <3>4, <1>2
  <2>3. CASE UnaryParsed
    <3> DEFINE g == [Top EXCEPT !.lhs = res]
    <3>1. ctl' = Append(Below, g)
      BY <2>3 DEF UnaryParsed, Replace
    <3>2. FrameTyped(g)
      BY <1>2, <1>3 DEF FrameTyped, Fields
    <3> HIDE DEF g
    <3> QED
      BY <3>1, <3>2, <1>2
  <2>4. CASE KeepRhs
    <3> DEFINE g == [Top EXCEPT !.op = "none", !.lhs = res]
    <3>1. ctl' = Append(Below, g)
      BY <2>4 DEF KeepRhs, Replace
    <3>2. FrameTyped(g)
      BY <1>2, <1>3 DEF FrameTyped, Fields
    <3> HIDE DEF g
    <3> QED
      BY <3>1, <3>2, <1>2
  <2> QED
    BY <2>1, <2>2, <2>3, <2>4
<1>5. UNCHANGED <<reg, stk, mem, cmem, goal>>
  BY DEF CloseParen, ArgParsed, UnaryParsed, EndExpr, KeepRhs, machine, ghost
<1>6. Desc(res')
  BY <1>2, <1>3 DEF CloseParen, ArgParsed, UnaryParsed, EndExpr, KeepRhs
<1>7. mode' \in Modes /\ frag' \in BOOLEAN /\ cub' \in BOOLEAN
  BY DEF CloseParen, ArgParsed, UnaryParsed, EndExpr, KeepRhs, ghost, TInv, Modes
<1>8. tok' \in Tokens \cup {EndTok} /\ left' \in 0..MaxTokens /\ err' \in BOOLEAN
  <2>1. CASE CloseParen
    BY <2>1, TokenTyped DEF CloseParen
  <2>2. CASE ArgParsed
    <3>1. (Advance /\ UNCHANGED err) \/ Expect(")")
      BY <2>2 DEF ArgParsed
    <3> QED
      BY <3>1, TokenTyped DEF TInv
  <2>3. CASE UnaryParsed \/ EndExpr \/ KeepRhs
    <3>1. UNCHANGED <<tok, left>> /\ UNCHANGED err
      BY <2>3 DEF UnaryParsed, EndExpr, KeepRhs
    <3> QED
      BY <3>1, TokenTyped DEF TInv
  <2> QED
    BY <2>1, <2>2, <2>3
<1> QED
  BY <1>4, <1>5, <1>6, <1>7, <1>8, QuietTyped

\* the operators' right operands
LEMMA RhsTyped ==
  ASSUME IInv, TInv, ctl # <<>>, NEW f, FrameTyped(f), NEW p, NEW n, EnterRhs(f, n, p)
  PROVE  CtlTyped(ctl')
<1> DEFINE g == [ExprFrame(p) EXCEPT !.sp0 = n]
<1>1. ctl' = Append(Append(Below, f), g) /\ FrameTyped(g)
  BY NewFrames DEF EnterRhs
<1> HIDE DEF g
<1>2. IsSeq(ctl)
  BY DEF IInv, Shape
<1>3. CtlTyped(Append(Below, f)) /\ IsSeq(Append(Below, f))
  BY <1>2, CtlFacts DEF TInv, Below, Butlast, Replaced
<1> QED
  BY <1>1, <1>3, CtlFacts

\* entering the right operand of an operator
LEMMA StartBinaryTyped ==
  ASSUME IInv, TInv, StartBinary
  PROVE  TInv'
<1> DEFINE f == [Top EXCEPT !.op = tok.k]
<1>1. /\ ctl # <<>> /\ EnterRhs(f, Len(stk), Prec(tok.k) + 1)
      /\ Advance /\ mode' = "unary" /\ UNCHANGED <<res, err, reg, stk, mem, cmem, goal, frag, cub>>
  BY DEF StartBinary, InLoop, machine, ghost
<1>2. FrameTyped(f)
  BY <1>1, TopTyped DEF FrameTyped, Fields
<1> HIDE DEF f
<1>3. CtlTyped(ctl')
  BY <1>1, <1>2, RhsTyped
<1>4. mode' \in Modes /\ err' \in BOOLEAN /\ frag' \in BOOLEAN /\ cub' \in BOOLEAN /\ Desc(res')
  BY <1>1 DEF Modes, TInv
<1> QED
  BY <1>1, <1>3, <1>4, TokenTyped, QuietTyped

\* Conversions and loads give values.
LEMMA ValueFacts ==
  /\ \A v \in Value : \A t : Convert(t, v) \in Value /\ (IsChar8(t) => Convert(t, v) \in Cell)
  /\ \A e : e.val \in Value => Promoted(e) \in Value
  /\ \A M \in Mems : \A w \in Value : \A t : Load(t, M, w) \in Value
  /\ Cell \subseteq Value
<1>1. Cell \subseteq Value
  BY Words DEF Cell, Value
<1>2. \A v \in Value : \A t : Convert(t, v) \in Value /\ (IsChar8(t) => Convert(t, v) \in Cell)
  BY CellFacts DEF Convert
<1>3. ASSUME NEW e, e.val \in Value PROVE Promoted(e) \in Value
  <2>1. CASE Known(e.val)
    <3>1. e.val - Byte \in Int
      BY <1>3, <2>1, ByteAssumption DEF Known, Value, Word
    <3>2. W(e.val - Byte) \in Value
      BY <3>1, CellFacts
    <3> QED
      BY <1>3, <3>2 DEF Promoted
  <2>2. CASE ~Known(e.val)
    BY <1>3, <2>2 DEF Promoted
  <2> QED
    BY <2>1, <2>2
<1>4. \A M \in Mems : \A w \in Value : \A t : Load(t, M, w) \in Value
  BY <1>1, MemFacts DEF Load
<1> QED
  BY <1>1, <1>2, <1>3, <1>4

\* the address of an operand
LEMMA AddressOfTyped == ASSUME IInv, TInv, AddressOf PROVE TInv'
<1>1. /\ ctl # <<>> /\ ctl' = Below
      /\ UNCHANGED <<tok, left, mode, stk, mem, cmem, goal, frag>>
  BY DEF AddressOf, Returning
<1>2. err' \in BOOLEAN /\ cub' \in BOOLEAN
  BY DEF AddressOf
<1>3. CtlTyped(ctl')
  BY <1>1, TopTyped
<1>4. Desc(res')
  <2> DEFINE ptr == [NoDesc EXCEPT !.ty = PtrTo(OrInt(res.ty)), !.val = res.loc,
                                   !.rd = res.rd, !.wr = res.wr]
             bad == [ptr EXCEPT !.const = TRUE]
  <2>1. res.val \in Value /\ res.loc \in Value /\ (res.label # "none" => res.label \in Funcs \cup {"str"})
    BY DEF TInv, Desc
  <2>2. Desc(ptr)
    BY <2>1, DescNone DEF Desc, DescFields
  <2> HIDE DEF ptr
  <2>3. Desc(bad) /\ Desc([ptr EXCEPT !.hl = TRUE])
    BY <2>2 DEF Desc, DescFields
  <2> HIDE DEF bad
  <2>4. Desc([bad EXCEPT !.ty = PtrTo(Int16)])
    BY <2>3 DEF Desc, DescFields
  <2>5. Desc([bad EXCEPT !.label = res.label, !.val = res.val])
    BY <2>1, <2>3 DEF Desc, DescFields
  <2>6. res' \in {[bad EXCEPT !.label = res.label, !.val = res.val],
                  [bad EXCEPT !.ty = PtrTo(Int16)], bad, [ptr EXCEPT !.hl = TRUE]}
    BY DEF AddressOf, bad, ptr
  <2> QED
    BY <2>3, <2>4, <2>5, <2>6
<1>5. reg' \in Regs
  <2>1. reg \in Regs /\ mem \in Mems /\ res.ix \in Int
    BY DEF TInv, Desc
  <2>2. LoadLocalAddrHL(reg, res.ix) \in Regs
    BY <2>1, LoadFacts
  <2> QED
    BY <2>1, <2>2 DEF AddressOf
<1> QED
  BY <1>1, <1>2, <1>3, <1>4, <1>5 DEF TInv

\* the object a pointer points to
LEMMA DereferenceTyped == ASSUME IInv, TInv, Dereference PROVE TInv'
<1>1. /\ ctl # <<>> /\ ctl' = Below
      /\ UNCHANGED <<tok, left, mode, stk, mem, cmem, goal, frag>>
  BY DEF Dereference, Returning
<1>2. err' \in BOOLEAN /\ cub' \in BOOLEAN
  BY DEF Dereference
<1>3. CtlTyped(ctl')
  BY <1>1, TopTyped
<1> DEFINE c == EnsureHL(res, reg, mem)
<1>4. Desc(c.d) /\ c.r \in Regs
  BY EnsureTyped DEF TInv
<1>5. reg' = c.r
  BY DEF Dereference
<1>6. PICK t, a, b : res' = [NoDesc EXCEPT !.ty = t, !.lv = TRUE, !.addr = TRUE,
                              !.loc = c.d.val, !.val = Load(t, cmem, c.d.val),
                              !.rd = a, !.wr = b]
  BY DEF Dereference
<1>7. Desc(res')
  <2>1. c.d.val \in Value
    BY <1>4 DEF Desc
  <2>2. Load(t, cmem, c.d.val) \in Value
    BY <2>1, ValueFacts DEF TInv
  <2> HIDE DEF c
  <2> QED
    BY <1>6, <2>1, <2>2, DescNone DEF Desc, DescFields
<1> HIDE DEF c
<1> QED
  BY <1>1, <1>2, <1>3, <1>4, <1>5, <1>7 DEF TInv

\* the statement's use of the value
LEMMA UseValueTyped == ASSUME TInv, UseValue PROVE TInv'
<1>1. /\ UNCHANGED <<tok, left, ctl, err, stk, mem, cmem, goal>> /\ mode' \in Modes
      /\ frag' \in BOOLEAN /\ cub' \in BOOLEAN
  BY DEF UseValue, Modes, TInv
<1>2. /\ Desc(res) /\ reg \in Regs
      /\ Desc(EnsureHL(res, reg, mem).d) /\ EnsureHL(res, reg, mem).r \in Regs
      /\ Desc(EnsureA(res, reg, mem).d) /\ EnsureA(res, reg, mem).r \in Regs
  BY EnsureTyped DEF TInv
<1>3. Desc(res') /\ reg' \in Regs
  <2> DEFINE c == CASE goal = "hl" -> EnsureHL(res, reg, mem)
                    [] goal = "a" -> EnsureA(res, reg, mem)
                    [] goal = "drop" -> [d |-> res, r |-> reg]
  <2>1. goal \in {"hl", "a", "drop"} => Desc(c.d) /\ c.r \in Regs
    BY <1>2
  <2>2. goal \in {"hl", "a", "drop"}
    BY GoalAssumption DEF TInv
  <2> QED
    BY <2>1, <2>2 DEF UseValue
<1> QED
  BY <1>1, <1>3 DEF TInv

\* an operand put together from another one
LEMMA DescOf ==
  ASSUME NEW e, Desc(e), NEW v \in Value
  PROVE  /\ \A t, x, y : Desc([e EXCEPT !.hl = TRUE, !.ty = t, !.val = v, !.rd = x, !.wr = y])
         /\ \A x, y : Desc([e EXCEPT !.hl = TRUE, !.a = FALSE, !.addr = FALSE, !.off = FALSE,
                              !.lv = FALSE, !.ty = Int16, !.val = v, !.rd = x, !.wr = y])
         /\ \A a, h, x, y : Desc([e EXCEPT !.a = a, !.hl = h, !.lv = FALSE, !.off = FALSE,
                                    !.addr = FALSE, !.val = v, !.rd = x, !.wr = y])
<1>1. ASSUME NEW t, NEW x, NEW y
      PROVE  Desc([e EXCEPT !.hl = TRUE, !.ty = t, !.val = v, !.rd = x, !.wr = y])
  BY DEF Desc, DescFields
<1>2. ASSUME NEW x, NEW y
      PROVE  Desc([e EXCEPT !.hl = TRUE, !.a = FALSE, !.addr = FALSE, !.off = FALSE,
                            !.lv = FALSE, !.ty = Int16, !.val = v, !.rd = x, !.wr = y])
  BY DEF Desc, DescFields
<1>3. ASSUME NEW a, NEW h, NEW x, NEW y
      PROVE  Desc([e EXCEPT !.a = a, !.hl = h, !.lv = FALSE, !.off = FALSE,
                            !.addr = FALSE, !.val = v, !.rd = x, !.wr = y])
  BY DEF Desc, DescFields
<1> QED
  BY <1>1, <1>2, <1>3

\* the registers after the second operand of a binary operator is converted
LEMMA PairTyped ==
  ASSUME TInv, NEW e, NEW f, Desc(e), Desc(f)
  PROVE  /\ Desc(EnsureHL(e, reg, mem).d) /\ EnsureHL(e, reg, mem).r \in Regs
         /\ Desc(EnsureHL(f, EnsureHL(e, reg, mem).r, mem).d)
         /\ EnsureHL(f, EnsureHL(e, reg, mem).r, mem).r \in Regs
<1>1. Desc(EnsureHL(e, reg, mem).d) /\ EnsureHL(e, reg, mem).r \in Regs
  BY EnsureTyped DEF TInv
<1> QED
  BY <1>1, EnsureTyped DEF TInv

\* the sum of two operands
LEMMA AddOperandsTyped == ASSUME IInv, TInv, AddOperands PROVE TInv'
<1> DEFINE l == Top.lhs
           scaledL == IsPtr(l.ty) /\ IsInteger(res.ty)
           scaledR == ~scaledL /\ IsPtr(res.ty) /\ IsInteger(l.ty)
           first  == IF scaledR THEN res ELSE l
           second == IF scaledR THEN l ELSE res
           size == IF scaledL \/ scaledR THEN SizeOf(Tail(first.ty)) ELSE 1
           c1 == EnsureHL(first, reg, mem)
           c2 == EnsureHL(second, c1.r, mem)
           r == IF size = 2 THEN DoubleHL(c2.r) ELSE c2.r
           scaled == IF size = 2 THEN Sum(Promoted(second), Promoted(second))
                                 ELSE Promoted(second)
           v == Sum(Promoted(first), scaled)
           d == IF scaledR THEN c2.d ELSE c1.d
           ty == IF scaledL \/ scaledR THEN first.ty ELSE Int16
           e == [d EXCEPT !.hl = TRUE, !.ty = ty, !.val = v,
                          !.rd = Reads(l) \cup Reads(res), !.wr = l.wr \cup res.wr]
           f == [Top EXCEPT !.op = "none", !.lhs = e]
<1>1. /\ ctl # <<>> /\ ctl' = Append(Below, f) /\ reg' = AddHLDE(LdDE(r, HL(c1.r)))
      /\ UNCHANGED <<tok, left, res, err, stk, mem, goal, cmem>> /\ mode' = "loop"
      /\ cub' \in BOOLEAN /\ frag' \in BOOLEAN
  BY DEF AddOperands, Returning, Replace
<1>2. Desc(l) /\ Desc(res) /\ FrameTyped(Top) /\ DOMAIN Top = Fields
  BY <1>1, TopTyped DEF TInv
<1>3. Desc(first) /\ Desc(second)
  BY <1>2
<1>4. Desc(c1.d) /\ c1.r \in Regs /\ Desc(c2.d) /\ c2.r \in Regs
  <2> HIDE DEF first, second
  <2> QED
    BY <1>3, PairTyped
<1>5. Promoted(first) \in Value /\ Promoted(second) \in Value
  <2> HIDE DEF first, second
  <2> QED
    BY <1>3, ValueFacts DEF Desc
<1>6. scaled \in Value /\ v \in Value
  <2> HIDE DEF first, second, size
  <2>1. scaled \in Value
    BY <1>5, CellFacts
  <2> HIDE DEF scaled
  <2> QED
    BY <2>1, <1>5, CellFacts
<1>7. Desc(e)
  <2>1. Desc(d)
    BY <1>4
  <2> HIDE DEF d, v, ty
  <2> QED
    BY <2>1, <1>6, DescOf
<1>8. FrameTyped(f)
  <2> HIDE DEF e
  <2> QED
    BY <1>2, <1>7 DEF FrameTyped, Fields
<1>9. reg' \in Regs
  <2>1. DoubleHL(c2.r) \in Regs
    <3> HIDE DEF c2
    <3> QED
      BY <1>4, RegFacts, CellFacts DEF DoubleHL
  <2>2. r \in Regs /\ HL(c1.r) \in Value
    BY <1>4, <2>1, RegFacts
  <2> HIDE DEF r, c1
  <2>3. LdDE(r, HL(c1.r)) \in Regs
    BY <2>2, RegFacts
  <2>4. AddHLDE(LdDE(r, HL(c1.r))) \in Regs
    BY <2>3, RegFacts, CellFacts DEF AddHLDE
  <2> QED
    BY <2>4, <1>1
<1> HIDE DEF f
<1>10. CtlTyped(ctl')
  BY <1>1, <1>8, TopTyped
<1>11. mode' \in Modes
  BY <1>1 DEF Modes
<1> QED
  BY <1>1, <1>9, <1>10, <1>11 DEF TInv

\* their comparison
LEMMA CompareOperandsTyped == ASSUME IInv, TInv, CompareOperands PROVE TInv'
<1> DEFINE l == Top.lhs
           c1 == EnsureHL(l, reg, mem)
           c2 == EnsureHL(res, c1.r, mem)
           Truth(v, w) == IF ~Known(v) \/ ~Known(w) THEN Junk
                          ELSE IF (Top.op = "==") <=> (v = w) THEN 1 ELSE 0
           v == Truth(Promoted(l), Promoted(res))
           w == Truth(HL(c1.r), HL(c2.r))
           e == [c1.d EXCEPT
                  !.hl = TRUE, !.a = FALSE, !.addr = FALSE, !.off = FALSE, !.lv = FALSE,
                  !.ty = Int16, !.val = v,
                  !.rd = Reads(l) \cup Reads(res), !.wr = l.wr \cup res.wr]
           f == [Top EXCEPT !.op = "none", !.lhs = e]
<1>1. /\ ctl # <<>> /\ ctl' = Append(Below, f)
      /\ reg' = [LdHL(LdDE(c2.r, HL(c1.r)), w) EXCEPT !.a = 0]
      /\ UNCHANGED <<tok, left, res, err, stk, mem, goal, cmem>> /\ mode' = "loop"
      /\ cub' \in BOOLEAN /\ frag' \in BOOLEAN
  BY DEF CompareOperands, Returning, Replace
<1>2. Desc(l) /\ Desc(res) /\ FrameTyped(Top) /\ DOMAIN Top = Fields
  BY <1>1, TopTyped DEF TInv
<1>3. Desc(c1.d) /\ c1.r \in Regs /\ c2.r \in Regs
  <2> HIDE DEF l
  <2> QED
    BY <1>2, PairTyped
<1>4. v \in Value /\ w \in Value
  BY CellFacts
<1>5. Desc(e)
  <2> HIDE DEF c1, v
  <2> QED
    BY <1>3, <1>4, DescOf
<1>6. FrameTyped(f)
  <2> HIDE DEF e
  <2> QED
    BY <1>2, <1>5 DEF FrameTyped, Fields
<1>7. reg' \in Regs
  <2>1. HL(c1.r) \in Value
    BY <1>3, RegFacts
  <2> HIDE DEF c1, c2, w
  <2>2. LdDE(c2.r, HL(c1.r)) \in Regs
    BY <2>1, <1>3, RegFacts
  <2>3. LdHL(LdDE(c2.r, HL(c1.r)), w) \in Regs
    BY <2>2, <1>4, RegFacts
  <2>4. \A s \in Regs : [s EXCEPT !.a = 0] \in Regs
    BY CellFacts DEF Regs
  <2> QED
    BY <2>3, <2>4, <1>1
<1> HIDE DEF f
<1>8. CtlTyped(ctl')
  BY <1>1, <1>6, TopTyped
<1>9. mode' \in Modes
  BY <1>1 DEF Modes
<1> QED
  BY <1>1, <1>7, <1>8, <1>9 DEF TInv

\* the left side of an assignment
LEMMA StartAssignTyped == ASSUME IInv, TInv, StartAssign PROVE TInv'
<1> DEFINE lhs == Top.lhs
           can == /\ lhs.off
                  /\ IF IsChar8(lhs.ty) THEN ByteInReach(lhs.ix) ELSE WordInReach(lhs.ix)
           save == ~can /\ (lhs.addr \/ lhs.off)
           r == IF save /\ ~lhs.addr THEN LoadLocalAddrHL(reg, lhs.ix) ELSE reg
           at == IF save THEN HL(r) ELSE Junk
           n == IF save THEN 1 ELSE 0
           f == [Top EXCEPT !.op = "=", !.can = can, !.slots = n, !.at = at]
<1>1. /\ ctl # <<>> /\ Advance /\ reg' = r
      /\ stk' = IF save THEN Append(stk, <<r.h, r.l>>) ELSE stk
      /\ EnterRhs(f, Len(stk'), Prec("=")) /\ mode' = "unary"
      /\ err' \in BOOLEAN /\ cub' \in BOOLEAN /\ UNCHANGED <<res, mem, goal, cmem, frag>>
  BY DEF StartAssign, InLoop
<1>2. FrameTyped(Top) /\ DOMAIN Top = Fields /\ Desc(lhs)
  BY <1>1, TopTyped
<1>3. r \in Regs
  <2>1. lhs.ix \in Int /\ reg \in Regs /\ mem \in Mems
    BY <1>2 DEF Desc, TInv
  <2>2. LoadLocalAddrHL(reg, lhs.ix) \in Regs
    BY <2>1, LoadFacts
  <2> QED
    BY <2>1, <2>2
<1> HIDE DEF r, can
<1>4. FrameTyped(f)
  <2>1. at \in Value
    BY <1>3, RegFacts, CellFacts
  <2> HIDE DEF at, n
  <2> QED
    BY <2>1, <1>2 DEF FrameTyped, Fields
<1> HIDE DEF f
<1>5. CtlTyped(ctl')
  BY <1>1, <1>4, RhsTyped
<1>6. StkTyped(stk')
  <2>1. r.h \in Cell /\ r.l \in Cell
    BY <1>3 DEF Regs
  <2>2. IsSeq(stk) /\ StkTyped(stk)
    BY DEF IInv, Shape, TInv
  <2>3. StkTyped(Append(stk, <<r.h, r.l>>))
    BY <2>1, <2>2, StkFacts
  <2> QED
    BY <1>1, <2>2, <2>3
<1>7. mode' \in Modes /\ tok' \in Tokens \cup {EndTok} /\ left' \in 0..MaxTokens
  BY <1>1, TokenTyped DEF Modes
<1> QED
  BY <1>1, <1>3, <1>5, <1>6, <1>7 DEF TInv

\* what is left on the stack after pops
LEMMA PopsTyped == ASSUME IInv, TInv, ctl # <<>> PROVE StkTyped(Popped(Top.slots))
<1>1. IsSeq(stk) /\ StkTyped(stk) /\ FrameOK(Top) /\ Len(stk) = Top.sp0 + Top.slots
  BY TopFacts DEF TInv
<1>2. Len(stk) - Top.slots \in 0..Len(stk)
  BY <1>1 DEF FrameOK
<1> QED
  BY <1>1, <1>2, StkFacts DEF Popped

\* its store
LEMMA AssignTyped == ASSUME IInv, TInv, Assign PROVE TInv'
<1> DEFINE lhs == Top.lhs
           c8 == IsChar8(lhs.ty)
           c == IF c8 THEN EnsureA(res, reg, mem) ELSE EnsureHL(res, reg, mem)
           saved == Pair(stk[Len(stk)][1], stk[Len(stk)][2])
           r == IF Top.can \/ Top.slots = 0 THEN c.r
                ELSE IF c8 THEN LdHL(c.r, saved) ELSE LdDE(c.r, saved)
           to == IF Top.can THEN IxD(lhs.ix) ELSE IF c8 THEN HL(r) ELSE DE(r)
           next == IF Top.can THEN IxD(lhs.ix + 1) ELSE Sum(to, 1)
           val == Convert(lhs.ty, Promoted(res))
           e == [lhs EXCEPT !.a = c8 \/ lhs.a, !.hl = ~c8 \/ lhs.hl,
                            !.lv = FALSE, !.off = FALSE, !.addr = FALSE,
                            !.val = val, !.rd = lhs.rd \cup Reads(res),
                            !.wr = lhs.wr \cup res.wr \cup Extent(lhs)]
           f == [Top EXCEPT !.op = "none", !.slots = 0, !.at = Junk, !.can = FALSE,
                            !.lhs = e]
<1>1. /\ ctl # <<>> /\ ctl' = Append(Below, f) /\ mode' = "loop"
      /\ reg' = IF c8 \/ Top.can THEN r ELSE LdDE([r EXCEPT !.a = r.h], Sum(DE(r), 1))
      /\ mem' = IF c8 THEN Store(mem, to, r.a)
                      ELSE Store(Store(mem, to, r.l), next, r.h)
      /\ stk' = Popped(Top.slots)
      /\ cmem' = IF c8 THEN Store(cmem, lhs.loc, val) ELSE Store2(cmem, lhs.loc, val)
      /\ cub' \in BOOLEAN /\ frag' \in BOOLEAN /\ UNCHANGED <<tok, left, res, err, goal>>
  BY DEF Assign, Returning, Replace
<1>2. FrameTyped(Top) /\ DOMAIN Top = Fields /\ Desc(lhs) /\ FrameOK(Top)
  BY <1>1, TopTyped, TopFacts
<1>3. Desc(res) /\ reg \in Regs /\ mem \in Mems /\ cmem \in Mems
  BY DEF TInv
<1>4. c.r \in Regs
  BY <1>3, EnsureTyped
<1>5. Top.can \/ Top.slots = 0 \/ saved \in Value
  <2> SUFFICES ASSUME Top.slots # 0 PROVE saved \in Value
    OBVIOUS
  <2>1. IsSeq(stk) /\ Len(stk) = Top.sp0 + Top.slots /\ StkTyped(stk)
    BY <1>1, TopFacts DEF TInv
  <2>2. Len(stk) \in 1..Len(stk) /\ DOMAIN stk = 1..Len(stk)
    BY <2>1, <1>2, SeqFacts DEF FrameOK
  <2>3. stk[Len(stk)][1] \in Cell /\ stk[Len(stk)][2] \in Cell
    BY <2>1, <2>2 DEF StkTyped
  <2> QED
    BY <2>3, CellFacts
<1> HIDE DEF c, saved
<1>6. r \in Regs
  BY <1>4, <1>5, RegFacts
<1>7. r.a \in Cell /\ r.l \in Cell /\ r.h \in Cell
  BY <1>6 DEF Regs
<1>8. val \in Value /\ (c8 => val \in Cell)
  <2>1. Promoted(res) \in Value
    BY <1>3, ValueFacts DEF Desc
  <2> QED
    BY <2>1, ValueFacts
<1>9. to \in Value /\ next \in Value
  <2>1. lhs.ix \in Int /\ lhs.ix + 1 \in Int
    BY <1>2 DEF Desc
  <2>2. IxD(lhs.ix) \in Value /\ IxD(lhs.ix + 1) \in Value
    BY <2>1, CellFacts
  <2>3. to \in Value
    BY <2>2, <1>6, RegFacts
  <2> HIDE DEF to
  <2>4. 1 \in Value
    BY CellFacts
  <2>5. Sum(to, 1) \in Value
    BY <2>3, <2>4, CellFacts
  <2> QED
    BY <2>2, <2>3, <2>5
<1> HIDE DEF r, to, next, val
<1>10. mem' \in Mems
  <2>1. Store(mem, to, r.a) \in Mems /\ Store(mem, to, r.l) \in Mems
    BY <1>3, <1>7, <1>9, MemFacts
  <2>2. Store(Store(mem, to, r.l), next, r.h) \in Mems
    BY <2>1, <1>7, <1>9, MemFacts
  <2> QED
    BY <1>1, <2>1, <2>2
<1>11. cmem' \in Mems
  <2>1. lhs.loc \in Value
    BY <1>2 DEF Desc
  <2>2. c8 => Store(cmem, lhs.loc, val) \in Mems
    BY <2>1, <1>3, <1>8, MemFacts
  <2>3. Store2(cmem, lhs.loc, val) \in Mems
    <3>1. Lo(val) \in Cell /\ Hi(val) \in Cell /\ Sum(lhs.loc, 1) \in Value
      BY <2>1, <1>8, CellFacts
    <3>2. Store(cmem, lhs.loc, Lo(val)) \in Mems
      BY <2>1, <1>3, <3>1, MemFacts
    <3> QED
      BY <3>1, <3>2, MemFacts DEF Store2
  <2> QED
    BY <1>1, <2>2, <2>3
<1>12. reg' \in Regs
  <2>1. [r EXCEPT !.a = r.h] \in Regs /\ Sum(DE(r), 1) \in Value
    <3>1. [r EXCEPT !.a = r.h] \in Regs
      BY <1>6, <1>7 DEF Regs
    <3> QED
      BY <3>1, <1>6, RegFacts, CellFacts
  <2>2. LdDE([r EXCEPT !.a = r.h], Sum(DE(r), 1)) \in Regs
    BY <2>1, RegFacts
  <2> QED
    BY <1>1, <1>6, <2>2
<1>13. Desc(e)
  BY <1>2, <1>8, DescOf
<1>14. FrameTyped(f)
  <2> HIDE DEF e
  <2> QED
    BY <1>2, <1>13, CellFacts DEF FrameTyped, Fields
<1> HIDE DEF f
<1>15. CtlTyped(ctl')
  BY <1>1, <1>14, TopTyped
<1>16. StkTyped(stk')
  BY <1>1, PopsTyped
<1>17. mode' \in Modes
  BY <1>1 DEF Modes
<1> QED
  BY <1>1, <1>3, <1>10, <1>11, <1>12, <1>15, <1>16, <1>17 DEF TInv

\* the argument pushed next is one of the arguments
LEMMA NextArgFacts ==
  ASSUME IInv, TInv, mode = "push"
  PROVE  /\ ctl # <<>> /\ Top.k = "call" /\ FrameOK(Top) /\ FrameTyped(Top) /\ IsSeq(Top.args)
         /\ Len(Top.args) \in Nat /\ DOMAIN Top.args = 1..Len(Top.args)
         /\ Top.slots < Len(Top.args) => NextArg(Top) \in DOMAIN Top.args
<1>1. ctl # <<>> /\ Top.k = "call"
  BY DEF IInv, ModeOK, Top
<1>2. FrameOK(Top) /\ FrameTyped(Top) /\ IsSeq(Top.args)
  BY <1>1, TopFacts, TopTyped DEF FrameTyped
<1>3. Len(Top.args) \in Nat /\ DOMAIN Top.args = 1..Len(Top.args)
  BY <1>2, SeqFacts
<1>4. Top.slots < Len(Top.args) => NextArg(Top) \in DOMAIN Top.args
  BY <1>2, <1>3 DEF FrameOK, NextArg
<1> QED
  BY <1>1, <1>2, <1>3, <1>4

\* an argument that is pushed
LEMMA PushArgTyped == ASSUME IInv, TInv, PushArg PROVE TInv'
<1> DEFINE i == NextArg(Top)
           e == Top.args[i]
           c8 == IsChar8(ParamType(Top.lhs, i))
           c == IF c8 THEN EnsureA(e, reg, mem) ELSE EnsureHL(e, reg, mem)
           r == IF c8 THEN [c.r EXCEPT !.l = c.r.a] ELSE c.r
           n == Top.slots + 1
           f == [Top EXCEPT !.slots = n]
<1>1. /\ mode = "push" /\ Top.slots < Len(Top.args) /\ reg' = r
      /\ stk' = Append(stk, <<r.h, r.l>>) /\ ctl' = Append(Below, f)
      /\ UNCHANGED <<tok, left, mode, res, err, mem, goal, cmem, cub>> /\ frag' \in BOOLEAN
  BY DEF PushArg, Replace
<1>2. ctl # <<>> /\ FrameTyped(Top) /\ i \in DOMAIN Top.args /\ DOMAIN Top = Fields
  BY <1>1, NextArgFacts, TopTyped
<1>3. Desc(e)
  BY <1>2 DEF FrameTyped
<1> HIDE DEF i, e, c8
<1>4. c.r \in Regs
  BY <1>3, EnsureTyped DEF TInv
<1> HIDE DEF c
<1>5. r \in Regs
  <2>1. \A s \in Regs : [s EXCEPT !.l = s.a] \in Regs
    BY DEF Regs
  <2> QED
    BY <1>4, <2>1
<1> HIDE DEF r, n
<1>6. StkTyped(stk')
  <2>1. r.h \in Cell /\ r.l \in Cell
    BY <1>5 DEF Regs
  <2> QED
    BY <1>1, <2>1, StkFacts DEF IInv, Shape, TInv
<1>7. FrameTyped(f)
  BY <1>2 DEF FrameTyped, Fields
<1> HIDE DEF f
<1>8. CtlTyped(ctl')
  BY <1>1, <1>2, <1>7, TopTyped
<1> QED
  BY <1>1, <1>5, <1>6, <1>8 DEF TInv

\* the function is called with words, and returns one
LEMMA ResultTyped ==
  ASSUME NEW callee, callee.val \in Value, NEW n \in Nat, NEW g,
         g = [i \in 1..n |-> g[i]], \A i \in 1..n : g[i] \in Value
  PROVE  /\ CalleeResult(callee, g) \in Value
         /\ IsChar8(RetType(callee)) => CalleeResult(callee, g) \in Cell
<1> DEFINE one == IF g = <<>> THEN 0 ELSE g[1]
<1>1. one \in Value
  <2>1. CASE n = 0
    <3>1. g = <<>>
      BY <2>1
    <3> QED
      BY <3>1, CellFacts
  <2>2. CASE n # 0
    BY <2>2, CellFacts
  <2> QED
    BY <2>1, <2>2
<1> HIDE DEF one
<1>2. Sum(callee.val, one) \in Value
  BY <1>1, CellFacts
<1> QED
  BY <1>2, ValueFacts DEF CalleeResult, one

\* the call
LEMMA EmitCallTyped == ASSUME IInv, TInv, EmitCall PROVE TInv'
<1> DEFINE callee == Top.lhs
           got == [i \in 1..Top.slots |-> SlotValue(callee, i, Slots(Top)[i])]
           v == CalleeResult(callee, got)
           w == CalleeResult(callee, Passed(Top))
<1>1. /\ mode = "push" /\ Top.slots = Len(Top.args)
      /\ reg' = IF callee.label = "none" THEN reg ELSE Returned(callee, v)
      /\ stk' = Popped(Top.slots) /\ ctl' = Below /\ mode' = "return"
      /\ UNCHANGED <<tok, left, mem, goal, cmem>>
      /\ cub' \in BOOLEAN /\ frag' \in BOOLEAN /\ err' \in BOOLEAN
  BY DEF EmitCall, Cleanup
<1>2. PICK t, a, h, x, y : res' = [NoDesc EXCEPT !.ty = t, !.a = a, !.hl = h, !.val = w,
                                                 !.rd = x, !.wr = y]
  BY DEF EmitCall
<1>3. /\ ctl # <<>> /\ FrameTyped(Top) /\ FrameOK(Top)
      /\ Len(Top.args) \in Nat /\ DOMAIN Top.args = 1..Len(Top.args)
  BY <1>1, NextArgFacts
<1>4. callee.val \in Value
  BY <1>3 DEF FrameTyped, Desc
<1>5. v \in Value /\ (IsChar8(RetType(callee)) => v \in Cell)
  <2>1. ASSUME NEW i \in 1..Top.slots
        PROVE  SlotValue(callee, i, Slots(Top)[i]) \in Value
    <3>1. IsSeq(stk) /\ StkTyped(stk) /\ Len(stk) = Top.sp0 + Top.slots
      BY <1>3, TopFacts DEF TInv
    <3>2. DOMAIN stk = 1..Len(stk) /\ Len(stk) \in Nat
      BY <3>1, SeqFacts
    <3>3. Len(stk) - i + 1 \in DOMAIN stk
      BY <1>3, <3>1, <3>2 DEF FrameOK
    <3>4. Slots(Top)[i] = stk[Len(stk) - i + 1]
      BY DEF Slots
    <3>5. Slots(Top)[i][1] \in Cell /\ Slots(Top)[i][2] \in Cell
      BY <3>1, <3>3, <3>4 DEF StkTyped
    <3> QED
      BY <3>5, CellFacts, ValueFacts DEF SlotValue
  <2> HIDE DEF callee
  <2>2. Top.slots \in Nat
    BY <1>3 DEF FrameOK
  <2>3. /\ got = [i \in 1..Top.slots |-> got[i]]
        /\ \A i \in 1..Top.slots : got[i] \in Value
    BY <2>1
  <2> HIDE DEF got
  <2> QED
    BY <2>2, <2>3, <1>4, ResultTyped
<1>6. w \in Value
  <2> DEFINE F(i) == IF ParamType(callee, i) = NoType THEN Promoted(Top.args[i])
                     ELSE Convert(ParamType(callee, i), Promoted(Top.args[i]))
  <2>1. Passed(Top) = [i \in 1..Len(Top.args) |-> F(i)]
    BY <1>3 DEF Passed
  <2>2. ASSUME NEW i \in 1..Len(Top.args) PROVE F(i) \in Value
    <3>1. Promoted(Top.args[i]) \in Value
      BY <1>3, ValueFacts DEF FrameTyped, Desc
    <3> QED
      BY <3>1, ValueFacts
  <2>3. Passed(Top) = [i \in 1..Len(Top.args) |-> Passed(Top)[i]]
    BY <2>1
  <2>4. \A i \in 1..Len(Top.args) : Passed(Top)[i] \in Value
    BY <2>1, <2>2
  <2> HIDE DEF F, callee
  <2> QED
    BY <2>3, <2>4, <1>3, <1>4, ResultTyped
<1> HIDE DEF got
<1>7. Desc(res')
  <2> HIDE DEF w
  <2> QED
    BY <1>2, <1>6, DescNone DEF Desc, DescFields
<1>8. reg' \in Regs
  <2> DEFINE junk == [a |-> Junk, h |-> Junk, l |-> Junk, d |-> Junk, e |-> Junk]
  <2>1. junk \in Regs
    BY CellFacts DEF Regs
  <2>2. IsChar8(RetType(callee)) => v \in Cell
    BY <1>5
  <2> HIDE DEF v, junk
  <2>3. LdHL(junk, v) \in Regs
    BY <2>1, <1>5, RegFacts
  <2>4. IsChar8(RetType(callee)) => [junk EXCEPT !.a = v] \in Regs
    BY <2>1, <2>2 DEF Regs
  <2>5. Returned(callee, v) = IF IsChar8(RetType(callee)) THEN [junk EXCEPT !.a = v]
                                                          ELSE LdHL(junk, v)
    BY DEF Returned, junk
  <2> QED
    BY <1>1, <2>3, <2>4, <2>5 DEF TInv
<1>9. StkTyped(stk') /\ CtlTyped(ctl')
  BY <1>1, <1>3, PopsTyped, TopTyped
<1>10. mode' \in Modes
  BY <1>1 DEF Modes
<1> QED
  BY <1>1, <1>7, <1>8, <1>9, <1>10 DEF TInv

\* The parser starts with a typed state.
THEOREM InitTyped == Init => TInv
<1> SUFFICES ASSUME Init PROVE TInv
  OBVIOUS
<1>1. tok \in Tokens \cup {EndTok} /\ left \in 0..MaxTokens
  BY BoundAssumption DEF Init
<1>2. mode \in Modes /\ goal \in Goals /\ err \in BOOLEAN /\ frag \in BOOLEAN /\ cub \in BOOLEAN
  BY DEF Init, Modes
<1>3. CtlTyped(ctl)
  <2>1. ctl = <<NoFrame>>
    BY DEF Init
  <2>2. DOMAIN ctl = {1} /\ ctl[1] = NoFrame
    BY <2>1
  <2> QED
    BY <2>2, NewFrames DEF CtlTyped
<1>4. StkTyped(stk)
  BY DEF Init, StkTyped
<1>5. Desc(res)
  BY DescNone DEF Init
<1>6. reg \in Regs
  BY CellFacts DEF Init, Regs
<1>7. mem \in Mems /\ cmem \in Mems
  BY MemAssumption DEF Init, Mems, Cell, Word
<1> QED
  BY <1>1, <1>2, <1>3, <1>4, <1>5, <1>6, <1>7 DEF TInv

\* Every step keeps the type invariant.
THEOREM NextTyped == IInv /\ TInv /\ [Next]_vars => TInv'
<1> SUFFICES ASSUME IInv, TInv, [Next]_vars PROVE TInv'
  OBVIOUS
<1>1. CASE UNCHANGED vars
  BY <1>1 DEF vars, machine, ghost, TInv
<1> QED
  BY <1>1, PrimaryTyped, SizeofTyped, EnterTyped, ReturnTyped, StartBinaryTyped,
     AddressOfTyped, DereferenceTyped, UseValueTyped, AddOperandsTyped,
     CompareOperandsTyped, StartAssignTyped, AssignTyped, PushArgTyped, EmitCallTyped
  DEF Next, Step, Done

\* TypeOK.
THEOREM TypeCorrect == Spec => []TypeOK
<1>1. IInv /\ TInv => TypeOK
  <2> SUFFICES ASSUME IInv, TInv PROVE TypeOK
    OBVIOUS
  <2>1. \A i \in DOMAIN ctl : /\ ctl[i].k \in {"expr", "paren", "amp", "deref", "call"}
                              /\ ctl[i].slots \in Nat /\ ctl[i].sp0 \in Nat
                              /\ ctl[i].at \in Value
    BY DEF IInv, Shape, FrameOK, TInv, CtlTyped, FrameTyped
  <2> QED
    BY <2>1 DEF TypeOK, TInv, StkTyped, Regs, Mems
<1> QED
  BY <1>1, InitIInv, NextIInv, InitTyped, NextTyped, PTL DEF Spec

-----------------------------------------------------------------------------
(* Where an operand is, and that the conversions find it                   *)

Bytes == 0..(Byte - 1)
FullMems == [Word -> Bytes]

\* A finished operand: its value is known and is in one place.
Operand(e) ==
  /\ Desc(e)
  /\ e.val \in Word /\ e.ty # <<"schar">> /\ IsSeq(e.ty)
  /\ IsChar8(e.ty) => e.val \in Bytes
  /\ Head(e.ty) = "func" => /\ e.const /\ ~e.hl /\ e.wr = {} /\ e.ty[2] \in Funcs
  /\ e.off => ~e.addr /\ ~e.hl /\ ~e.a /\ ~e.const /\ e.lv /\ e.loc = Local(e.ix)
  /\ e.addr => ~e.hl /\ ~e.a /\ ~e.const /\ e.lv /\ e.loc \in Word
  /\ e.a => IsChar8(e.ty) /\ ~e.hl /\ ~e.const
  /\ e.const /\ ~e.hl => e.val = IF e.label # "none" THEN LabelAddr[e.label] ELSE W(e.ival)
  /\ e.ty = <<"void">> \/ e.off \/ e.addr \/ e.a \/ e.hl \/ e.const

\* its place still holds it: a register, or a variable of the frame
InReg(e, r, M) == /\ e.hl => HL(r) = e.val
                  /\ e.a => r.a = e.val
                  /\ e.addr => HL(r) = e.loc /\ Load(e.ty, M, e.loc) = e.val
InMem(e, M) == e.off => Load(e.ty, M, e.loc) = e.val

\* A memory of bytes is read in bytes and words.
LEMMA FullFetch ==
  ASSUME NEW M \in FullMems, NEW w \in Word
  PROVE  /\ Fetch(M, w) = M[w] /\ Fetch(M, w) \in Bytes /\ Fetch(M, w) \in Word
         /\ Fetch2(M, w) = Pair(M[Sum(w, 1)], M[w]) /\ Fetch2(M, w) \in Word
         /\ M \in Mems /\ Sum(w, 1) \in Word /\ W(w + 1) = Sum(w, 1)
<1>1. w \in Int /\ Known(w) /\ Sum(w, 1) \in Word /\ Known(Sum(w, 1)) /\ W(w + 1) = Sum(w, 1)
  <2>1. w \in Int
    BY DEF Word
  <2>2. Sum(w, 1) \in Word /\ Sum(w, 1) = W(w + 1)
    <3>1. 1 \in Int
      OBVIOUS
    <3> QED
      BY <2>1, <3>1, SumWord
  <2>3. Sum(w, 1) \in Int
    BY <2>2 DEF Word
  <2> QED
    BY <2>1, <2>2, <2>3, KnownInt
<1>2. M[w] \in Bytes /\ M[Sum(w, 1)] \in Bytes
  BY <1>1 DEF FullMems
<1>3. Fetch(M, w) = M[w] /\ Fetch(M, Sum(w, 1)) = M[Sum(w, 1)]
  BY <1>1 DEF Fetch
<1>4. Fetch2(M, w) = Pair(M[Sum(w, 1)], M[w])
  BY <1>3 DEF Fetch2
<1>5. Pair(M[Sum(w, 1)], M[w]) \in Word
  BY <1>2, JoinBytes DEF Bytes
<1>6. M \in Mems
  BY DEF FullMems, Mems, Cell, Bytes
<1> QED
  BY <1>1, <1>2, <1>3, <1>4, <1>5, <1>6, Words DEF Bytes

\* What is loaded depends on the bytes of the object only.
LEMMA FullLoad ==
  ASSUME NEW M \in FullMems, NEW w \in Word, NEW t
  PROVE  /\ Load(t, M, w) \in Word /\ (IsChar8(t) => Load(t, M, w) \in Bytes)
         /\ \A N \in FullMems : M[w] = N[w] /\ (IsChar8(t) \/ M[Sum(w, 1)] = N[Sum(w, 1)])
              => Load(t, M, w) = Load(t, N, w)
BY FullFetch DEF Load

\* a byte with nothing above it
LEMMA ZeroHigh == \A l \in Bytes : Pair(0, l) = l /\ l \in Word
<1> SUFFICES ASSUME NEW l \in Bytes PROVE Pair(0, l) = l /\ l \in Word
  OBVIOUS
<1>1. l \in Word
  BY Words DEF Bytes
<1>2. Hi(l) = 0 /\ Lo(l) = l /\ Pair(Hi(l), Lo(l)) = l
  BY <1>1, SplitWord DEF Bytes
<1> QED
  BY <1>1, <1>2

\* What the register loads leave in HL and DE.
LEMMA HLOf ==
  ASSUME NEW r \in Regs
  PROVE  /\ \A w \in Word : /\ HL(LdHL(r, w)) = w /\ DE(LdDE(r, w)) = w
                            /\ HL(LdDE(r, w)) = HL(r) /\ LdHL(r, w).a = r.a
                            /\ LdDE(r, w).a = r.a
         /\ r.a \in Bytes => HL(ZeroExtendA(r)) = r.a
         /\ \A i \in Int : HL(LoadLocalAddrHL(r, i)) = Local(i)
<1>1. DOMAIN r = {"a", "h", "l", "d", "e"}
  BY DEF Regs
<1>2. ASSUME NEW s, DOMAIN s = {"a", "h", "l", "d", "e"}, NEW w \in Word
      PROVE  /\ HL(LdHL(s, w)) = w /\ DE(LdDE(s, w)) = w
             /\ HL(LdDE(s, w)) = HL(s) /\ LdHL(s, w).a = s.a /\ LdDE(s, w).a = s.a
  <2>1. Pair(Hi(w), Lo(w)) = w
    BY <1>2, SplitWord
  <2> QED
    BY <2>1, <1>2 DEF HL, DE, LdHL, LdDE
<1>3. r.a \in Bytes => HL(ZeroExtendA(r)) = r.a
  BY <1>1, ZeroHigh DEF HL, ZeroExtendA
<1>4. ASSUME NEW i \in Int PROVE HL(LoadLocalAddrHL(r, i)) = Local(i)
  <2>1. Local(i) \in Word
    BY LocalWord
  <2>2. DOMAIN LdDE(r, W(i)) = {"a", "h", "l", "d", "e"}
    BY <1>1 DEF LdDE
  <2> QED
    BY <1>2, <2>1, <2>2 DEF LoadLocalAddrHL
<1> QED
  BY <1>1, <1>2, <1>3, <1>4

\* loads from the frame
LEMMA LocalLoads ==
  ASSUME NEW r \in Regs, NEW M \in FullMems, NEW i \in Int
  PROVE  /\ HL(LoadByteLocal(r, M, i)) = M[Local(i)]
         /\ HL(LoadWordLocal(r, M, i)) = Fetch2(M, Local(i))
         /\ LoadU8(LoadLocalAddrHL(r, i), M).a = M[Local(i)]
         /\ ByteInReach(i) => Fetch(M, IxD(i)) = M[Local(i)]
<1>1. /\ Local(i) \in Word /\ Sum(Local(i), 1) = Local(i + 1) /\ Local(i + 1) \in Word
      /\ i + 1 \in Int
  BY LocalWord
<1>2. /\ Fetch(M, Local(i)) = M[Local(i)] /\ M[Local(i)] \in Bytes /\ M \in Mems
      /\ Fetch2(M, Local(i)) = Pair(M[Local(i + 1)], M[Local(i)])
      /\ Fetch(M, Local(i + 1)) = M[Local(i + 1)]
  BY <1>1, FullFetch
<1>3. ByteInReach(i) => IxD(i) = Local(i)
  BY NearLocal
<1>4. WordInReach(i) => IxD(i) = Local(i) /\ IxD(i + 1) = Local(i + 1)
  <2> SUFFICES ASSUME WordInReach(i) PROVE IxD(i) = Local(i) /\ IxD(i + 1) = Local(i + 1)
    OBVIOUS
  <2>1. ByteInReach(i) /\ ByteInReach(i + 1)
    BY ReachAssumption DEF WordInReach, ByteInReach
  <2> QED
    BY <2>1, <1>1, NearLocal
<1> DEFINE s == LoadLocalAddrHL(r, i)
<1>5. s \in Regs /\ HL(s) = Local(i)
  BY <1>2, LoadFacts, HLOf
<1>6. DOMAIN r = {"a", "h", "l", "d", "e"} /\ DOMAIN s = {"a", "h", "l", "d", "e"}
  BY <1>5 DEF Regs
<1> HIDE DEF s
<1>7. LoadU8(s, M).a = M[Local(i)] /\ LoadU8(s, M) \in Regs
  BY <1>2, <1>5, <1>6, LoadFacts DEF LoadU8
<1>8. HL(LoadByteLocal(r, M, i)) = M[Local(i)]
  <2>1. CASE ByteInReach(i)
    BY <2>1, <1>2, <1>3, <1>6, ZeroHigh DEF LoadByteLocal, HL
  <2>2. CASE ~ByteInReach(i)
    BY <2>2, <1>2, <1>7, HLOf DEF LoadByteLocal, s
  <2> QED
    BY <2>1, <2>2
<1>9. HL(LoadWordLocal(r, M, i)) = Fetch2(M, Local(i))
  <2>1. CASE WordInReach(i)
    BY <2>1, <1>2, <1>4, <1>6 DEF LoadWordLocal, HL
  <2>2. CASE ~WordInReach(i)
    <3>1. LoadWordLocal(r, M, i) = LoadU16(s, M)
      BY <2>2 DEF LoadWordLocal, s
    <3> QED
      BY <3>1, <1>5, <1>6 DEF LoadU16, HL, Fetch2
  <2> QED
    BY <2>1, <2>2
<1> QED
  BY <1>2, <1>3, <1>7, <1>8, <1>9 DEF s

\* cc1_expr_ensure_hl: from whatever place the operand is in, its value gets
\* to HL, and the descriptor then says so.
LEMMA EnsureHLRight ==
  ASSUME NEW e, NEW r \in Regs, NEW M \in FullMems,
         Operand(e), e.ty # <<"void">>, InReg(e, r, M), InMem(e, M)
  PROVE  HL(EnsureHL(e, r, M).r) = e.val
<1>1. Desc(e) /\ e.ix \in Int /\ e.val \in Word
  BY DEF Operand, Desc
<1>2. CASE e.hl
  BY <1>2 DEF EnsureHL, InReg
<1>3. CASE ~e.hl /\ e.off
  <2>1. e.loc = Local(e.ix) /\ Load(e.ty, M, e.loc) = e.val /\ Local(e.ix) \in Word
    BY <1>1, <1>3, LocalWord DEF Operand, InMem
  <2>2. EnsureHL(e, r, M).r = IF IsChar8(e.ty) THEN LoadByteLocal(r, M, e.ix)
                                                ELSE LoadWordLocal(r, M, e.ix)
    BY <1>3 DEF EnsureHL
  <2>3. Load(e.ty, M, e.loc) = IF IsChar8(e.ty) THEN M[Local(e.ix)] ELSE Fetch2(M, Local(e.ix))
    BY <2>1, FullFetch DEF Load
  <2> QED
    BY <1>1, <2>1, <2>2, <2>3, LocalLoads
<1>4. CASE ~e.hl /\ ~e.off /\ e.addr
  <2>1. HL(r) = e.loc /\ Load(e.ty, M, e.loc) = e.val /\ e.loc \in Word
    BY <1>4 DEF Operand, InReg
  <2>2. EnsureHL(e, r, M).r = IF IsChar8(e.ty) THEN ZeroExtendA(LoadU8(r, M)) ELSE LoadU16(r, M)
    BY <1>4 DEF EnsureHL
  <2>3. CASE IsChar8(e.ty)
    <3>1. LoadU8(r, M).a = e.val
      BY <2>1, <2>3 DEF LoadU8, Load, Regs
    <3>2. LoadU8(r, M) \in Regs /\ e.val \in Bytes
      BY <2>3, <2>1, FullFetch, LoadFacts DEF Operand
    <3> QED
      BY <2>2, <2>3, <3>1, <3>2, HLOf
  <2>4. CASE ~IsChar8(e.ty)
    <3>1. HL(LoadU16(r, M)) = Fetch2(M, HL(r))
      BY DEF LoadU16, HL, Fetch2, Regs
    <3> QED
      BY <2>1, <2>2, <2>4, <3>1 DEF Load
  <2> QED
    BY <2>3, <2>4
<1>5. CASE ~e.hl /\ ~e.off /\ ~e.addr /\ e.const
  <2>1. EnsureHL(e, r, M).r = LdHL(r, e.val)
    BY <1>5 DEF EnsureHL, Operand
  <2> QED
    BY <1>1, <2>1, HLOf
<1>6. CASE ~e.hl /\ ~e.off /\ ~e.addr /\ ~e.const /\ e.a
  <2>1. EnsureHL(e, r, M).r = ZeroExtendA(r)
    BY <1>6 DEF EnsureHL
  <2>2. r.a = e.val /\ e.val \in Bytes
    BY <1>6 DEF InReg, Operand
  <2> QED
    BY <2>1, <2>2, HLOf
<1> QED
  BY <1>2, <1>3, <1>4, <1>5, <1>6 DEF Operand

\* What cc1_expr_ensure_hl writes in the descriptor.
LEMMA EnsureHLDesc ==
  ASSUME NEW e, NEW r, NEW M, Operand(e), e.ty # <<"void">>
  PROVE  LET d == EnsureHL(e, r, M).d
         IN  /\ Desc(d) /\ d.hl /\ ~d.off /\ ~d.addr /\ ~d.a
             /\ d.val = e.val
<1>1. DOMAIN e = DescFields /\ Desc(e)
  BY DEF Operand, Desc
<1>2. \A x : /\ Desc([e EXCEPT !.hl = TRUE])
             /\ Desc([[e EXCEPT !.hl = TRUE] EXCEPT !.off = FALSE])
             /\ Desc([[e EXCEPT !.hl = TRUE] EXCEPT !.addr = FALSE])
             /\ Desc([[e EXCEPT !.hl = TRUE] EXCEPT !.a = FALSE])
  BY <1>1 DEF Desc, DescFields
<1>3. CASE e.hl
  BY <1>1, <1>3 DEF EnsureHL, Operand
<1>4. CASE ~e.hl /\ e.off
  <2>1. EnsureHL(e, r, M).d = [[e EXCEPT !.hl = TRUE] EXCEPT !.off = FALSE]
    BY <1>4 DEF EnsureHL
  <2> QED
    BY <1>1, <1>2, <1>4, <2>1 DEF Operand, DescFields
<1>5. CASE ~e.hl /\ ~e.off /\ e.addr
  <2>1. EnsureHL(e, r, M).d = [[e EXCEPT !.hl = TRUE] EXCEPT !.addr = FALSE]
    BY <1>5 DEF EnsureHL
  <2> QED
    BY <1>1, <1>2, <1>5, <2>1 DEF Operand, DescFields
<1>6. CASE ~e.hl /\ ~e.off /\ ~e.addr /\ e.const
  <2>1. EnsureHL(e, r, M).d = [e EXCEPT !.hl = TRUE]
    BY <1>6 DEF EnsureHL
  <2> QED
    BY <1>1, <1>2, <1>6, <2>1 DEF Operand, DescFields
<1>7. CASE ~e.hl /\ ~e.off /\ ~e.addr /\ ~e.const /\ e.a
  <2>1. EnsureHL(e, r, M).d = [[e EXCEPT !.hl = TRUE] EXCEPT !.a = FALSE]
    BY <1>7 DEF EnsureHL
  <2> QED
    BY <1>1, <1>2, <1>7, <2>1 DEF Operand, DescFields
<1> QED
  BY <1>3, <1>4, <1>5, <1>6, <1>7 DEF Operand

\* cc1_expr_ensure_a: the value cut to a byte gets to A.
LEMMA EnsureARight ==
  ASSUME NEW e, NEW r \in Regs, NEW M \in FullMems,
         Operand(e), NarrowOK(e), InReg(e, r, M), InMem(e, M)
  PROVE  EnsureA(e, r, M).r.a = Lo(e.val)
<1>1. Desc(e) /\ e.ix \in Int /\ e.val \in Word /\ DOMAIN r = {"a", "h", "l", "d", "e"}
  BY DEF Operand, Desc, Regs
<1>2. e.val \in Bytes => Lo(e.val) = e.val
  BY <1>1, SplitWord DEF Bytes
<1>3. CASE e.a
  BY <1>2, <1>3 DEF EnsureA, InReg, Operand
<1>4. CASE ~e.a /\ IsChar8(e.ty) /\ e.off
  <2>1. e.loc = Local(e.ix) /\ Load(e.ty, M, e.loc) = e.val /\ Local(e.ix) \in Word
        /\ e.val \in Bytes
    BY <1>1, <1>4, LocalWord DEF Operand, InMem
  <2>2. Load(e.ty, M, e.loc) = M[Local(e.ix)]
    BY <1>4, <2>1, FullFetch DEF Load
  <2>3. EnsureA(e, r, M).r = IF ByteInReach(e.ix) THEN [r EXCEPT !.a = Fetch(M, IxD(e.ix))]
                             ELSE LoadU8(LoadLocalAddrHL(r, e.ix), M)
    BY <1>4 DEF EnsureA
  <2>4. EnsureA(e, r, M).r.a = M[Local(e.ix)]
    BY <1>1, <2>3, LocalLoads
  <2> QED
    BY <1>2, <2>1, <2>2, <2>4
<1>5. CASE ~e.a /\ IsChar8(e.ty) /\ ~e.off /\ e.addr
  <2>1. HL(r) = e.loc /\ Load(e.ty, M, e.loc) = e.val /\ e.loc \in Word /\ e.val \in Bytes
    BY <1>5 DEF Operand, InReg
  <2>2. EnsureA(e, r, M).r = LoadU8(r, M)
    BY <1>5 DEF EnsureA
  <2> QED
    BY <1>1, <1>2, <1>5, <2>1, <2>2 DEF LoadU8, Load
<1>6. CASE ~e.a /\ ~(IsChar8(e.ty) /\ e.off) /\ ~(IsChar8(e.ty) /\ e.addr) /\ e.const
  <2>1. e.val = W(e.ival)
    BY <1>6 DEF NarrowOK, Operand
  <2>2. EnsureA(e, r, M).r = [r EXCEPT !.a = Lo(W(e.ival))]
    BY <1>6 DEF EnsureA
  <2> QED
    BY <1>1, <2>1, <2>2
<1>7. CASE ~e.a /\ ~(IsChar8(e.ty) /\ e.off) /\ ~(IsChar8(e.ty) /\ e.addr) /\ ~e.const /\ e.hl
  <2>1. EnsureA(e, r, M).r = [r EXCEPT !.a = r.l]
    BY <1>7 DEF EnsureA
  <2>2. Pair(r.h, r.l) = e.val
    BY <1>7 DEF InReg, HL
  <2>3. r.l = Lo(e.val)
    <3>1. e.val # Junk /\ r.h \in Cell /\ r.l \in Cell
      BY <1>1, JunkAssumption DEF Word, Regs
    <3>2. r.h \in 0..(Byte - 1) /\ r.l \in 0..(Byte - 1)
      BY <2>2, <3>1 DEF Pair, Known, Cell
    <3> QED
      BY <2>2, <3>2, JoinBytes
  <2> QED
    BY <1>1, <2>1, <2>3
<1> QED
  BY <1>3, <1>4, <1>5, <1>6, <1>7 DEF NarrowOK

-----------------------------------------------------------------------------
(* What the active calls hold while younger code runs                      *)

\* code was emitted for e, or for the call f of the parser
Touched(e) == Resident(e) \/ e.ty = <<"void">>
Dirty(f) == f.slots # 0 \/ Touched(f.lhs) \/ \E k \in DOMAIN f.args : Touched(f.args[k])

\* what the arguments after the n-th one wrote, and a whole call
ArgsWr(f, n) == UNION {f.args[k].wr : k \in (n + 1)..Len(f.args)}
FrameWr(f) == f.lhs.wr \cup ArgsWr(f, 0)

\* the same of everything younger than the m-th call, u the operand on its way
Dirt(c, u, m) == Touched(u) \/ \E j \in (m + 1)..Len(c) : Dirty(c[j])
Wrote(c, u, m) == u.wr \cup UNION {FrameWr(c[j]) : j \in (m + 1)..Len(c)}

\* The operands a call holds are where their descriptors say, unless younger
\* code has used the registers or written to the variable.
Fine(f, dirt, wrote, r, M) ==
  /\ f.k = "expr" /\ ~dirt => InReg(f.lhs, r, M)
  /\ f.k = "expr" /\ wrote \cap Extent(f.lhs) = {} => InMem(f.lhs, M)
  /\ \A k \in DOMAIN f.args :
       (wrote \cup ArgsWr(f, k)) \cap Extent(f.args[k]) = {} => InMem(f.args[k], M)
Held(c, u, r, M) == \A i \in DOMAIN c : Fine(c[i], Dirt(c, u, i), Wrote(c, u, i), r, M)

\* the operands a call holds
Operands(f) ==
  /\ f.lhs = NoDesc \/ Operand(f.lhs)
  /\ \A k \in DOMAIN f.args : Operand(f.args[k])

\* A variable that nothing wrote to has its value.
LEMMA InMemKept ==
  ASSUME NEW e, Operand(e) \/ e = NoDesc, NEW M \in FullMems, NEW N \in FullMems, NEW w,
         \A x \in Word \ w : N[x] = M[x], w \cap Extent(e) = {}, InMem(e, M)
  PROVE  InMem(e, N)
<1>1. CASE ~e.off
  BY <1>1 DEF InMem
<1>2. CASE e.off
  <2>1. e # NoDesc
    BY <1>2 DEF NoDesc
  <2>2. e.loc \in Word /\ e.lv
    BY <1>2, <2>1, LocalWord DEF Operand, Desc
  <2>3. Known(e.loc) /\ W(e.loc + 1) = Sum(e.loc, 1) /\ Sum(e.loc, 1) \in Word
    BY <2>2, FullFetch, KnownInt DEF Word
  <2>4. Extent(e) = IF IsChar8(e.ty) THEN {e.loc} ELSE {e.loc, Sum(e.loc, 1)}
    BY <2>2, <2>3 DEF Extent
  <2>5. M[e.loc] = N[e.loc] /\ (IsChar8(e.ty) \/ M[Sum(e.loc, 1)] = N[Sum(e.loc, 1)])
    BY <2>2, <2>3, <2>4
  <2>6. Load(e.ty, M, e.loc) = Load(e.ty, N, e.loc)
    BY <2>2, <2>5, FullLoad
  <2> QED
    BY <1>2, <2>6 DEF InMem
<1> QED
  BY <1>1, <1>2

\* More traces above a call leave it as fine as it was.
LEMMA FineKept ==
  ASSUME NEW f, Operands(f), NEW d, NEW d2, NEW w, NEW w2, NEW r, NEW s,
         NEW M \in FullMems, NEW N \in FullMems, Fine(f, d, w, r, M),
         d => d2, w \subseteq w2,
         (s = r /\ N = M) \/ (d2 /\ \A x \in Word \ w2 : N[x] = M[x])
  PROVE  Fine(f, d2, w2, s, N)
<1>1. ASSUME f.k = "expr", ~d2 PROVE InReg(f.lhs, s, N)
  BY <1>1 DEF Fine
<1>2. \A x \in Word \ w2 : N[x] = M[x]
  OBVIOUS
<1>3. ASSUME f.k = "expr", w2 \cap Extent(f.lhs) = {} PROVE InMem(f.lhs, N)
  <2>1. w \cap Extent(f.lhs) = {}
    BY <1>3
  <2>2. InMem(f.lhs, M)
    BY <1>3, <2>1 DEF Fine
  <2> QED
    BY <1>2, <1>3, <2>2, InMemKept DEF Operands
<1>4. ASSUME NEW k \in DOMAIN f.args, (w2 \cup ArgsWr(f, k)) \cap Extent(f.args[k]) = {}
      PROVE  InMem(f.args[k], N)
  <2>1. (w \cup ArgsWr(f, k)) \cap Extent(f.args[k]) = {} /\ w2 \cap Extent(f.args[k]) = {}
    BY <1>4
  <2>2. InMem(f.args[k], M)
    BY <2>1 DEF Fine
  <2> QED
    BY <1>2, <2>1, <2>2, InMemKept DEF Operands
<1> QED
  BY <1>1, <1>3, <1>4 DEF Fine

\* the first m calls are fine; they are the same calls; what is above them
\* leaves its traces
FineBelow(c, u, r, M, m) ==
  \A i \in 1..m : Fine(c[i], Dirt(c, u, i), Wrote(c, u, i), r, M)
SameBelow(c, d, m) ==
  /\ IsSeq(c) /\ IsSeq(d) /\ m \in Nat /\ m <= Len(c) /\ m <= Len(d)
  /\ \A i \in 1..m : d[i] = c[i] /\ Operands(c[i])
Quiet(w, dirt, r, M, s, N) == (s = r /\ N = M) \/ (dirt /\ \A x \in Word \ w : N[x] = M[x])
Traced(c, u, r, M, d, v, s, N, m) ==
  /\ Dirt(c, u, m) => Dirt(d, v, m)
  /\ Wrote(c, u, m) \subseteq Wrote(d, v, m)
  /\ Quiet(Wrote(d, v, m), Dirt(d, v, m), r, M, s, N)

\* What happens above the m-th call leaves the operands below it as fine as
\* they were.
LEMMA HeldBelow ==
  ASSUME NEW c, NEW u, NEW r, NEW M \in FullMems, NEW d, NEW v, NEW s, NEW N \in FullMems, NEW m,
         SameBelow(c, d, m), FineBelow(c, u, r, M, m), Traced(c, u, r, M, d, v, s, N, m)
  PROVE  FineBelow(d, v, s, N, m)
<1> USE DEF SameBelow, FineBelow, Traced, Quiet
<1> SUFFICES ASSUME NEW i \in 1..m
             PROVE  Fine(d[i], Dirt(d, v, i), Wrote(d, v, i), s, N)
  OBVIOUS
<1>0. m \in Nat /\ m <= Len(c) /\ m <= Len(d)
  OBVIOUS
<1>1. Len(c) \in Nat /\ Len(d) \in Nat
  BY SeqFacts
<1>2. \A j : j \in (i + 1)..Len(c) <=> (j \in (i + 1)..m \/ j \in (m + 1)..Len(c))
  BY <1>1
<1>3. \A j : j \in (i + 1)..Len(d) <=> (j \in (i + 1)..m \/ j \in (m + 1)..Len(d))
  BY <1>1
<1>4. \A j \in (i + 1)..m : d[j] = c[j]
  OBVIOUS
<1>5. Dirt(d, v, m) => Dirt(d, v, i)
  BY <1>3 DEF Dirt
<1>6. Dirt(c, u, i) => Dirt(d, v, i)
  <2>1. CASE Dirt(c, u, m)
    BY <2>1, <1>5
  <2>2. CASE ~Dirt(c, u, m)
    BY <2>2, <1>2, <1>3, <1>4 DEF Dirt
  <2> QED
    BY <2>1, <2>2
<1>7. Wrote(d, v, m) \subseteq Wrote(d, v, i)
  BY <1>3 DEF Wrote
<1>8. Wrote(c, u, i) \subseteq Wrote(d, v, i)
  <2> SUFFICES ASSUME NEW x \in Wrote(c, u, i) PROVE x \in Wrote(d, v, i)
    OBVIOUS
  <2>1. CASE x \in Wrote(c, u, m)
    BY <2>1, <1>7
  <2>2. CASE x \notin Wrote(c, u, m)
    <3>1. PICK j \in (i + 1)..Len(c) : x \in FrameWr(c[j])
      BY <2>2 DEF Wrote
    <3>2. j \in (i + 1)..m
      BY <3>1, <2>2, <1>2 DEF Wrote
    <3> QED
      BY <3>1, <3>2, <1>3, <1>4 DEF Wrote
  <2> QED
    BY <2>1, <2>2
<1>9. (s = r /\ N = M) \/ (Dirt(d, v, i) /\ \A x \in Word \ Wrote(d, v, i) : N[x] = M[x])
  BY <1>5, <1>7
<1>10. Fine(c[i], Dirt(c, u, i), Wrote(c, u, i), r, M) /\ Operands(c[i]) /\ d[i] = c[i]
  OBVIOUS
<1> HIDE DEF Dirt, Wrote
<1> QED
  BY <1>6, <1>8, <1>9, <1>10, FineKept

\* the traces above the top of a stack, and above one more call
LEMMA TracesNone ==
  ASSUME NEW b, NEW u, IsSeq(b)
  PROVE  (Dirt(b, u, Len(b)) <=> Touched(u)) /\ Wrote(b, u, Len(b)) = u.wr
<1> DEFINE n == Len(b)
<1>1. n \in Nat
  BY SeqFacts
<1> HIDE DEF n
<1>2. (n + 1)..n = {}
  BY <1>1
<1>3. (Dirt(b, u, n) <=> Touched(u)) /\ Wrote(b, u, n) = u.wr
  BY <1>2 DEF Dirt, Wrote, n
<1> QED
  BY <1>3 DEF n

\* The traces of one more call.
LEMMA TracesOne ==
  ASSUME NEW b, NEW u, NEW f, IsSeq(b)
  PROVE  /\ Dirt(Append(b, f), u, Len(b)) <=> Touched(u) \/ Dirty(f)
         /\ Wrote(Append(b, f), u, Len(b)) = u.wr \cup FrameWr(f)
<1> DEFINE n == Len(b)
           c == Append(b, f)
<1>1. n \in Nat
  BY SeqFacts
<1>2. Len(c) = n + 1 /\ c[n + 1] = f
  BY AppendFacts
<1> HIDE DEF n, c
<1>3. (n + 1)..Len(c) = {n + 1}
  BY <1>1, <1>2
<1>4. Dirt(c, u, n) <=> Touched(u) \/ Dirty(f)
  BY <1>2, <1>3 DEF Dirt
<1>5. Wrote(c, u, n) = u.wr \cup FrameWr(f)
  BY <1>2, <1>3 DEF Wrote
<1> QED
  BY <1>4, <1>5 DEF n, c

\* a non-empty stack is what is below its top, and the top
LEMMA TopSplit ==
  ASSUME NEW c, IsSeq(c), c # <<>>
  PROVE  c = Append(Butlast(c), c[Len(c)]) /\ IsSeq(Butlast(c))
<1> DEFINE d == Append(Butlast(c), c[Len(c)])
<1>1. /\ IsSeq(Butlast(c)) /\ Len(c) \in Nat \ {0} /\ Len(Butlast(c)) = Len(c) - 1
      /\ \A i \in 1..(Len(c) - 1) : Butlast(c)[i] = c[i]
  BY ButlastFacts
<1>2. /\ IsSeq(d) /\ Len(d) = Len(Butlast(c)) + 1 /\ d[Len(Butlast(c)) + 1] = c[Len(c)]
      /\ \A i \in 1..Len(Butlast(c)) : d[i] = Butlast(c)[i]
  BY <1>1, AppendFacts
<1>3. Len(d) = Len(c) /\ d[Len(c)] = c[Len(c)] /\ \A i \in 1..(Len(c) - 1) : d[i] = c[i]
  BY <1>1, <1>2
<1>4. \A i \in 1..Len(c) : i = Len(c) \/ i \in 1..(Len(c) - 1)
  BY <1>1
<1> HIDE DEF d
<1>5. \A i \in 1..Len(c) : c[i] = d[i]
  BY <1>3, <1>4
<1>6. c = d
  BY <1>2, <1>3, <1>5, IsSeqEqual
<1> QED
  BY <1>1, <1>6 DEF d

Hold(b) == \A i \in DOMAIN b : Operands(b[i])

\* What is held, call by call.
LEMMA HeldParts ==
  ASSUME NEW b, IsSeq(b), NEW u, NEW r, NEW M, NEW f
  PROVE  Held(Append(b, f), u, r, M)
           <=> /\ Fine(f, Touched(u), u.wr, r, M)
               /\ \A i \in 1..Len(b) : Fine(b[i], Dirt(Append(b, f), u, i),
                                            Wrote(Append(b, f), u, i), r, M)
<1> DEFINE c == Append(b, f)
           n == Len(b)
<1>1. /\ n \in Nat /\ IsSeq(c) /\ Len(c) = n + 1 /\ DOMAIN c = 1..(n + 1) /\ c[n + 1] = f
      /\ \A i \in 1..n : c[i] = b[i]
  BY AppendFacts
<1>2. (Dirt(c, u, n + 1) <=> Touched(u)) /\ Wrote(c, u, n + 1) = u.wr
  <2> HIDE DEF c
  <2>1. (Dirt(c, u, Len(c)) <=> Touched(u)) /\ Wrote(c, u, Len(c)) = u.wr
    BY <1>1, TracesNone
  <2> QED
    BY <2>1, <1>1
<1> HIDE DEF c, n
<1>3. \A i : i \in 1..(n + 1) <=> i \in 1..n \/ i = n + 1
  BY <1>1
<1>4. Fine(f, Dirt(c, u, n + 1), Wrote(c, u, n + 1), r, M) <=> Fine(f, Touched(u), u.wr, r, M)
  <2> HIDE DEF Fine
  <2>1. CASE Touched(u)
    BY <2>1, <1>2 DEF Fine
  <2>2. CASE ~Touched(u)
    BY <2>2, <1>2 DEF Fine
  <2> QED
    BY <2>1, <2>2
<1> QED
  BY <1>1, <1>3, <1>4 DEF Held, c, n

\* Three ways the top of the stack changes: it is replaced, it returns, a call
\* is entered on it or the operand on its way changes.
LEMMA HeldReplace ==
  ASSUME NEW b, IsSeq(b), Hold(b), NEW f, NEW g, NEW u, NEW v, NEW r, NEW s,
         NEW M \in FullMems, NEW N \in FullMems, Held(Append(b, f), u, r, M),
         Touched(u) \/ Dirty(f) => Touched(v) \/ Dirty(g),
         u.wr \cup FrameWr(f) \subseteq v.wr \cup FrameWr(g),
         Quiet(v.wr \cup FrameWr(g), Touched(v) \/ Dirty(g), r, M, s, N),
         Fine(g, Touched(v), v.wr, s, N)
  PROVE  Held(Append(b, g), v, s, N)
<1> DEFINE c == Append(b, f)
           d == Append(b, g)
           n == Len(b)
<1>1. SameBelow(c, d, n)
  <2>1. /\ n \in Nat /\ DOMAIN b = 1..n /\ IsSeq(c) /\ Len(c) = n + 1
        /\ \A i \in 1..n : c[i] = b[i]
    BY AppendFacts
  <2>2. IsSeq(d) /\ Len(d) = n + 1 /\ \A i \in 1..n : d[i] = b[i]
    BY AppendFacts
  <2> HIDE DEF c, d, n
  <2>3. n <= Len(c) /\ n <= Len(d)
    BY <2>1, <2>2
  <2>4. \A i \in 1..n : d[i] = c[i] /\ Operands(c[i])
    BY <2>1, <2>2 DEF Hold
  <2> QED
    BY <2>1, <2>2, <2>3, <2>4 DEF SameBelow
<1>2. FineBelow(c, u, r, M, n)
  <2>1. \A i \in 1..n : Fine(b[i], Dirt(c, u, i), Wrote(c, u, i), r, M)
    BY HeldParts
  <2>2. \A i \in 1..n : c[i] = b[i]
    BY AppendFacts
  <2> HIDE DEF c, n
  <2> QED
    BY <2>1, <2>2 DEF FineBelow
<1>3. Traced(c, u, r, M, d, v, s, N, n)
  <2>1. Dirt(c, u, n) <=> Touched(u) \/ Dirty(f)
    BY TracesOne
  <2>2. Dirt(d, v, n) <=> Touched(v) \/ Dirty(g)
    BY TracesOne
  <2>3. Wrote(c, u, n) = u.wr \cup FrameWr(f)
    BY TracesOne
  <2>4. Wrote(d, v, n) = v.wr \cup FrameWr(g)
    BY TracesOne
  <2> HIDE DEF c, d, n
  <2> QED
    BY <2>1, <2>2, <2>3, <2>4 DEF Traced, Quiet
<1> HIDE DEF c, d, n
<1>4. FineBelow(d, v, s, N, n)
  BY <1>1, <1>2, <1>3, HeldBelow
<1>5. \A i \in 1..n : Fine(b[i], Dirt(d, v, i), Wrote(d, v, i), s, N)
  <2>1. \A i \in 1..n : d[i] = b[i]
    BY AppendFacts DEF d, n
  <2> QED
    BY <1>4, <2>1 DEF FineBelow
<1> QED
  BY <1>5, HeldParts DEF d, n

\* The innermost call returns with the operand v.
LEMMA HeldReturn ==
  ASSUME NEW b, IsSeq(b), Hold(b), NEW f, NEW u, NEW v, NEW r, NEW s,
         NEW M \in FullMems, NEW N \in FullMems, Held(Append(b, f), u, r, M),
         Touched(u) \/ Dirty(f) => Touched(v),
         u.wr \cup FrameWr(f) \subseteq v.wr,
         Quiet(v.wr, Touched(v), r, M, s, N)
  PROVE  Held(b, v, s, N)
<1> DEFINE c == Append(b, f)
           n == Len(b)
<1>0. n \in Nat /\ DOMAIN b = 1..n
  BY SeqFacts
<1>1. SameBelow(c, b, n)
  <2>1. /\ n \in Nat /\ DOMAIN b = 1..n /\ IsSeq(c) /\ Len(c) = n + 1
        /\ \A i \in 1..n : c[i] = b[i]
    BY AppendFacts
  <2>2. n = Len(b)
    OBVIOUS
  <2> HIDE DEF c, n
  <2>3. n <= Len(c) /\ n <= Len(b)
    BY <2>1, <2>2
  <2>4. \A i \in 1..n : b[i] = c[i] /\ Operands(c[i])
    BY <2>1 DEF Hold
  <2> QED
    BY <2>1, <2>3, <2>4 DEF SameBelow
<1>2. FineBelow(c, u, r, M, n)
  <2>1. \A i \in 1..n : Fine(b[i], Dirt(c, u, i), Wrote(c, u, i), r, M)
    BY HeldParts
  <2>2. \A i \in 1..n : c[i] = b[i]
    BY AppendFacts
  <2> HIDE DEF c, n
  <2> QED
    BY <2>1, <2>2 DEF FineBelow
<1>3. Traced(c, u, r, M, b, v, s, N, n)
  <2>1. Dirt(c, u, n) <=> Touched(u) \/ Dirty(f)
    BY TracesOne
  <2>2. Dirt(b, v, n) <=> Touched(v)
    BY TracesNone
  <2>3. Wrote(c, u, n) = u.wr \cup FrameWr(f)
    BY TracesOne
  <2>4. Wrote(b, v, n) = v.wr
    BY TracesNone
  <2> HIDE DEF c, n
  <2> QED
    BY <2>1, <2>2, <2>3, <2>4 DEF Traced, Quiet
<1> HIDE DEF c, n
<1>4. FineBelow(b, v, s, N, n)
  BY <1>1, <1>2, <1>3, HeldBelow
<1> QED
  BY <1>0, <1>4 DEF Held, FineBelow

\* A call is entered.
LEMMA HeldEnter ==
  ASSUME NEW b, IsSeq(b), Hold(b), NEW u, NEW v, NEW r, NEW M \in FullMems, Held(b, u, r, M),
         NEW g, Touched(u) => Touched(v) \/ Dirty(g), u.wr \subseteq v.wr \cup FrameWr(g),
         Fine(g, Touched(v), v.wr, r, M)
  PROVE  Held(Append(b, g), v, r, M)
<1> DEFINE d == Append(b, g)
           n == Len(b)
<1>0. n \in Nat /\ DOMAIN b = 1..n
  BY SeqFacts
<1>1. SameBelow(b, d, n)
  <2>1. IsSeq(d) /\ Len(d) = n + 1 /\ \A i \in 1..n : d[i] = b[i]
    BY AppendFacts
  <2>2. n = Len(b)
    OBVIOUS
  <2> HIDE DEF d, n
  <2>3. n <= Len(d) /\ n <= Len(b)
    BY <1>0, <2>1, <2>2
  <2>4. \A i \in 1..n : d[i] = b[i] /\ Operands(b[i])
    BY <1>0, <2>1 DEF Hold
  <2> QED
    BY <1>0, <2>1, <2>3, <2>4 DEF SameBelow
<1>2. FineBelow(b, u, r, M, n)
  BY <1>0 DEF Held, FineBelow
<1>3. Traced(b, u, r, M, d, v, r, M, n)
  <2>1. Dirt(b, u, n) <=> Touched(u)
    BY TracesNone
  <2>2. Dirt(d, v, n) <=> Touched(v) \/ Dirty(g)
    BY TracesOne
  <2>3. Wrote(b, u, n) = u.wr
    BY TracesNone
  <2>4. Wrote(d, v, n) = v.wr \cup FrameWr(g)
    BY TracesOne
  <2> HIDE DEF d, n
  <2> QED
    BY <2>1, <2>2, <2>3, <2>4 DEF Traced, Quiet
<1> HIDE DEF d, n
<1>4. FineBelow(d, v, r, M, n)
  BY <1>1, <1>2, <1>3, HeldBelow
<1>5. \A i \in 1..n : Fine(b[i], Dirt(d, v, i), Wrote(d, v, i), r, M)
  <2>1. \A i \in 1..n : d[i] = b[i]
    BY AppendFacts DEF d, n
  <2> QED
    BY <1>4, <2>1 DEF FineBelow
<1> QED
  BY <1>5, HeldParts DEF d, n

\* The operand on its way changes.
LEMMA HeldSame ==
  ASSUME NEW b, IsSeq(b), Hold(b), NEW u, NEW v, NEW r, NEW M \in FullMems, Held(b, u, r, M),
         Touched(u) => Touched(v), u.wr \subseteq v.wr
  PROVE  Held(b, v, r, M)
<1> DEFINE n == Len(b)
<1>0. n \in Nat /\ DOMAIN b = 1..n
  BY SeqFacts
<1>1. SameBelow(b, b, n)
  BY <1>0 DEF SameBelow, Hold
<1>2. FineBelow(b, u, r, M, n)
  BY <1>0 DEF Held, FineBelow
<1>3. Traced(b, u, r, M, b, v, r, M, n)
  <2>1. Dirt(b, u, n) <=> Touched(u)
    BY TracesNone
  <2>2. Dirt(b, v, n) <=> Touched(v)
    BY TracesNone
  <2>3. Wrote(b, u, n) = u.wr
    BY TracesNone
  <2>4. Wrote(b, v, n) = v.wr
    BY TracesNone
  <2> HIDE DEF n
  <2> QED
    BY <2>1, <2>2, <2>3, <2>4 DEF Traced, Quiet
<1> HIDE DEF n
<1>4. FineBelow(b, v, r, M, n)
  BY <1>1, <1>2, <1>3, HeldBelow
<1> QED
  BY <1>0, <1>4 DEF Held, FineBelow

-----------------------------------------------------------------------------
(* What a clean run keeps                                                  *)

\* A signed char is a finding of its own: the generator extends it with zeros.
NoSchar == /\ \A v \in Vars : VarType[v] # <<"schar">>
           /\ \A f \in Funcs : Sig[f].ret # <<"schar">>

\* the saved or reachable target of an assignment
Target(f) ==
  /\ f.lhs.off \/ f.lhs.addr
  /\ f.lhs.lv
  /\ f.can => /\ f.slots = 0 /\ f.lhs.off
              /\ IF IsChar8(f.lhs.ty) THEN ByteInReach(f.lhs.ix) ELSE WordInReach(f.lhs.ix)
  /\ ~f.can => f.slots = 1 /\ f.at = f.lhs.loc /\ f.at \in Word

Calls(f) == Operand(f.lhs) /\ \A k \in DOMAIN f.args : Operand(f.args[k])

\* what a call of the parser holds while it waits for the one it made
Waits(f) ==
  /\ f.min \in Nat \ {0}
  /\ f.k # "call" => f.args = <<>>
  /\ f.k \notin {"call", "expr"} => f.lhs = NoDesc
  /\ f.k = "expr" => IF f.op = "none" THEN f.lhs = NoDesc ELSE Operand(f.lhs)
  /\ f.k = "expr" /\ f.op = "=" => Target(f)
  /\ f.k = "call" => f.slots = 0 /\ Calls(f)
Waiting(c) == \A i \in DOMAIN c : Waits(c[i])

\* the innermost call in its operator loop, and while it pushes arguments
Loops(f) == f.min \in Nat \ {0} /\ f.args = <<>> /\ Operand(f.lhs)
Pushes(f) == f.min \in Nat \ {0} /\ Calls(f)

Forms(c, m) ==
  IF m \in {"loop", "push"}
    THEN /\ Waiting(Butlast(c))
         /\ m = "loop" => Loops(c[Len(c)])
         /\ m = "push" => Pushes(c[Len(c)])
    ELSE Waiting(c)

\* an operand just parsed: nothing has been emitted since
Ready(e, r, M) == Operand(e) /\ InReg(e, r, M) /\ InMem(e, M)
Current(m, e) == IF m \in {"return", "postfix"} THEN e ELSE NoDesc

Orderly(f) ==
  /\ \A k \in DOMAIN f.args : f.args[k].ty # <<"void">>
  /\ \A k \in 1..(Len(f.args) - 1) : ~Resident(f.args[k])
  /\ \A j, k \in DOMAIN f.args : j # k => ~Unsequenced(f.args[j], f.args[k])

\* The last argument is as it was parsed until it is pushed; what has been
\* pushed is what C passes.
Pushing(f, r, s, M) ==
  /\ f.slots = 0 /\ f.args # <<>> => InReg(f.args[Len(f.args)], r, M)
  /\ Orderly(f) =>
       \A n \in 1..f.slots :
         SlotValue(f.lhs, Len(f.args) - n + 1, s[f.sp0 + n]) = Passed(f)[Len(f.args) - n + 1]

Sem ==
  /\ mem = cmem /\ mem \in FullMems
  /\ Forms(ctl, mode)
  /\ Held(ctl, Current(mode, res), reg, mem)
  /\ mode \in {"return", "postfix"} => Ready(res, reg, mem)
  /\ mode = "push" => Pushing(Top, reg, stk, mem)
  /\ call.got = call.want
  /\ ValueDelivered

SInv == Clean => Sem

\* Nothing unclean becomes clean.
LEMMA StaysUnclean == ASSUME TInv, Next, Clean' PROVE Clean
<1>1. frag \in BOOLEAN /\ cub \in BOOLEAN /\ err \in BOOLEAN
  BY DEF TInv
<1>2. \A kind : Expect(kind) /\ ~err' => ~err
  BY DEF Expect
<1>3. Clean' => frag' /\ ~cub' /\ ~err'
  BY DEF Clean
<1>4. CASE Leaf \/ OpenParen \/ CloseParen \/ NoPrimary
           \/ SizeofOpen \/ SizeofParen \/ SizeofType \/ SizeofStar \/ SizeofClose
  BY <1>1, <1>2, <1>3, <1>4 DEF Leaf, OpenParen, CloseParen, NoPrimary,
       SizeofOpen, SizeofParen, SizeofType, SizeofStar, SizeofClose, ghost, Clean
<1>5. CASE PrefixOp \/ NoCallSuffix \/ OpenCall \/ NoArgs \/ ParseArg \/ ArgParsed
           \/ UnaryParsed \/ EndExpr \/ StartBinary \/ KeepRhs
  BY <1>1, <1>2, <1>3, <1>5 DEF PrefixOp, NoCallSuffix, OpenCall, NoArgs, ParseArg, ArgParsed,
       UnaryParsed, EndExpr, StartBinary, KeepRhs, ghost, Clean
<1>6. CASE AddressOf \/ Dereference
  BY <1>1, <1>3, <1>6 DEF AddressOf, Dereference, Clean
<1>7. CASE PushArg \/ EmitCall
  BY <1>1, <1>3, <1>7 DEF PushArg, EmitCall, Clean
<1>8. CASE StartAssign
  BY <1>1, <1>3, <1>8 DEF StartAssign, Clean
<1>9. CASE Assign
  BY <1>1, <1>3, <1>9 DEF Assign, Clean
<1>10. CASE AddOperands
  BY <1>1, <1>3, <1>10 DEF AddOperands, Clean
<1>11. CASE CompareOperands
  BY <1>1, <1>3, <1>11 DEF CompareOperands, Clean
<1>12. CASE UseValue
  BY <1>1, <1>3, <1>12 DEF UseValue, Clean
<1>13. CASE Done
  BY <1>3, <1>13 DEF Done, vars, ghost, Clean
<1> QED
  BY <1>4, <1>5, <1>6, <1>7, <1>8, <1>9, <1>10, <1>11, <1>12, <1>13 DEF Next, Step

\* The conversions leave the operand's value and type.
LEMMA EnsureKeeps ==
  ASSUME NEW e, NEW r, NEW M, Desc(e)
  PROVE  /\ EnsureHL(e, r, M).d.val = e.val /\ EnsureHL(e, r, M).d.ty = e.ty
         /\ EnsureA(e, r, M).d.val = e.val /\ EnsureA(e, r, M).d.ty = e.ty
<1>1. DOMAIN e = DescFields
  BY DEF Desc
<1>2. EnsureHL(e, r, M).d \in {e, [[e EXCEPT !.hl = TRUE] EXCEPT !.off = FALSE],
        [[e EXCEPT !.hl = TRUE] EXCEPT !.addr = FALSE], [e EXCEPT !.hl = TRUE],
        [[e EXCEPT !.hl = TRUE] EXCEPT !.a = FALSE]}
  BY DEF EnsureHL
<1>3. EnsureA(e, r, M).d \in {e, [[e EXCEPT !.a = TRUE] EXCEPT !.off = FALSE],
        [[e EXCEPT !.a = TRUE] EXCEPT !.addr = FALSE], [e EXCEPT !.a = TRUE]}
  BY DEF EnsureA
<1>4. \A d \in {e, [[e EXCEPT !.hl = TRUE] EXCEPT !.off = FALSE],
        [[e EXCEPT !.hl = TRUE] EXCEPT !.addr = FALSE], [e EXCEPT !.hl = TRUE],
        [[e EXCEPT !.hl = TRUE] EXCEPT !.a = FALSE]} : d.val = e.val /\ d.ty = e.ty
  BY <1>1 DEF DescFields
<1>5. \A d \in {e, [[e EXCEPT !.a = TRUE] EXCEPT !.off = FALSE],
        [[e EXCEPT !.a = TRUE] EXCEPT !.addr = FALSE], [e EXCEPT !.a = TRUE]} :
        d.val = e.val /\ d.ty = e.ty
  BY <1>1 DEF DescFields
<1> QED
  BY <1>2, <1>3, <1>4, <1>5

\* what is not signed is promoted as it is
LEMMA PromotedIs == ASSUME NEW e, e.ty # <<"schar">> PROVE Promoted(e) = e.val
BY DEF Promoted

\* the empty descriptor touches nothing
LEMMA NoneTouched ==
  /\ ~Touched(NoDesc) /\ NoDesc.wr = {} /\ ~Resident(NoDesc) /\ Extent(NoDesc) = {}
  /\ \A r, M : InReg(NoDesc, r, M) /\ InMem(NoDesc, M)
BY DEF Touched, Resident, NoDesc, NoType, Extent, InReg, InMem

\* words and their registers
LEMMA HLParts ==
  ASSUME NEW r \in Regs, NEW w \in Word, HL(r) = w
  PROVE  r.h = Hi(w) /\ r.l = Lo(w) /\ r.h \in Bytes /\ r.l \in Bytes
<1>1. w # Junk /\ r.h \in Cell /\ r.l \in Cell
  BY JunkAssumption DEF Word, Regs
<1>2. Pair(r.h, r.l) = w
  BY DEF HL
<1>3. r.h \in 0..(Byte - 1) /\ r.l \in 0..(Byte - 1)
  BY <1>1, <1>2 DEF Pair, Known, Cell
<1>4. Hi(Pair(r.h, r.l)) = r.h /\ Lo(Pair(r.h, r.l)) = r.l
  BY <1>3, JoinBytes
<1> QED
  BY <1>2, <1>3, <1>4 DEF Bytes

\* The calls below the innermost one wait.
LEMMA WaitingAppend ==
  ASSUME NEW b, IsSeq(b), NEW f
  PROVE  Waiting(Append(b, f)) <=> Waiting(b) /\ Waits(f)
<1>1. /\ Len(b) \in Nat /\ DOMAIN b = 1..Len(b) /\ DOMAIN Append(b, f) = 1..(Len(b) + 1)
      /\ \A i \in 1..Len(b) : Append(b, f)[i] = b[i]
      /\ Append(b, f)[Len(b) + 1] = f
  BY AppendFacts
<1>2. \A i : i \in 1..(Len(b) + 1) <=> i \in 1..Len(b) \/ i = Len(b) + 1
  BY <1>1
<1> HIDE DEF Waits
<1> QED
  BY <1>1, <1>2 DEF Waiting

\* A waiting call's operands are finished ones.
LEMMA WaitsOperands == ASSUME NEW f, Waits(f) PROVE Operands(f)
<1>1. DOMAIN <<>> = {}
  OBVIOUS
<1> QED
  BY <1>1 DEF Waits, Calls, Operands

\* So are those of a stack that waits.
LEMMA WaitingHold == ASSUME NEW b, Waiting(b) PROVE Hold(b)
BY WaitsOperands DEF Waiting, Hold

\* a call just entered
Fresh(g) == /\ g.lhs = NoDesc /\ g.args = <<>> /\ g.slots = 0 /\ g.op = "none"
            /\ g.min \in Nat \ {0} /\ g.k # "call"

\* A precedence is a number.
LEMMA PrecNat == \A k : Prec(k) \in Nat
BY DEF Prec

\* The calls that are entered hold nothing.
LEMMA FreshFrames ==
  /\ \A n : Fresh([NoFrame EXCEPT !.sp0 = n])
  /\ \A k, n : k # "call" => Fresh([NoFrame EXCEPT !.k = k, !.sp0 = n])
  /\ \A p \in Nat \ {0} : \A n : Fresh([ExprFrame(p) EXCEPT !.sp0 = n])
BY DEF Fresh, NoFrame, ExprFrame

\* A call that holds nothing waits, and leaves no traces.
LEMMA FreshFacts ==
  ASSUME NEW g, Fresh(g)
  PROVE  /\ Waits(g) /\ ~Dirty(g) /\ FrameWr(g) = {}
         /\ \A d, w, r, M : Fine(g, d, w, r, M)
<1>1. g.lhs = NoDesc /\ g.args = <<>> /\ DOMAIN g.args = {} /\ Len(g.args) = 0
  BY DEF Fresh
<1>2. ArgsWr(g, 0) = {}
  BY <1>1 DEF ArgsWr
<1>3. ~Dirty(g) /\ FrameWr(g) = {}
  BY <1>1, <1>2, NoneTouched DEF Dirty, FrameWr, Fresh
<1>4. Waits(g)
  BY DEF Waits, Fresh
<1>5. ASSUME NEW d, NEW w, NEW r, NEW M PROVE Fine(g, d, w, r, M)
  <2>1. InReg(g.lhs, r, M) /\ InMem(g.lhs, M)
    BY <1>1, NoneTouched
  <2> QED
    BY <1>1, <2>1 DEF Fine
<1> QED
  BY <1>3, <1>4, <1>5

\* What the innermost call holds, and what those below it hold.
LEMMA SemTop ==
  ASSUME IInv, Sem, ctl # <<>>
  PROVE  /\ ctl = Append(Below, Top) /\ IsSeq(Below) /\ Waiting(Below) /\ Hold(Below)
         /\ Held(Append(Below, Top), Current(mode, res), reg, mem)
         /\ Fine(Top, Touched(Current(mode, res)), Current(mode, res).wr, reg, mem)
         /\ mode = "loop" => Loops(Top) /\ Top.k = "expr" /\ Top.op = "none"
         /\ mode = "push" => Pushes(Top) /\ Top.k = "call"
         /\ mode \notin {"loop", "push"} => Waits(Top)
<1>1. IsSeq(ctl) /\ ModeOK(ctl, mode)
  BY DEF IInv, Shape
<1>2. ctl = Append(Butlast(ctl), ctl[Len(ctl)]) /\ IsSeq(Butlast(ctl))
  BY <1>1, TopSplit
<1>3. Below = Butlast(ctl) /\ Top = ctl[Len(ctl)]
  BY DEF Below, Butlast, Top
<1>4. ctl = Append(Below, Top) /\ IsSeq(Below)
  BY <1>2, <1>3
<1>5. Forms(ctl, mode) /\ Held(ctl, Current(mode, res), reg, mem)
  BY DEF Sem
<1>6. Held(Append(Below, Top), Current(mode, res), reg, mem)
  BY <1>4, <1>5
<1> DEFINE u == Current(mode, res)
<1>7. Fine(Top, Touched(u), u.wr, reg, mem)
  <2> HIDE DEF u
  <2>1. Held(Append(Below, Top), u, reg, mem)
    BY <1>6 DEF u
  <2> QED
    BY <1>4, <2>1, HeldParts
<1>8. mode \notin {"loop", "push"} => Waiting(Below) /\ Waits(Top)
  <2> SUFFICES ASSUME mode \notin {"loop", "push"} PROVE Waiting(Below) /\ Waits(Top)
    OBVIOUS
  <2>1. Waiting(ctl)
    BY <1>5 DEF Forms
  <2>2. Waiting(Append(Below, Top))
    BY <1>4, <2>1
  <2> QED
    BY <1>4, <2>2, WaitingAppend
<1>9. /\ mode \in {"loop", "push"} => Waiting(Below)
      /\ mode = "loop" => Loops(Top) /\ Top.k = "expr" /\ Top.op = "none"
      /\ mode = "push" => Pushes(Top) /\ Top.k = "call"
  BY <1>1, <1>3, <1>5 DEF Forms, ModeOK
<1>10. Waiting(Below)
  BY <1>8, <1>9
<1>11. Hold(Below)
  BY <1>10, WaitingHold
<1> QED
  BY <1>4, <1>6, <1>7, <1>8, <1>9, <1>10, <1>11

\* the forms of a stack: a waiting one, and one with its top at work
LEMMA FormsOf ==
  ASSUME NEW b, IsSeq(b), Waiting(b), NEW f, NEW m
  PROVE  /\ m \notin {"loop", "push"} => Forms(b, m)
         /\ m \notin {"loop", "push"} /\ Waits(f) => Forms(Append(b, f), m)
         /\ m = "loop" /\ Loops(f) => Forms(Append(b, f), m)
         /\ m = "push" /\ Pushes(f) => Forms(Append(b, f), m)
<1> DEFINE c == Append(b, f)
<1>1. IsSeq(c) /\ c # <<>> /\ c[Len(c)] = f /\ Len(c) = Len(b) + 1 /\ Len(b) \in Nat
  <2>1. IsSeq(c) /\ Len(c) = Len(b) + 1 /\ c[Len(b) + 1] = f /\ Len(b) \in Nat
    BY AppendFacts
  <2> HIDE DEF c
  <2>2. c # <<>>
    BY <2>1, SeqFacts
  <2> QED
    BY <2>1, <2>2
<1>2. Butlast(c) = b
  <2>1. /\ IsSeq(Butlast(c)) /\ Len(Butlast(c)) = Len(c) - 1
        /\ \A i \in 1..(Len(c) - 1) : Butlast(c)[i] = c[i]
    <3> HIDE DEF c
    <3> QED
      BY <1>1, ButlastFacts
  <2>2. \A i \in 1..Len(b) : c[i] = b[i]
    BY AppendFacts
  <2> HIDE DEF c
  <2>3. Len(Butlast(c)) = Len(b) /\ \A i \in 1..Len(Butlast(c)) : Butlast(c)[i] = b[i]
    BY <1>1, <2>1, <2>2
  <2> QED
    BY <2>1, <2>3, IsSeqEqual
<1>3. m \notin {"loop", "push"} => Forms(b, m)
  BY DEF Forms
<1>4. m \notin {"loop", "push"} /\ Waits(f) => Forms(c, m)
  BY WaitingAppend DEF Forms
<1> HIDE DEF c
<1>5. m = "loop" /\ Loops(f) => Forms(c, m)
  BY <1>1, <1>2 DEF Forms
<1>6. m = "push" /\ Pushes(f) => Forms(c, m)
  BY <1>1, <1>2 DEF Forms
<1> QED
  BY <1>3, <1>4, <1>5, <1>6 DEF c

\* Entering a call that holds nothing yet leaves what is held.
LEMMA HeldFresh ==
  ASSUME NEW b, IsSeq(b), Hold(b), NEW r, NEW M \in FullMems, Held(b, NoDesc, r, M),
         NEW g, Fresh(g)
  PROVE  Held(Append(b, g), NoDesc, r, M)
<1>1. Fine(g, Touched(NoDesc), NoDesc.wr, r, M)
  BY FreshFacts
<1>2. (Touched(NoDesc) => Touched(NoDesc) \/ Dirty(g)) /\ NoDesc.wr \subseteq NoDesc.wr \cup FrameWr(g)
  OBVIOUS
<1> QED
  BY <1>1, <1>2, HeldEnter

\* What a step has to show.
LEMMA SemThen ==
  ASSUME mem' = cmem', mem' \in FullMems, Forms(ctl', mode'),
         Held(ctl', Current(mode', res'), reg', mem'),
         mode' \in {"return", "postfix"} => Ready(res', reg', mem'),
         mode' = "push" => Pushing(Top', reg', stk', mem'),
         call'.got = call'.want, mode' # "done"
  PROVE  Sem'
BY DEF Sem, ValueDelivered

-----------------------------------------------------------------------------
(* The steps of a clean run: operands                                      *)

\* types of one and two words
LEMMA SingleType ==
  \A x : /\ IsSeq(<<x>>) /\ Head(<<x>>) = x
         /\ IsSeq(<<"func", x>>) /\ Head(<<"func", x>>) = "func" /\ <<"func", x>>[2] = x
<1> SUFFICES ASSUME NEW x
             PROVE  /\ IsSeq(<<x>>) /\ Head(<<x>>) = x
                    /\ IsSeq(<<"func", x>>) /\ Head(<<"func", x>>) = "func" /\ <<"func", x>>[2] = x
  OBVIOUS
<1>1. <<x>> \in Seq({x}) /\ <<"func", x>> \in Seq({"func", x})
  OBVIOUS
<1>2. IsSeq(<<x>>) /\ IsSeq(<<"func", x>>)
  BY <1>1 DEF IsSeq
<1>3. Head(<<x>>) = x
  OBVIOUS
<1>4. Head(<<"func", x>>) = "func" /\ <<"func", x>>[2] = x
  OBVIOUS
<1> QED
  BY <1>2, <1>3, <1>4

\* A pointer is neither a character nor void.
LEMMA PointerType ==
  ASSUME NEW t, IsSeq(t)
  PROVE  /\ IsSeq(PtrTo(t)) /\ Head(PtrTo(t)) = "ptr" /\ PtrTo(t) # <<"schar">>
         /\ PtrTo(t) # <<"void">> /\ ~IsChar8(PtrTo(t))
<1>1. PICK S : t \in Seq(S)
  BY DEF IsSeq
<1>2. PtrTo(t) \in Seq(S \cup {"ptr"}) /\ PtrTo(t) # <<>> /\ PtrTo(t)[1] = "ptr"
  BY <1>1 DEF PtrTo
<1>3. IsSeq(PtrTo(t))
  BY <1>2 DEF IsSeq
<1>4. Head(PtrTo(t)) = "ptr"
  BY <1>2
<1>5. Head(<<"schar">>) = "schar" /\ Head(<<"void">>) = "void"
  OBVIOUS
<1> HIDE DEF PtrTo
<1> QED
  BY <1>3, <1>4, <1>5 DEF IsChar8

\* A literal is a finished operand.
LEMMA LiteralOperand == \A n \in Int : \A r, M : Ready(Literal(n), r, M) /\ ~Touched(Literal(n))
<1> SUFFICES ASSUME NEW n \in Int, NEW r, NEW M
             PROVE  Ready(Literal(n), r, M) /\ ~Touched(Literal(n))
  OBVIOUS
<1> DEFINE e == Literal(n)
<1>1. /\ e.ty = <<"int">> /\ e.val = W(n) /\ e.ival = n /\ e.const /\ ~e.hl /\ ~e.a
      /\ ~e.off /\ ~e.addr /\ e.label = "none"
  BY DEF Literal, NoDesc, Int16
<1>2. Desc(e) /\ W(n) \in Word
  BY DescLeaves, WWord
<1>3. IsSeq(<<"int">>) /\ Head(<<"int">>) = "int"
  BY SingleType
<1> HIDE DEF e
<1>4. e.ty # <<"schar">> /\ ~IsChar8(e.ty) /\ Head(e.ty) # "func" /\ IsSeq(e.ty) /\ e.ty # <<"void">>
  BY <1>1, <1>3 DEF IsChar8
<1>5. Operand(e)
  BY <1>1, <1>2, <1>4 DEF Operand
<1>6. ~Touched(e) /\ InReg(e, r, M) /\ InMem(e, M)
  BY <1>1, <1>4 DEF Touched, Resident, InReg, InMem
<1> QED
  BY <1>5, <1>6 DEF Ready, e

\* So is a string literal.
LEMMA StringOperand == \A r, M : Ready(StringLit, r, M)
<1> SUFFICES ASSUME NEW r, NEW M PROVE Ready(StringLit, r, M)
  OBVIOUS
<1> DEFINE e == StringLit
<1>1. /\ e.ty = PtrTo(<<"char">>) /\ e.val = LabelAddr["str"] /\ e.const /\ ~e.hl /\ ~e.a
      /\ ~e.off /\ ~e.addr /\ e.label = "str"
  BY DEF StringLit, NoDesc
<1>2. Desc(e) /\ LabelAddr["str"] \in Word
  BY DescLeaves, LabelAssumption DEF Word
<1> HIDE DEF e
<1>3. IsSeq(e.ty) /\ Head(e.ty) = "ptr" /\ e.ty # <<"schar">> /\ ~IsChar8(e.ty)
  BY <1>1, SingleType, PointerType
<1>4. Operand(e)
  BY <1>1, <1>2, <1>3 DEF Operand
<1>5. InReg(e, r, M) /\ InMem(e, M)
  BY <1>1 DEF InReg, InMem
<1> QED
  BY <1>4, <1>5 DEF Ready, e

\* So is a name.
LEMMA IdentOperand ==
  ASSUME NoSchar, NEW v \in Vars \cup Funcs, NEW r, cmem \in FullMems
  PROVE  Ready(LoadIdent(v), r, cmem)
<1> DEFINE e == LoadIdent(v)
<1>0. Desc(e)
  <2>1. cmem \in Mems
    BY DEF FullMems, Mems, Bytes, Cell
  <2> QED
    BY <2>1, DescLeaves
<1>1. CASE v \in Vars
  <2>1. /\ e.ty = VarType[v] /\ e.lv /\ e.off /\ e.ix = VarOff[v] /\ e.loc = Local(VarOff[v])
        /\ e.val = Load(VarType[v], cmem, Local(VarOff[v]))
        /\ ~e.const /\ ~e.hl /\ ~e.a /\ ~e.addr
    BY <1>1 DEF LoadIdent, NoDesc
  <2>2. VarOff[v] \in Int /\ Head(VarType[v]) # "func" /\ VarType[v] # <<"schar">>
        /\ IsSeq(VarType[v])
    BY <1>1, VarAssumption DEF NoSchar, IsSeq
  <2>3. Local(VarOff[v]) \in Word
    BY <2>2, LocalWord
  <2> HIDE DEF e
  <2>4. e.val \in Word /\ (IsChar8(e.ty) => e.val \in Bytes)
    BY <2>1, <2>3, FullLoad
  <2>5. Operand(e)
    BY <1>0, <2>1, <2>2, <2>4 DEF Operand
  <2>6. InReg(e, r, cmem) /\ InMem(e, cmem)
    BY <2>1 DEF InReg, InMem
  <2> QED
    BY <2>5, <2>6 DEF Ready, e
<1>2. CASE v \notin Vars
  <2>1. /\ e.ty = <<"func", v>> /\ e.const /\ e.label = v /\ e.val = LabelAddr[v]
        /\ ~e.hl /\ ~e.a /\ ~e.addr /\ ~e.off /\ e.wr = {} /\ v \in Funcs
    BY <1>2 DEF LoadIdent, NoDesc
  <2>2. v # "none" /\ LabelAddr[v] \in Word
    BY <2>1, FuncAssumption, LabelAssumption DEF Word
  <2> HIDE DEF e
  <2>3. IsSeq(e.ty) /\ Head(e.ty) = "func" /\ e.ty[2] = v
    BY <2>1, SingleType
  <2>4. e.ty # <<"schar">> /\ ~IsChar8(e.ty)
    BY <2>3, SingleType DEF IsChar8
  <2>5. Operand(e)
    BY <1>0, <2>1, <2>2, <2>3, <2>4 DEF Operand
  <2>6. InReg(e, r, cmem) /\ InMem(e, cmem)
    BY <2>1 DEF InReg, InMem
  <2> QED
    BY <2>5, <2>6 DEF Ready, e
<1> QED
  BY <1>1, <1>2

\* a leaf of the expression
LEMMA LeafSem == ASSUME NoSchar, IInv, TInv, Sem, Leaf PROVE Sem'
<1>1. /\ mode = "unary" /\ mode' = "postfix"
      /\ UNCHANGED ctl /\ UNCHANGED reg /\ UNCHANGED mem /\ UNCHANGED cmem /\ UNCHANGED call
  BY DEF Leaf, machine, ghost
<1>2. Current(mode, res) = NoDesc /\ Current(mode', res') = res'
  BY <1>1 DEF Current
<1>3. mem = cmem /\ mem \in FullMems /\ Forms(ctl, mode) /\ Held(ctl, NoDesc, reg, mem)
      /\ call.got = call.want
  BY <1>2 DEF Sem
<1>4. Ready(res', reg, mem)
  <2>1. CASE tok.k = "int"
    <3>1. tok.n \in Int
      BY <2>1, ReadToken
    <3>2. res' = Literal(tok.n)
      BY <2>1 DEF Leaf
    <3> QED
      BY <3>1, <3>2, LiteralOperand
  <2>2. CASE tok.k = "str"
    <3>1. res' = StringLit
      BY <2>2 DEF Leaf
    <3> QED
      BY <3>1, StringOperand
  <2>3. CASE tok.k = "ident"
    <3>1. tok.s \in Vars \cup Funcs
      BY <2>3, ReadToken
    <3>2. res' = LoadIdent(tok.s)
      BY <2>3 DEF Leaf
    <3> QED
      BY <1>3, <3>1, <3>2, IdentOperand
  <2> QED
    BY <2>1, <2>2, <2>3 DEF Leaf
<1>5. IsSeq(ctl) /\ Waiting(ctl)
  BY <1>1, <1>3 DEF IInv, Shape, Forms
<1>6. Hold(ctl)
  BY <1>5, WaitingHold
<1>7. Held(ctl, res', reg, mem)
  <2>1. (Touched(NoDesc) => Touched(res')) /\ NoDesc.wr \subseteq res'.wr
    BY NoneTouched
  <2> QED
    BY <1>3, <1>5, <1>6, <2>1, HeldSame
<1>8. Forms(ctl', mode')
  BY <1>1, <1>5 DEF Forms
<1>9. Held(ctl', Current(mode', res'), reg', mem')
  BY <1>1, <1>2, <1>7
<1>10. Ready(res', reg', mem')
  BY <1>1, <1>4
<1> QED
  BY <1>1, <1>3, <1>8, <1>9, <1>10, SemThen

\* what a clean step may not do
LEMMA CleanStep == ASSUME Clean' PROVE frag' /\ ~cub' /\ ~err'
BY DEF Clean

\* steps that only move in a call
LEMMA StaySem ==
  ASSUME IInv, TInv, Sem, Clean',
         SizeofOpen \/ SizeofParen \/ SizeofType \/ SizeofStar \/ SizeofClose
           \/ NoCallSuffix \/ NoPrimary
  PROVE Sem'
<1>1. ~err'
  BY CleanStep
<1>2. /\ UNCHANGED ctl /\ UNCHANGED reg /\ UNCHANGED mem /\ UNCHANGED cmem /\ UNCHANGED call
  BY DEF SizeofOpen, SizeofParen, SizeofType, SizeofStar, SizeofClose, NoCallSuffix,
     NoPrimary, machine, ghost
<1>3. mode \notin {"loop", "push"} /\ mode' \notin {"loop", "push", "done"}
  BY DEF SizeofOpen, SizeofParen, SizeofType, SizeofStar, SizeofClose, NoCallSuffix, NoPrimary
<1>4. mem = cmem /\ mem \in FullMems /\ Forms(ctl, mode) /\ Held(ctl, Current(mode, res), reg, mem)
      /\ call.got = call.want
  BY DEF Sem
<1>5. Waiting(ctl) /\ IsSeq(ctl)
  BY <1>3, <1>4 DEF IInv, Shape, Forms
<1>6. Forms(ctl', mode')
  BY <1>2, <1>3, <1>5 DEF Forms
<1>7. CASE NoCallSuffix
  <2>1. mode = "postfix" /\ mode' = "return" /\ res' = res
    BY <1>7 DEF NoCallSuffix
  <2>2. Current(mode', res') = Current(mode, res) /\ Ready(res, reg, mem)
    BY <2>1 DEF Current, Sem
  <2>3. Held(ctl', Current(mode', res'), reg', mem') /\ Ready(res', reg', mem')
    BY <1>2, <1>4, <2>1, <2>2
  <2> QED
    BY <1>2, <1>3, <1>4, <1>6, <2>3, SemThen
<1>8. CASE NoPrimary
  BY <1>1, <1>8 DEF NoPrimary
<1>9. CASE SizeofClose
  <2>1. mode = "sizeof*" /\ mode' = "return" /\ res' = Literal(SizeOf(res.ty))
    BY <1>9 DEF SizeofClose
  <2>2. SizeOf(res.ty) \in Int
    BY DEF SizeOf
  <2>3. Ready(res', reg, mem)
    BY <2>1, <2>2, LiteralOperand
  <2>4. Current(mode, res) = NoDesc /\ Current(mode', res') = res'
    BY <2>1 DEF Current
  <2>5. Held(ctl, res', reg, mem)
    <3>1. (Touched(NoDesc) => Touched(res')) /\ NoDesc.wr \subseteq res'.wr
      BY NoneTouched
    <3>2. Hold(ctl) /\ Held(ctl, NoDesc, reg, mem)
      BY <1>4, <1>5, <2>4, WaitingHold
    <3> QED
      BY <1>4, <1>5, <3>1, <3>2, HeldSame
  <2>6. Held(ctl', Current(mode', res'), reg', mem') /\ Ready(res', reg', mem')
    BY <1>2, <2>3, <2>4, <2>5
  <2> QED
    BY <1>2, <1>3, <1>4, <1>6, <2>6, SemThen
<1>10. CASE SizeofOpen \/ SizeofParen \/ SizeofType \/ SizeofStar
  <2>1. mode \notin {"return", "postfix"} /\ mode' \notin {"return", "postfix"}
    BY <1>1, <1>10 DEF SizeofOpen, SizeofParen, SizeofType, SizeofStar
  <2>2. Current(mode, res) = NoDesc /\ Current(mode', res') = NoDesc
    BY <2>1 DEF Current
  <2>3. Held(ctl', Current(mode', res'), reg', mem')
    BY <1>2, <1>4, <2>2
  <2> QED
    BY <1>2, <1>3, <1>4, <1>6, <2>1, <2>3, SemThen
<1> QED
  BY <1>7, <1>8, <1>9, <1>10

\* steps that enter a call
LEMMA EnterSem ==
  ASSUME IInv, TInv, Sem, Clean', OpenParen \/ PrefixOp \/ ParseArg
  PROVE Sem'
<1>1. ~err'
  BY CleanStep
<1>2. /\ UNCHANGED reg /\ UNCHANGED mem /\ UNCHANGED cmem /\ UNCHANGED call
  BY DEF OpenParen, PrefixOp, ParseArg, machine, ghost
<1>3. mode \in {"unary", "args"} /\ mode' = "unary"
  BY <1>1 DEF OpenParen, PrefixOp, ParseArg
<1>4. Current(mode, res) = NoDesc /\ Current(mode', res') = NoDesc
  BY <1>3 DEF Current
<1>5. mem = cmem /\ mem \in FullMems /\ Forms(ctl, mode) /\ Held(ctl, NoDesc, reg, mem)
      /\ call.got = call.want
  BY <1>4 DEF Sem
<1>6. Waiting(ctl) /\ IsSeq(ctl) /\ Hold(ctl)
  BY <1>3, <1>5, WaitingHold DEF IInv, Shape, Forms
<1>7. ASSUME NEW g, Fresh(g)
      PROVE  /\ IsSeq(Append(ctl, g)) /\ Waiting(Append(ctl, g)) /\ Hold(Append(ctl, g))
             /\ Held(Append(ctl, g), NoDesc, reg, mem)
  <2>1. Waiting(Append(ctl, g))
    BY <1>6, <1>7, WaitingAppend, FreshFacts
  <2>2. IsSeq(Append(ctl, g))
    BY <1>6, AppendFacts
  <2>3. Held(Append(ctl, g), NoDesc, reg, mem)
    BY <1>5, <1>6, <1>7, HeldFresh
  <2> QED
    BY <2>1, <2>2, <2>3, WaitingHold
<1>8. Waiting(ctl') /\ Held(ctl', NoDesc, reg, mem)
  <2>1. CASE OpenParen
    <3> DEFINE g == [NoFrame EXCEPT !.k = "paren", !.sp0 = Len(stk)]
               h == [NoFrame EXCEPT !.sp0 = Len(stk)]
    <3>1. ctl' = Append(Append(ctl, g), h)
      <4>1. PICK S : ctl \in Seq(S)
        BY <1>6 DEF IsSeq
      <4>2. ctl' = ctl \o <<g, h>>
        BY <2>1 DEF OpenParen
      <4> HIDE DEF g, h
      <4>3. ctl \in Seq(S \cup {g, h})
        BY <4>1
      <4> QED
        BY <4>2, <4>3
    <3>2. Fresh(g) /\ Fresh(h)
      BY FreshFrames
    <3> HIDE DEF g, h
    <3> DEFINE b == Append(ctl, g)
    <3>3. IsSeq(b) /\ Waiting(b) /\ Hold(b) /\ Held(b, NoDesc, reg, mem)
      BY <1>7, <3>2
    <3> HIDE DEF b
    <3>4. Waiting(Append(b, h))
      BY <3>2, <3>3, WaitingAppend, FreshFacts
    <3>5. Held(Append(b, h), NoDesc, reg, mem)
      BY <1>5, <3>2, <3>3, HeldFresh
    <3> QED
      BY <3>1, <3>4, <3>5 DEF b
  <2>2. CASE PrefixOp
    <3> DEFINE kind == IF tok.k = "&" THEN "amp" ELSE "deref"
               g == [NoFrame EXCEPT !.k = kind, !.sp0 = Len(stk)]
    <3>1. ctl' = Append(ctl, g)
      <4>1. [[NoFrame EXCEPT !.k = kind] EXCEPT !.sp0 = Len(stk)] = g
        BY DEF NoFrame
      <4> QED
        BY <2>2, <4>1 DEF PrefixOp, Enter
    <3>2. Fresh(g)
      <4>1. kind # "call"
        OBVIOUS
      <4> HIDE DEF kind
      <4> QED
        BY <4>1 DEF Fresh, NoFrame
    <3> HIDE DEF g
    <3> QED
      BY <3>1, <3>2, <1>7
  <2>3. CASE ParseArg
    <3> DEFINE g == [ExprFrame(1) EXCEPT !.sp0 = Len(stk)]
    <3>1. ctl' = Append(ctl, g)
      BY <1>1, <2>3 DEF ParseArg, Enter
    <3>2. Fresh(g)
      <4>1. 1 \in Nat \ {0}
        OBVIOUS
      <4> QED
        BY <4>1, FreshFrames
    <3> HIDE DEF g
    <3> QED
      BY <3>1, <3>2, <1>7
  <2> QED
    BY <2>1, <2>2, <2>3
<1>9. Forms(ctl', mode')
  BY <1>3, <1>8 DEF Forms
<1>10. Held(ctl', Current(mode', res'), reg', mem')
  BY <1>2, <1>4, <1>8
<1> QED
  BY <1>2, <1>3, <1>5, <1>9, <1>10, SemThen

\* A call is opened on the operand that stands before its parenthesis.
LEMMA OpenCallSem == ASSUME IInv, TInv, Sem, OpenCall PROVE Sem'
<1> DEFINE g == [NoFrame EXCEPT !.k = "call", !.lhs = res, !.sp0 = Len(stk)]
<1>1. /\ UNCHANGED reg /\ UNCHANGED mem /\ UNCHANGED cmem /\ UNCHANGED call
      /\ mode = "postfix" /\ mode' = "args" /\ ctl' = Append(ctl, g)
  <2>1. [[NoFrame EXCEPT !.k = "call", !.lhs = res] EXCEPT !.sp0 = Len(stk)] = g
    BY DEF NoFrame
  <2> QED
    BY <2>1 DEF OpenCall, machine, ghost, Enter
<1>2. Current(mode, res) = res /\ Current(mode', res') = NoDesc
  BY <1>1 DEF Current
<1>3. mem = cmem /\ mem \in FullMems /\ Forms(ctl, mode) /\ Held(ctl, res, reg, mem)
      /\ call.got = call.want /\ Ready(res, reg, mem)
  BY <1>1, <1>2 DEF Sem
<1>4. Waiting(ctl) /\ IsSeq(ctl) /\ Hold(ctl)
  BY <1>1, <1>3, WaitingHold DEF IInv, Shape, Forms
<1>5. /\ g.k = "call" /\ g.lhs = res /\ g.args = <<>> /\ g.slots = 0 /\ g.min = 1
      /\ g.op = "none" /\ DOMAIN g.args = {} /\ Len(g.args) = 0
  BY DEF NoFrame
<1> HIDE DEF g
<1>6. Waits(g)
  BY <1>3, <1>5 DEF Waits, Calls, Ready
<1>7. Held(Append(ctl, g), NoDesc, reg, mem)
  <2>1. Touched(res) => Touched(NoDesc) \/ Dirty(g)
    BY <1>5 DEF Dirty
  <2>2. res.wr \subseteq NoDesc.wr \cup FrameWr(g)
    BY <1>5 DEF FrameWr
  <2>3. Fine(g, Touched(NoDesc), NoDesc.wr, reg, mem)
    BY <1>5 DEF Fine
  <2> QED
    BY <1>3, <1>4, <2>1, <2>2, <2>3, HeldEnter
<1>8. Forms(ctl', mode')
  BY <1>1, <1>4, <1>6, FormsOf
<1>9. Held(ctl', Current(mode', res'), reg', mem')
  BY <1>1, <1>2, <1>7
<1> QED
  BY <1>1, <1>3, <1>8, <1>9, SemThen

\* a call without arguments
LEMMA NoArgsSem == ASSUME IInv, TInv, Sem, NoArgs PROVE Sem'
<1>1. /\ UNCHANGED ctl /\ UNCHANGED reg /\ UNCHANGED stk /\ UNCHANGED mem /\ UNCHANGED cmem
      /\ UNCHANGED call /\ mode = "args" /\ mode' = "push" /\ Top.args = <<>>
  BY DEF NoArgs, machine, ghost
<1>2. Current(mode, res) = NoDesc /\ Current(mode', res') = NoDesc
  BY <1>1 DEF Current
<1>3. mem = cmem /\ mem \in FullMems /\ Held(ctl, NoDesc, reg, mem) /\ call.got = call.want
  BY <1>2 DEF Sem
<1>4. ctl # <<>> /\ Top.k = "call"
  BY <1>1 DEF IInv, ModeOK, Top
<1>5. ctl = Append(Below, Top) /\ IsSeq(Below) /\ Waiting(Below) /\ Waits(Top)
  BY <1>1, <1>4, SemTop
<1>6. Pushes(Top) /\ Top.slots = 0
  BY <1>4, <1>5 DEF Waits, Pushes
<1>7. Forms(ctl, "push")
  <2>1. Forms(Append(Below, Top), "push")
    BY <1>5, <1>6, FormsOf
  <2> QED
    BY <1>5, <2>1
<1>8. Pushing(Top, reg, stk, mem)
  <2>1. 1..Top.slots = {}
    BY <1>6
  <2> QED
    BY <1>1, <2>1 DEF Pushing
<1>9. Top' = Top
  BY <1>1 DEF Top
<1>10. Pushing(Top', reg', stk', mem')
  BY <1>1, <1>8, <1>9
<1>11. Held(ctl', Current(mode', res'), reg', mem') /\ Forms(ctl', mode')
  BY <1>1, <1>2, <1>3, <1>7
<1> QED
  BY <1>1, <1>3, <1>10, <1>11, SemThen

\* closing a parenthesis
LEMMA CloseParenSem == ASSUME IInv, TInv, Sem, CloseParen PROVE Sem'
<1>1. /\ UNCHANGED reg /\ UNCHANGED mem /\ UNCHANGED cmem /\ UNCHANGED call /\ UNCHANGED res
      /\ ctl # <<>> /\ Top.k = "paren" /\ mode = "return" /\ mode' = "postfix" /\ ctl' = Below
  BY DEF CloseParen, Returning, machine, ghost
<1>2. Current(mode, res) = res /\ Current(mode', res') = res
  BY <1>1 DEF Current
<1>3. mem = cmem /\ mem \in FullMems /\ Ready(res, reg, mem) /\ call.got = call.want
  BY <1>1 DEF Sem
<1>4. /\ IsSeq(Below) /\ Waiting(Below) /\ Hold(Below) /\ Waits(Top)
      /\ Held(Append(Below, Top), res, reg, mem) /\ FrameOK(Top)
  BY <1>1, <1>2, SemTop, TopFacts
<1>5. ~Dirty(Top) /\ FrameWr(Top) = {}
  <2>1. Top.slots = 0 /\ Top.lhs = NoDesc /\ Top.args = <<>>
    BY <1>1, <1>4 DEF Waits, FrameOK
  <2>2. DOMAIN Top.args = {} /\ 1..Len(Top.args) = {}
    BY <2>1
  <2> QED
    BY <2>1, <2>2, NoneTouched DEF Dirty, FrameWr, ArgsWr
<1>6. Held(Below, res, reg, mem)
  <2>1. (Touched(res) \/ Dirty(Top) => Touched(res)) /\ res.wr \cup FrameWr(Top) \subseteq res.wr
    BY <1>5
  <2>2. Quiet(res.wr, Touched(res), reg, mem, reg, mem)
    BY DEF Quiet
  <2> QED
    BY <1>3, <1>4, <2>1, <2>2, HeldReturn
<1>7. Forms(ctl', mode')
  BY <1>1, <1>4 DEF Forms
<1>8. Held(ctl', Current(mode', res'), reg', mem') /\ Ready(res', reg', mem')
  BY <1>1, <1>2, <1>3, <1>6
<1> QED
  BY <1>1, <1>3, <1>7, <1>8, SemThen

\* the loop of an operand begins
LEMMA UnaryParsedSem == ASSUME IInv, TInv, Sem, UnaryParsed PROVE Sem'
<1> DEFINE g == [Top EXCEPT !.lhs = res]
<1>1. /\ UNCHANGED reg /\ UNCHANGED mem /\ UNCHANGED cmem /\ UNCHANGED call
      /\ ctl # <<>> /\ Top.k = "expr" /\ Top.op = "none" /\ mode = "return" /\ mode' = "loop"
      /\ ctl' = Append(Below, g)
  BY DEF UnaryParsed, Returning, Replace, machine, ghost
<1>2. Current(mode, res) = res /\ Current(mode', res') = NoDesc
  BY <1>1 DEF Current
<1>3. mem = cmem /\ mem \in FullMems /\ Ready(res, reg, mem) /\ call.got = call.want
  BY <1>1 DEF Sem
<1>4. /\ IsSeq(Below) /\ Waiting(Below) /\ Hold(Below) /\ Waits(Top)
      /\ Held(Append(Below, Top), res, reg, mem) /\ FrameOK(Top)
  BY <1>1, <1>2, SemTop, TopFacts
<1>5. /\ Top.slots = 0 /\ Top.lhs = NoDesc /\ Top.args = <<>> /\ DOMAIN Top.args = {}
      /\ Len(Top.args) = 0 /\ Top.min \in Nat \ {0} /\ DOMAIN Top = Fields
  BY <1>1, <1>4 DEF Waits, FrameOK
<1>6. /\ g.lhs = res /\ g.args = <<>> /\ DOMAIN g.args = {} /\ g.min = Top.min
  BY <1>5 DEF Fields
<1> HIDE DEF g
<1>7. Loops(g)
  BY <1>3, <1>5, <1>6 DEF Loops, Ready
<1>8. Held(Append(Below, g), NoDesc, reg, mem)
  <2>1. Touched(res) \/ Dirty(Top) => Touched(NoDesc) \/ Dirty(g)
    BY <1>5, <1>6, NoneTouched DEF Dirty
  <2>2. res.wr \cup FrameWr(Top) \subseteq NoDesc.wr \cup FrameWr(g)
    BY <1>5, <1>6, NoneTouched DEF FrameWr, ArgsWr
  <2>3. Quiet(NoDesc.wr \cup FrameWr(g), Touched(NoDesc) \/ Dirty(g), reg, mem, reg, mem)
    BY DEF Quiet
  <2>4. Fine(g, Touched(NoDesc), NoDesc.wr, reg, mem)
    BY <1>3, <1>6 DEF Fine, Ready
  <2> QED
    BY <1>3, <1>4, <2>1, <2>2, <2>3, <2>4, HeldReplace
<1>9. Forms(ctl', mode')
  BY <1>1, <1>4, <1>7, FormsOf
<1>10. Held(ctl', Current(mode', res'), reg', mem')
  BY <1>1, <1>2, <1>8
<1> QED
  BY <1>1, <1>3, <1>9, <1>10, SemThen

\* What the loop of an expression finds in its left operand.
LEMMA LoopFacts ==
  ASSUME IInv, TInv, Sem, ctl # <<>>, mode = "loop"
  PROVE  /\ mem = cmem /\ mem \in FullMems /\ call.got = call.want
         /\ IsSeq(Below) /\ Waiting(Below) /\ Hold(Below)
         /\ Held(Append(Below, Top), NoDesc, reg, mem)
         /\ Ready(Top.lhs, reg, mem)
         /\ Top.k = "expr" /\ Top.op = "none" /\ Top.slots = 0 /\ Top.args = <<>>
         /\ DOMAIN Top.args = {} /\ Len(Top.args) = 0
         /\ Top.min \in Nat \ {0} /\ DOMAIN Top = Fields
         /\ FrameWr(Top) = Top.lhs.wr /\ (Dirty(Top) <=> Touched(Top.lhs))
<1>1. Current(mode, res) = NoDesc
  BY DEF Current
<1>2. mem = cmem /\ mem \in FullMems /\ call.got = call.want
  BY DEF Sem
<1>3. /\ IsSeq(Below) /\ Waiting(Below) /\ Hold(Below) /\ Loops(Top)
      /\ Top.k = "expr" /\ Top.op = "none"
      /\ Held(Append(Below, Top), NoDesc, reg, mem) /\ FrameOK(Top)
      /\ Fine(Top, Touched(NoDesc), NoDesc.wr, reg, mem)
  BY <1>1, SemTop, TopFacts
<1>4. Top.args = <<>> /\ DOMAIN Top.args = {} /\ Len(Top.args) = 0 /\ Top.min \in Nat \ {0}
  BY <1>3 DEF Loops
<1>5. Top.slots = 0 /\ DOMAIN Top = Fields
  BY <1>3 DEF FrameOK
<1>6. InReg(Top.lhs, reg, mem) /\ InMem(Top.lhs, mem) /\ Operand(Top.lhs)
  BY <1>3, NoneTouched DEF Fine, Loops
<1>7. FrameWr(Top) = Top.lhs.wr /\ (Dirty(Top) <=> Touched(Top.lhs))
  BY <1>4, <1>5 DEF FrameWr, Dirty, ArgsWr
<1> QED
  BY <1>2, <1>3, <1>4, <1>5, <1>6, <1>7 DEF Ready

\* the loop ends
LEMMA EndExprSem == ASSUME IInv, TInv, Sem, EndExpr PROVE Sem'
<1>1. /\ UNCHANGED reg /\ UNCHANGED mem /\ UNCHANGED cmem /\ UNCHANGED call
      /\ ctl # <<>> /\ mode = "loop" /\ mode' = "return" /\ res' = Top.lhs /\ ctl' = Below
  BY DEF EndExpr, InLoop, machine, ghost
<1>2. /\ mem = cmem /\ mem \in FullMems /\ call.got = call.want
      /\ IsSeq(Below) /\ Waiting(Below) /\ Hold(Below)
      /\ Held(Append(Below, Top), NoDesc, reg, mem) /\ Ready(Top.lhs, reg, mem)
      /\ FrameWr(Top) = Top.lhs.wr /\ (Dirty(Top) <=> Touched(Top.lhs))
  BY <1>1, LoopFacts
<1>3. Current(mode', res') = res'
  BY <1>1 DEF Current
<1>4. Held(Below, res', reg, mem)
  <2>1. Touched(NoDesc) \/ Dirty(Top) => Touched(res')
    BY <1>1, <1>2, NoneTouched
  <2>2. NoDesc.wr \cup FrameWr(Top) \subseteq res'.wr
    BY <1>1, <1>2, NoneTouched
  <2>3. Quiet(res'.wr, Touched(res'), reg, mem, reg, mem)
    BY DEF Quiet
  <2> QED
    BY <1>2, <2>1, <2>2, <2>3, HeldReturn
<1>5. Forms(ctl', mode')
  BY <1>1, <1>2 DEF Forms
<1>6. Held(ctl', Current(mode', res'), reg', mem') /\ Ready(res', reg', mem')
  BY <1>1, <1>2, <1>3, <1>4
<1> QED
  BY <1>1, <1>2, <1>5, <1>6, SemThen

\* Another operand is parsed: the innermost call becomes f and waits.
LEMMA RhsSem ==
  ASSUME IInv, TInv, Sem, ctl # <<>>, mode = "loop", mode' = "unary",
         NEW f, NEW n, NEW p \in Nat \ {0}, EnterRhs(f, n, p), Waits(f),
         f.lhs = Top.lhs, f.k = "expr",
         UNCHANGED mem, UNCHANGED cmem, UNCHANGED call,
         reg' = reg \/ Dirty(f), Fine(f, FALSE, {}, reg', mem)
  PROVE  Sem'
<1> DEFINE g == [ExprFrame(p) EXCEPT !.sp0 = n]
           b == Append(Below, f)
<1>1. ctl' = Append(b, g) /\ Fresh(g)
  BY FreshFrames DEF EnterRhs
<1>2. /\ mem = cmem /\ mem \in FullMems /\ call.got = call.want
      /\ IsSeq(Below) /\ Waiting(Below) /\ Hold(Below)
      /\ Held(Append(Below, Top), NoDesc, reg, mem)
      /\ FrameWr(Top) = Top.lhs.wr /\ (Dirty(Top) <=> Touched(Top.lhs))
  BY LoopFacts
<1> HIDE DEF g
<1>3. IsSeq(b) /\ Waiting(b) /\ Hold(b)
  <2>1. IsSeq(b) /\ Waiting(b)
    BY <1>2, AppendFacts, WaitingAppend
  <2> QED
    BY <2>1, WaitingHold
<1>4. Held(b, NoDesc, reg', mem)
  <2>1. Touched(NoDesc) \/ Dirty(Top) => Touched(NoDesc) \/ Dirty(f)
    BY <1>2, NoneTouched DEF Dirty
  <2>2. NoDesc.wr \cup FrameWr(Top) \subseteq NoDesc.wr \cup FrameWr(f)
    BY <1>2, NoneTouched DEF FrameWr
  <2>3. Quiet(NoDesc.wr \cup FrameWr(f), Touched(NoDesc) \/ Dirty(f), reg, mem, reg', mem)
    BY DEF Quiet
  <2>4. Fine(f, Touched(NoDesc), NoDesc.wr, reg', mem)
    <3>1. ~Touched(NoDesc) /\ NoDesc.wr = {}
      BY NoneTouched
    <3> QED
      BY <3>1 DEF Fine
  <2> QED
    BY <1>2, <2>1, <2>2, <2>3, <2>4, HeldReplace
<1> HIDE DEF b
<1>5. Held(Append(b, g), NoDesc, reg', mem)
  BY <1>1, <1>2, <1>3, <1>4, HeldFresh
<1>6. Forms(ctl', mode')
  <2>1. Waits(g)
    BY <1>1, FreshFacts
  <2> QED
    BY <1>1, <1>3, <2>1, FormsOf
<1>7. Current(mode', res') = NoDesc
  BY DEF Current
<1>8. Held(ctl', Current(mode', res'), reg', mem')
  BY <1>1, <1>5, <1>7
<1>9. mem' = cmem' /\ mem' \in FullMems /\ call'.got = call'.want
  BY <1>2
<1> QED
  BY <1>6, <1>8, <1>9, SemThen

\* A binary operator waits for its right operand.
LEMMA StartBinarySem == ASSUME IInv, TInv, Sem, StartBinary PROVE Sem'
<1> DEFINE f == [Top EXCEPT !.op = tok.k]
<1>1. /\ UNCHANGED reg /\ UNCHANGED mem /\ UNCHANGED cmem /\ UNCHANGED call
      /\ ctl # <<>> /\ mode = "loop" /\ mode' = "unary"
      /\ EnterRhs(f, Len(stk), Prec(tok.k) + 1) /\ tok.k # "=" /\ Prec(tok.k) >= Top.min
  BY DEF StartBinary, InLoop, machine, ghost
<1>2. /\ Ready(Top.lhs, reg, mem) /\ Top.k = "expr" /\ Top.args = <<>> /\ DOMAIN Top = Fields
      /\ Top.min \in Nat \ {0} /\ DOMAIN Top.args = {}
  BY <1>1, LoopFacts
<1>3. /\ f.lhs = Top.lhs /\ f.k = "expr" /\ f.args = <<>> /\ f.min = Top.min /\ f.op = tok.k
      /\ DOMAIN f.args = {}
  BY <1>2 DEF Fields
<1> HIDE DEF f
<1>4. tok.k # "none" /\ Prec(tok.k) + 1 \in Nat \ {0}
  <2>1. Prec(tok.k) \in Nat /\ Prec(tok.k) >= 1
    BY <1>1, <1>2, PrecNat
  <2>2. Prec("none") = 0
    BY DEF Prec
  <2> HIDE DEF Prec
  <2>3. tok.k # "none"
    <3> SUFFICES ASSUME tok.k = "none" PROVE FALSE
      OBVIOUS
    <3>1. Prec(tok.k) = 0
      BY <2>2
    <3> QED
      BY <2>1, <3>1
  <2>4. Prec(tok.k) + 1 \in Nat \ {0}
    BY <2>1
  <2> QED
    BY <2>3, <2>4
<1>5. Waits(f)
  BY <1>1, <1>2, <1>3, <1>4 DEF Waits, Ready
<1>6. Fine(f, FALSE, {}, reg', mem)
  BY <1>1, <1>2, <1>3 DEF Fine, Ready
<1> QED
  BY <1>1, <1>3, <1>4, <1>5, <1>6, RhsSem

-----------------------------------------------------------------------------
(* The steps of a clean run: arguments, assignments and operators          *)

\* What the arguments wrote, one argument further.
LEMMA ArgsGrow ==
  ASSUME NEW f, NEW g, NEW e, IsSeq(f.args), g.args = Append(f.args, e)
  PROVE  /\ Len(f.args) \in Nat /\ Len(g.args) = Len(f.args) + 1
         /\ DOMAIN f.args = 1..Len(f.args) /\ DOMAIN g.args = 1..(Len(f.args) + 1)
         /\ \A k \in 1..Len(f.args) : g.args[k] = f.args[k]
         /\ g.args[Len(f.args) + 1] = e
         /\ \A k \in 0..Len(f.args) : ArgsWr(g, k) = ArgsWr(f, k) \cup e.wr
<1> DEFINE n == Len(f.args)
<1>1. /\ n \in Nat /\ Len(g.args) = n + 1 /\ DOMAIN f.args = 1..n /\ DOMAIN g.args = 1..(n + 1)
      /\ \A k \in 1..n : g.args[k] = f.args[k]
      /\ g.args[n + 1] = e
  BY AppendFacts
<1> HIDE DEF n
<1>2. ASSUME NEW k \in 0..n PROVE ArgsWr(g, k) = ArgsWr(f, k) \cup e.wr
  <2>1. \A j : j \in (k + 1)..(n + 1) <=> j \in (k + 1)..n \/ j = n + 1
    BY <1>1
  <2>2. \A j \in (k + 1)..n : g.args[j] = f.args[j]
    BY <1>1
  <2>3. Len(f.args) = n
    BY DEF n
  <2>4. ArgsWr(g, k) = UNION {g.args[j].wr : j \in (k + 1)..(n + 1)}
    BY <1>1 DEF ArgsWr
  <2>5. ArgsWr(f, k) = UNION {f.args[j].wr : j \in (k + 1)..n}
    BY <2>3 DEF ArgsWr
  <2>6. ASSUME NEW x PROVE x \in ArgsWr(g, k) <=> x \in ArgsWr(f, k) \/ x \in e.wr
    <3>1. ASSUME x \in ArgsWr(g, k) PROVE x \in ArgsWr(f, k) \/ x \in e.wr
      <4>1. PICK j \in (k + 1)..(n + 1) : x \in g.args[j].wr
        BY <2>4, <3>1
      <4>2. CASE j \in (k + 1)..n
        BY <4>1, <4>2, <2>2, <2>5
      <4>3. CASE j = n + 1
        BY <4>1, <4>3, <1>1
      <4> QED
        BY <2>1, <4>1, <4>2, <4>3
    <3>2. ASSUME x \in ArgsWr(f, k) PROVE x \in ArgsWr(g, k)
      <4>1. PICK j \in (k + 1)..n : x \in f.args[j].wr
        BY <2>5, <3>2
      <4> QED
        BY <4>1, <2>1, <2>2, <2>4
    <3>3. ASSUME x \in e.wr PROVE x \in ArgsWr(g, k)
      <4>1. n + 1 \in (k + 1)..(n + 1)
        BY <1>1
      <4> QED
        BY <4>1, <3>3, <1>1, <2>4
    <3> QED
      BY <3>1, <3>2, <3>3
  <2> QED
    BY <2>6
<1> QED
  BY <1>1, <1>2 DEF n

\* an argument has been parsed
LEMMA ArgParsedSem == ASSUME IInv, TInv, Sem, Clean', ArgParsed PROVE Sem'
<1> DEFINE g == [Top EXCEPT !.args = Append(Top.args, res)]
           n == Len(Top.args)
<1>1. /\ UNCHANGED reg /\ UNCHANGED stk /\ UNCHANGED mem /\ UNCHANGED cmem /\ UNCHANGED call
      /\ ctl # <<>> /\ Top.k = "call" /\ mode = "return" /\ mode' \in {"args", "push"}
      /\ ctl' = Append(Below, g)
  BY DEF ArgParsed, Returning, Replace, machine, ghost
<1>2. Current(mode, res) = res /\ Current(mode', res') = NoDesc
  BY <1>1 DEF Current
<1>3. mem = cmem /\ mem \in FullMems /\ Ready(res, reg, mem) /\ call.got = call.want
  BY <1>1 DEF Sem
<1>4. /\ IsSeq(Below) /\ Waiting(Below) /\ Hold(Below) /\ Waits(Top)
      /\ Held(Append(Below, Top), res, reg, mem) /\ FrameOK(Top)
      /\ Fine(Top, Touched(res), res.wr, reg, mem)
  BY <1>1, <1>2, SemTop, TopFacts
<1>5. Top.slots = 0 /\ Calls(Top) /\ Top.min \in Nat \ {0} /\ DOMAIN Top = Fields
  BY <1>1, <1>4 DEF Waits, FrameOK
<1>6. IsSeq(Top.args)
  BY <1>1, TopTyped DEF FrameTyped
<1>7. /\ g.lhs = Top.lhs /\ g.k = "call" /\ g.slots = 0 /\ g.args = Append(Top.args, res)
      /\ g.min = Top.min
  BY <1>1, <1>5 DEF Fields
<1>8. /\ n \in Nat /\ Len(g.args) = n + 1 /\ DOMAIN Top.args = 1..n /\ DOMAIN g.args = 1..(n + 1)
      /\ \A k \in 1..n : g.args[k] = Top.args[k]
      /\ g.args[n + 1] = res
      /\ \A k \in 0..n : ArgsWr(g, k) = ArgsWr(Top, k) \cup res.wr
  <2> HIDE DEF g
  <2> QED
    BY <1>6, <1>7, ArgsGrow
<1> HIDE DEF g, n
<1>9. \A k : k \in 1..(n + 1) <=> k \in 1..n \/ k = n + 1
  BY <1>8
<1>10. Calls(g)
  BY <1>3, <1>5, <1>7, <1>8, <1>9 DEF Calls, Ready
<1>11. Held(Append(Below, g), NoDesc, reg, mem)
  <2>1. Touched(res) \/ Dirty(Top) => Touched(NoDesc) \/ Dirty(g)
    <3>1. Touched(res) => Dirty(g)
      BY <1>8, <1>9 DEF Dirty
    <3>2. Dirty(Top) => Dirty(g)
      BY <1>5, <1>7, <1>8, <1>9 DEF Dirty
    <3> QED
      BY <3>1, <3>2
  <2>2. res.wr \cup FrameWr(Top) \subseteq NoDesc.wr \cup FrameWr(g)
    <3>1. 0 \in 0..n
      BY <1>8
    <3>2. ArgsWr(g, 0) = ArgsWr(Top, 0) \cup res.wr
      BY <3>1, <1>8
    <3> QED
      BY <3>2, <1>7 DEF FrameWr
  <2>3. Quiet(NoDesc.wr \cup FrameWr(g), Touched(NoDesc) \/ Dirty(g), reg, mem, reg, mem)
    BY DEF Quiet
  <2>4. Fine(g, Touched(NoDesc), NoDesc.wr, reg, mem)
    <3>1. ASSUME NEW k \in 1..(n + 1), (NoDesc.wr \cup ArgsWr(g, k)) \cap Extent(g.args[k]) = {}
          PROVE  InMem(g.args[k], mem)
      <4>1. CASE k = n + 1
        BY <4>1, <1>3, <1>8 DEF Ready
      <4>2. CASE k \in 1..n
        <5>1. k \in 0..n
          BY <4>2
        <5>2. ArgsWr(g, k) = ArgsWr(Top, k) \cup res.wr /\ g.args[k] = Top.args[k]
          BY <4>2, <5>1, <1>8
        <5>3. (res.wr \cup ArgsWr(Top, k)) \cap Extent(Top.args[k]) = {}
          BY <3>1, <5>2
        <5>4. InMem(Top.args[k], mem)
          BY <4>2, <5>3, <1>4, <1>8 DEF Fine
        <5> QED
          BY <5>2, <5>4
      <4> QED
        BY <4>1, <4>2, <1>9
    <3> QED
      BY <3>1, <1>7, <1>8 DEF Fine
  <2> QED
    BY <1>3, <1>4, <2>1, <2>2, <2>3, <2>4, HeldReplace
<1>12. Forms(ctl', mode')
  <2>1. Waits(g) /\ Pushes(g)
    BY <1>5, <1>7, <1>10 DEF Waits, Pushes
  <2> QED
    BY <1>1, <1>4, <2>1, FormsOf
<1>13. Held(ctl', Current(mode', res'), reg', mem')
  BY <1>1, <1>2, <1>11
<1>14. Pushing(Top', reg', stk', mem')
  <2>1. Top' = g
    <3>1. Len(ctl') = Len(Below) + 1 /\ ctl'[Len(Below) + 1] = g
      BY <1>1, <1>4, AppendFacts
    <3> QED
      BY <3>1 DEF Top
  <2>2. InReg(g.args[Len(g.args)], reg, mem)
    BY <1>3, <1>8 DEF Ready
  <2>3. 1..g.slots = {}
    BY <1>7
  <2>4. Pushing(g, reg, stk, mem)
    BY <2>2, <2>3 DEF Pushing
  <2> QED
    BY <1>1, <2>1, <2>4
<1> QED
  BY <1>1, <1>3, <1>12, <1>13, <1>14, SemThen

\* "=": the address is saved unless the store can reach the target
LEMMA StartAssignSem == ASSUME IInv, TInv, Sem, Clean', StartAssign PROVE Sem'
<1> DEFINE lhs == Top.lhs
           can == /\ lhs.off
                  /\ IF IsChar8(lhs.ty) THEN ByteInReach(lhs.ix) ELSE WordInReach(lhs.ix)
           save == ~can /\ (lhs.addr \/ lhs.off)
           r == IF save /\ ~lhs.addr THEN LoadLocalAddrHL(reg, lhs.ix) ELSE reg
           at == IF save THEN HL(r) ELSE Junk
           n == IF save THEN 1 ELSE 0
           f == [Top EXCEPT !.op = "=", !.can = can, !.slots = n, !.at = at]
<1>1. /\ ctl # <<>> /\ mode = "loop" /\ mode' = "unary" /\ reg' = r
      /\ EnterRhs(f, Len(stk'), Prec("="))
      /\ UNCHANGED mem /\ UNCHANGED cmem /\ UNCHANGED call
      /\ err' = (err \/ ~lhs.lv \/ (~lhs.off /\ ~lhs.addr))
  BY DEF StartAssign, InLoop
<1>2. lhs.lv /\ (lhs.off \/ lhs.addr)
  BY <1>1, CleanStep
<1>3. /\ Ready(lhs, reg, mem) /\ Top.k = "expr" /\ Top.args = <<>> /\ DOMAIN Top = Fields
      /\ Top.min \in Nat \ {0} /\ DOMAIN Top.args = {}
  BY <1>1, LoopFacts
<1>4. /\ f.lhs = lhs /\ f.k = "expr" /\ f.args = <<>> /\ f.min = Top.min /\ f.op = "="
      /\ f.can = can /\ f.slots = n /\ f.at = at /\ DOMAIN f.args = {}
  <2> HIDE DEF can, n, at
  <2> QED
    BY <1>3 DEF Fields
<1> HIDE DEF f
<1>5. lhs.ix \in Int /\ reg \in Regs /\ Operand(lhs)
  BY <1>3 DEF Ready, Operand, Desc, TInv
<1>6. ~can => HL(r) = lhs.loc /\ lhs.loc \in Word
  <2>1. CASE lhs.addr
    <3>1. r = reg
      BY <2>1
    <3> QED
      BY <2>1, <3>1, <1>3 DEF Ready, InReg, Operand
  <2>2. CASE ~lhs.addr /\ ~can
    <3>1. r = LoadLocalAddrHL(reg, lhs.ix) /\ lhs.off
      BY <2>2, <1>2
    <3>2. HL(r) = Local(lhs.ix) /\ Local(lhs.ix) \in Word
      <4>1. HL(LoadLocalAddrHL(reg, lhs.ix)) = Local(lhs.ix)
        BY <1>5, HLOf
      <4> QED
        BY <3>1, <4>1, <1>5, LocalWord
    <3>3. lhs.loc = Local(lhs.ix)
      BY <3>1, <1>5 DEF Operand
    <3> QED
      BY <3>2, <3>3
  <2> QED
    BY <2>1, <2>2
<1>7. Target(f)
  <2>1. f.can => f.slots = 0 /\ f.lhs.off
              /\ IF IsChar8(f.lhs.ty) THEN ByteInReach(f.lhs.ix) ELSE WordInReach(f.lhs.ix)
    BY <1>4
  <2>2. ~f.can => f.slots = 1 /\ f.at = f.lhs.loc /\ f.at \in Word
    BY <1>2, <1>4, <1>6
  <2> QED
    BY <2>1, <2>2, <1>2, <1>4 DEF Target
<1>8. Waits(f)
  BY <1>3, <1>4, <1>5, <1>7 DEF Waits
<1>9. reg' = reg \/ Dirty(f)
  BY <1>1, <1>4 DEF Dirty
<1>10. Fine(f, FALSE, {}, reg', mem)
  <2>1. InMem(lhs, mem)
    BY <1>3 DEF Ready
  <2>2. InReg(lhs, reg', mem)
    <3>1. CASE lhs.addr
      BY <3>1, <1>1, <1>3 DEF Ready
    <3>2. CASE ~lhs.addr
      BY <3>2, <1>2, <1>5 DEF InReg, Operand
    <3> QED
      BY <3>1, <3>2
  <2> QED
    BY <2>1, <2>2, <1>4 DEF Fine
<1>11. Prec("=") \in Nat \ {0}
  BY DEF Prec
<1> QED
  BY <1>1, <1>4, <1>8, <1>9, <1>10, <1>11, RhsSem

\* a store into a memory of bytes
LEMMA StoreFacts ==
  ASSUME NEW M \in FullMems, NEW w \in Word, NEW b \in Bytes
  PROVE  /\ Store(M, w, b) \in FullMems
         /\ \A x \in Word : x # w => Store(M, w, b)[x] = M[x]
<1>1. Known(w)
  BY KnownInt DEF Word
<1>2. Store(M, w, b) = [M EXCEPT ![w] = b]
  BY <1>1 DEF Store
<1> QED
  BY <1>2 DEF FullMems

\* What a binary operator finds when its right operand returns.
LEMMA ReturnFacts ==
  ASSUME IInv, TInv, Sem, ctl # <<>>, mode = "return", Top.k = "expr", Top.op # "none"
  PROVE  /\ mem = cmem /\ mem \in FullMems /\ call.got = call.want
         /\ IsSeq(Below) /\ Waiting(Below) /\ Hold(Below)
         /\ Held(Append(Below, Top), res, reg, mem)
         /\ Ready(res, reg, mem) /\ Operand(Top.lhs)
         /\ ~Touched(res) => InReg(Top.lhs, reg, mem)
         /\ res.wr \cap Extent(Top.lhs) = {} => InMem(Top.lhs, mem)
         /\ Top.op = "=" => Target(Top)
         /\ Top.args = <<>> /\ DOMAIN Top.args = {} /\ Len(Top.args) = 0
         /\ Top.min \in Nat \ {0} /\ DOMAIN Top = Fields /\ FrameOK(Top)
         /\ FrameWr(Top) = Top.lhs.wr
<1>1. Current(mode, res) = res
  BY DEF Current
<1>2. mem = cmem /\ mem \in FullMems /\ call.got = call.want /\ Ready(res, reg, mem)
  BY DEF Sem
<1>3. /\ IsSeq(Below) /\ Waiting(Below) /\ Hold(Below) /\ Waits(Top)
      /\ Held(Append(Below, Top), res, reg, mem) /\ FrameOK(Top)
      /\ Fine(Top, Touched(res), res.wr, reg, mem)
  BY <1>1, SemTop, TopFacts
<1>4. /\ Operand(Top.lhs) /\ (Top.op = "=" => Target(Top)) /\ Top.args = <<>>
      /\ DOMAIN Top.args = {} /\ Len(Top.args) = 0 /\ Top.min \in Nat \ {0}
  BY <1>3 DEF Waits
<1>5. FrameWr(Top) = Top.lhs.wr
  BY <1>4 DEF FrameWr, ArgsWr
<1>6. /\ ~Touched(res) => InReg(Top.lhs, reg, mem)
      /\ res.wr \cap Extent(Top.lhs) = {} => InMem(Top.lhs, mem)
  BY <1>3 DEF Fine
<1>7. DOMAIN Top = Fields
  BY <1>3 DEF FrameOK
<1> QED
  BY <1>2, <1>3, <1>4, <1>5, <1>6, <1>7

\* An operator's result replaces its operands: the loop goes on.
LEMMA ResultSem ==
  ASSUME IInv, TInv, Sem, ctl # <<>>, mode = "return", Top.k = "expr", Top.op # "none",
         mode' = "loop", NEW g, ctl' = Append(Below, g),
         g.k = "expr", g.min = Top.min, g.args = <<>>, Operand(g.lhs), Touched(g.lhs),
         Top.lhs.wr \cup res.wr \subseteq g.lhs.wr,
         mem' = cmem', mem' \in FullMems, UNCHANGED call,
         \A x \in Word \ g.lhs.wr : mem'[x] = mem[x],
         InReg(g.lhs, reg', mem'), InMem(g.lhs, mem')
  PROVE  Sem'
<1>1. /\ mem \in FullMems /\ IsSeq(Below) /\ Waiting(Below) /\ Hold(Below)
      /\ Held(Append(Below, Top), res, reg, mem) /\ call.got = call.want
      /\ FrameWr(Top) = Top.lhs.wr /\ Top.min \in Nat \ {0}
  BY ReturnFacts
<1>2. DOMAIN g.args = {} /\ Len(g.args) = 0
  OBVIOUS
<1>3. Dirty(g) /\ FrameWr(g) = g.lhs.wr
  BY <1>2 DEF Dirty, FrameWr, ArgsWr
<1>4. Held(Append(Below, g), NoDesc, reg', mem')
  <2>1. Touched(res) \/ Dirty(Top) => Touched(NoDesc) \/ Dirty(g)
    BY <1>3
  <2>2. res.wr \cup FrameWr(Top) \subseteq NoDesc.wr \cup FrameWr(g)
    BY <1>1, <1>3
  <2>3. Quiet(NoDesc.wr \cup FrameWr(g), Touched(NoDesc) \/ Dirty(g), reg, mem, reg', mem')
    BY <1>3 DEF Quiet
  <2>4. Fine(g, Touched(NoDesc), NoDesc.wr, reg', mem')
    BY <1>2 DEF Fine
  <2> QED
    BY <1>1, <2>1, <2>2, <2>3, <2>4, HeldReplace
<1>5. Forms(ctl', mode')
  <2>1. Loops(g)
    BY <1>1 DEF Loops
  <2> QED
    BY <1>1, <2>1, FormsOf
<1>6. Current(mode', res') = NoDesc
  BY DEF Current
<1>7. Held(ctl', Current(mode', res'), reg', mem')
  BY <1>4, <1>6
<1>8. call'.got = call'.want
  BY <1>1
<1> QED
  BY <1>5, <1>7, <1>8, SemThen

\* The store: the value reaches the object the left side names.
LEMMA AssignSem == ASSUME NoSchar, IInv, TInv, Sem, TInv', Clean', Assign PROVE Sem'
<1> DEFINE lhs == Top.lhs
           c8 == IsChar8(lhs.ty)
           c == IF c8 THEN EnsureA(res, reg, mem) ELSE EnsureHL(res, reg, mem)
           saved == Pair(stk[Len(stk)][1], stk[Len(stk)][2])
           r == IF Top.can \/ Top.slots = 0 THEN c.r
                ELSE IF c8 THEN LdHL(c.r, saved) ELSE LdDE(c.r, saved)
           to == IF Top.can THEN IxD(lhs.ix) ELSE IF c8 THEN HL(r) ELSE DE(r)
           next == IF Top.can THEN IxD(lhs.ix + 1) ELSE Sum(to, 1)
           val == Convert(lhs.ty, Promoted(res))
           e == [lhs EXCEPT !.a = c8 \/ lhs.a, !.hl = ~c8 \/ lhs.hl,
                            !.lv = FALSE, !.off = FALSE, !.addr = FALSE,
                            !.val = val, !.rd = lhs.rd \cup Reads(res),
                            !.wr = lhs.wr \cup res.wr \cup Extent(lhs)]
           f == [Top EXCEPT !.op = "none", !.slots = 0, !.at = Junk, !.can = FALSE,
                            !.lhs = e]
<1>1. /\ ctl # <<>> /\ mode = "return" /\ Top.k = "expr" /\ Top.op = "="
      /\ ctl' = Append(Below, f) /\ mode' = "loop"
      /\ reg' = IF c8 \/ Top.can THEN r ELSE LdDE([r EXCEPT !.a = r.h], Sum(DE(r), 1))
      /\ mem' = IF c8 THEN Store(mem, to, r.a)
                      ELSE Store(Store(mem, to, r.l), next, r.h)
      /\ cmem' = IF c8 THEN Store(cmem, lhs.loc, val) ELSE Store2(cmem, lhs.loc, val)
      /\ UNCHANGED call
  BY DEF Assign, Returning, Replace
<1>2. res.ty # <<"void">> /\ (c8 => NarrowOK(res))
  <2>1. frag' /\ ~cub'
    BY CleanStep
  <2> QED
    BY <2>1 DEF Assign
<1>3. /\ mem = cmem /\ mem \in FullMems /\ Ready(res, reg, mem) /\ Operand(lhs) /\ Target(Top)
      /\ DOMAIN Top = Fields /\ FrameOK(Top) /\ Top.args = <<>>
  BY <1>1, ReturnFacts
<1>4. reg \in Regs /\ mem \in Mems /\ Desc(lhs) /\ Desc(res) /\ DOMAIN lhs = DescFields
  BY <1>3 DEF TInv, Operand, Desc
<1>5. c.r \in Regs
  BY <1>4, EnsureTyped
<1>6. /\ lhs.lv /\ lhs.loc \in Word /\ lhs.ix \in Int /\ ~lhs.hl /\ ~lhs.a /\ ~lhs.const
      /\ Head(lhs.ty) # "func" /\ lhs.ty # <<"schar">> /\ IsSeq(lhs.ty)
  <2>1. lhs.ix \in Int /\ (lhs.off \/ lhs.addr) /\ lhs.lv
    BY <1>3, <1>4 DEF Desc, Target
  <2>2. Local(lhs.ix) \in Word
    BY <2>1, LocalWord
  <2> QED
    BY <1>3, <2>1, <2>2 DEF Operand
<1>7. /\ Promoted(res) = res.val /\ res.val \in Word /\ val \in Word
      /\ c8 => val = Lo(res.val) /\ val \in Bytes
      /\ ~c8 => val = res.val
  <2>1. res.val \in Word /\ Promoted(res) = res.val
    BY <1>3, PromotedIs DEF Ready, Operand
  <2>2. Lo(res.val) \in Bytes /\ Lo(res.val) \in Word
    BY <2>1, SplitWord, Words DEF Bytes
  <2> QED
    BY <2>1, <2>2 DEF Convert
<1>8. /\ c8 => c.r.a = val
      /\ ~c8 => HL(c.r) = val
  <2>1. c8 => EnsureA(res, reg, mem).r.a = Lo(res.val)
    BY <1>2, <1>3, <1>4, EnsureARight DEF Ready
  <2>2. ~c8 => HL(EnsureHL(res, reg, mem).r) = res.val
    BY <1>2, <1>3, <1>4, EnsureHLRight DEF Ready
  <2> QED
    BY <2>1, <2>2, <1>7
<1>9. ~Top.can => Top.slots = 1 /\ saved = lhs.loc
  <2> SUFFICES ASSUME ~Top.can PROVE Top.slots = 1 /\ saved = lhs.loc
    OBVIOUS
  <2>1. Top.slots = 1 /\ Top.at = lhs.loc
    BY <1>3 DEF Target
  <2>2. Kept(Top, stk) /\ Len(stk) = Top.sp0 + Top.slots
    <3>1. Shape(ctl, stk) /\ Top = ctl[Len(ctl)] /\ Len(ctl) \in DOMAIN ctl
      <4>1. IsSeq(ctl)
        BY DEF IInv, Shape
      <4>2. DOMAIN ctl = 1..Len(ctl) /\ Len(ctl) \in Nat /\ Len(ctl) # 0
        BY <1>1, <4>1, SeqFacts
      <4> QED
        BY <4>2 DEF IInv, Top
    <3> QED
      BY <1>1, <3>1 DEF Shape
  <2>3. Len(stk) = Top.sp0 + 1
    BY <2>1, <2>2
  <2>4. saved = Top.at
    BY <1>1, <2>1, <2>2, <2>3 DEF Kept
  <2> QED
    BY <2>1, <2>4
<1> HIDE DEF c, saved, val
<1>10. /\ r \in Regs
       /\ c8 => r.a = val
       /\ ~c8 => HL(r) = val
       /\ to = lhs.loc /\ (Top.can /\ ~c8 => next = Sum(lhs.loc, 1))
  <2>1. CASE Top.can
    <3>1. r = c.r
      BY <2>1
    <3>2. /\ lhs.off /\ lhs.loc = Local(lhs.ix)
          /\ IF c8 THEN ByteInReach(lhs.ix) ELSE WordInReach(lhs.ix)
      BY <2>1, <1>3 DEF Target, Operand
    <3>3. ByteInReach(lhs.ix) /\ (~c8 => ByteInReach(lhs.ix + 1))
      BY <3>2, <1>6, ReachAssumption DEF ByteInReach, WordInReach
    <3>4. IxD(lhs.ix) = Local(lhs.ix) /\ (~c8 => IxD(lhs.ix + 1) = Local(lhs.ix + 1))
      <4>1. lhs.ix + 1 \in Int
        BY <1>6
      <4> QED
        BY <3>3, <4>1, <1>6, NearLocal
    <3>5. Sum(Local(lhs.ix), 1) = Local(lhs.ix + 1)
      BY <1>6, LocalWord
    <3>6. to = lhs.loc /\ (~c8 => next = Sum(lhs.loc, 1))
      BY <2>1, <3>2, <3>4, <3>5
    <3>7. r \in Regs /\ (c8 => r.a = val) /\ (~c8 => HL(r) = val)
      <4> HIDE DEF r
      <4> QED
        BY <3>1, <1>5, <1>8
    <3> QED
      BY <3>6, <3>7
  <2>2. CASE ~Top.can
    <3>1. r = IF c8 THEN LdHL(c.r, lhs.loc) ELSE LdDE(c.r, lhs.loc)
      BY <2>2, <1>9
    <3>2. to = IF c8 THEN HL(r) ELSE DE(r)
      BY <2>2
    <3> HIDE DEF r, to
    <3>3. lhs.loc \in Value
      BY <1>6 DEF Value
    <3>4. r \in Regs
      BY <3>1, <3>3, <1>5, RegFacts
    <3>5. to = lhs.loc
      BY <3>1, <3>2, <1>5, <1>6, HLOf
    <3>6. (c8 => r.a = val) /\ (~c8 => HL(r) = val)
      <4>1. LdHL(c.r, lhs.loc).a = c.r.a /\ HL(LdDE(c.r, lhs.loc)) = HL(c.r)
        BY <1>5, <1>6, HLOf
      <4> QED
        BY <3>1, <4>1, <1>8
    <3> QED
      BY <2>2, <3>4, <3>5, <3>6
  <2> QED
    BY <2>1, <2>2
<1>11. ~c8 => next = Sum(lhs.loc, 1)
  <2>1. ~Top.can => next = Sum(to, 1)
    OBVIOUS
  <2> HIDE DEF next, to
  <2> QED
    BY <2>1, <1>10
<1> HIDE DEF r, to, next
<1>12. Sum(lhs.loc, 1) \in Word /\ Sum(lhs.loc, 1) = W(lhs.loc + 1) /\ Known(lhs.loc)
  BY <1>6, <1>3, FullFetch, KnownInt DEF Word
<1>13. ~c8 => r.h = Hi(val) /\ r.l = Lo(val) /\ r.h \in Bytes /\ r.l \in Bytes
  BY <1>7, <1>10, HLParts
<1>14. mem' = cmem'
  <2>1. CASE c8
    BY <2>1, <1>1, <1>3, <1>10
  <2>2. CASE ~c8
    <3>1. mem' = Store(Store(mem, lhs.loc, Lo(val)), Sum(lhs.loc, 1), Hi(val))
      BY <2>2, <1>1, <1>10, <1>11, <1>13
    <3> QED
      BY <2>2, <3>1, <1>1, <1>3 DEF Store2
  <2> QED
    BY <2>1, <2>2
<1>15. Extent(lhs) = IF c8 THEN {lhs.loc} ELSE {lhs.loc, Sum(lhs.loc, 1)}
  BY <1>6, <1>12 DEF Extent
<1>16. mem' \in FullMems /\ \A x \in Word \ Extent(lhs) : mem'[x] = mem[x]
  <2>1. CASE c8
    <3>1. mem' = Store(mem, lhs.loc, val) /\ val \in Bytes
      BY <2>1, <1>1, <1>7, <1>10
    <3> QED
      BY <2>1, <3>1, <1>3, <1>6, <1>15, StoreFacts
  <2>2. CASE ~c8
    <3> DEFINE M == Store(mem, lhs.loc, r.l)
    <3>1. M \in FullMems /\ \A x \in Word : x # lhs.loc => M[x] = mem[x]
      BY <2>2, <1>3, <1>6, <1>13, StoreFacts
    <3>2. mem' = Store(M, Sum(lhs.loc, 1), r.h)
      BY <2>2, <1>1, <1>10, <1>11
    <3> HIDE DEF M
    <3>3. /\ Store(M, Sum(lhs.loc, 1), r.h) \in FullMems
          /\ \A x \in Word : x # Sum(lhs.loc, 1) => Store(M, Sum(lhs.loc, 1), r.h)[x] = M[x]
      BY <2>2, <3>1, <1>12, <1>13, StoreFacts
    <3> QED
      BY <2>2, <3>1, <3>2, <3>3, <1>15
  <2> QED
    BY <2>1, <2>2
<1>17. /\ c8 => reg'.a = val
       /\ ~c8 => HL(reg') = val
  <2>1. CASE c8 \/ Top.can
    BY <2>1, <1>1, <1>10
  <2>2. CASE ~(c8 \/ Top.can)
    <3> DEFINE s == [r EXCEPT !.a = r.h]
    <3>1. s \in Regs /\ HL(s) = HL(r)
      BY <1>10 DEF Regs, HL
    <3>2. reg' = LdDE(s, Sum(DE(r), 1))
      BY <2>2, <1>1
    <3> HIDE DEF s
    <3>3. HL(LdDE(s, Sum(DE(r), 1))) = HL(s)
      BY <3>1 DEF HL, LdDE, Regs
    <3> QED
      BY <2>2, <3>1, <3>2, <3>3, <1>10
  <2> QED
    BY <2>1, <2>2
<1>18. /\ (e.a <=> c8) /\ (e.hl <=> ~c8) /\ ~e.lv /\ ~e.off /\ ~e.addr /\ e.val = val /\ e.ty = lhs.ty
       /\ e.const = lhs.const /\ e.wr = lhs.wr \cup res.wr \cup Extent(lhs)
  <2>1. /\ (e.a <=> c8 \/ lhs.a) /\ (e.hl <=> ~c8 \/ lhs.hl) /\ e.lv = FALSE /\ e.off = FALSE
        /\ e.addr = FALSE /\ e.val = val /\ e.ty = lhs.ty
        /\ e.const = lhs.const /\ e.wr = lhs.wr \cup res.wr \cup Extent(lhs)
    BY <1>4 DEF DescFields
  <2> QED
    BY <2>1, <1>6
<1>19. Desc(e)
  <2>1. val \in Value
    BY <1>7 DEF Value
  <2> QED
    BY <2>1, <1>4, DescOf
<1> HIDE DEF e
<1>20. Operand(e)
  BY <1>6, <1>7, <1>18, <1>19 DEF Operand
<1>21. InReg(e, reg', mem') /\ InMem(e, mem')
  BY <1>17, <1>18 DEF InReg, InMem
<1>22. Touched(e)
  BY <1>18 DEF Touched, Resident
<1>23. f.lhs = e /\ f.k = "expr" /\ f.min = Top.min /\ f.args = <<>>
  BY <1>1, <1>3 DEF Fields
<1> HIDE DEF f
<1>24. \A x \in Word \ f.lhs.wr : mem'[x] = mem[x]
  BY <1>16, <1>18, <1>23
<1>25. Top.lhs.wr \cup res.wr \subseteq f.lhs.wr
  BY <1>18, <1>23
<1> QED
  BY <1>1, <1>14, <1>16, <1>20, <1>21, <1>22, <1>23, <1>24, <1>25, ResultSem

\* Two operands are converted one after the other: the code of the second
\* finds it where it was.
LEMMA PairRight ==
  ASSUME TInv, mem \in FullMems, NEW e, NEW f, Operand(e), Operand(f),
         e.ty # <<"void">>, f.ty # <<"void">>,
         InReg(e, reg, mem), InMem(e, mem), InMem(f, mem), ~Resident(f)
  PROVE  LET c1 == EnsureHL(e, reg, mem)
             c2 == EnsureHL(f, c1.r, mem)
         IN  /\ HL(c1.r) = e.val /\ HL(c2.r) = f.val /\ c1.r \in Regs /\ c2.r \in Regs
<1>1. reg \in Regs /\ mem \in Mems /\ Desc(e) /\ Desc(f)
  BY DEF TInv, Operand
<1> DEFINE c1 == EnsureHL(e, reg, mem)
           c2 == EnsureHL(f, c1.r, mem)
<1>2. HL(c1.r) = e.val /\ c1.r \in Regs
  BY <1>1, EnsureHLRight, EnsureTyped
<1> HIDE DEF c1
<1>3. InReg(f, c1.r, mem)
  BY DEF InReg, Resident
<1>4. HL(c2.r) = f.val /\ c2.r \in Regs
  BY <1>1, <1>2, <1>3, EnsureHLRight, EnsureTyped
<1> QED
  BY <1>2, <1>4 DEF c1

\* the sum of two words in registers
LEMMA AddRight ==
  ASSUME NEW r \in Regs, NEW v \in Word, NEW w \in Word, HL(r) = w
  PROVE  /\ HL(AddHLDE(LdDE(r, v))) = Sum(v, w) /\ Sum(v, w) \in Word
         /\ DoubleHL(r) \in Regs /\ HL(DoubleHL(r)) = Sum(w, w) /\ Sum(w, w) \in Word
<1>1. v \in Int /\ w \in Int /\ v \in Value /\ w \in Value
  BY DEF Word, Value
<1>2. Sum(v, w) \in Word /\ Sum(w, v) = Sum(v, w) /\ Sum(w, w) \in Word
  BY <1>1, SumWord
<1> DEFINE s == LdDE(r, v)
<1>3. s \in Regs /\ HL(s) = w /\ DE(s) = v
  BY <1>1, RegFacts, HLOf
<1> HIDE DEF s
<1>4. HL(AddHLDE(s)) = Sum(w, v)
  BY <1>2, <1>3, HLOf DEF AddHLDE
<1>5. DoubleHL(r) \in Regs /\ HL(DoubleHL(r)) = Sum(w, w)
  <2>1. Sum(w, w) \in Value
    BY <1>2 DEF Value
  <2> QED
    BY <1>2, <2>1, HLOf, RegFacts DEF DoubleHL
<1> QED
  BY <1>2, <1>4, <1>5 DEF s

\* "+": the operand converted first survives on the machine stack.
LEMMA AddOperandsSem == ASSUME NoSchar, IInv, TInv, Sem, Clean', AddOperands PROVE Sem'
<1> DEFINE l == Top.lhs
           scaledL == IsPtr(l.ty) /\ IsInteger(res.ty)
           scaledR == ~scaledL /\ IsPtr(res.ty) /\ IsInteger(l.ty)
           first  == IF scaledR THEN res ELSE l
           second == IF scaledR THEN l ELSE res
           size == IF scaledL \/ scaledR THEN SizeOf(Tail(first.ty)) ELSE 1
           c1 == EnsureHL(first, reg, mem)
           c2 == EnsureHL(second, c1.r, mem)
           r == IF size = 2 THEN DoubleHL(c2.r) ELSE c2.r
           scaled == IF size = 2 THEN Sum(Promoted(second), Promoted(second))
                                 ELSE Promoted(second)
           v == Sum(Promoted(first), scaled)
           d == IF scaledR THEN c2.d ELSE c1.d
           ty == IF scaledL \/ scaledR THEN first.ty ELSE Int16
           rd == Reads(l) \cup Reads(res)
           e == [d EXCEPT !.hl = TRUE, !.ty = ty, !.val = v,
                          !.rd = rd, !.wr = l.wr \cup res.wr]
           f == [Top EXCEPT !.op = "none", !.lhs = e]
<1>1. /\ ctl # <<>> /\ mode = "return" /\ Top.k = "expr" /\ Top.op # "none"
      /\ ctl' = Append(Below, f) /\ mode' = "loop"
      /\ reg' = AddHLDE(LdDE(r, HL(c1.r)))
      /\ UNCHANGED mem /\ UNCHANGED cmem /\ UNCHANGED call
  BY DEF AddOperands, Returning, Replace
<1>2. /\ ~Unsequenced(l, res) /\ ~Resident(second)
      /\ (scaledL \/ scaledR) \/ (IsInteger(l.ty) /\ IsInteger(res.ty))
  <2>1. frag' /\ ~cub'
    BY CleanStep
  <2> QED
    BY <2>1 DEF AddOperands
<1>3. /\ mem = cmem /\ mem \in FullMems /\ Ready(res, reg, mem) /\ Operand(l)
      /\ ~Touched(res) => InReg(l, reg, mem)
      /\ res.wr \cap Extent(l) = {} => InMem(l, mem)
      /\ DOMAIN Top = Fields /\ Top.args = <<>>
  BY <1>1, ReturnFacts
<1>4. /\ l.ty # <<"void">> /\ res.ty # <<"void">>
      /\ IsPtr(first.ty) \/ ~(scaledL \/ scaledR)
  <2>1. Head(<<"void">>) = "void"
    OBVIOUS
  <2>2. \A t : IsPtr(t) \/ IsInteger(t) => t # <<"void">>
    BY <2>1 DEF IsPtr, IsInteger
  <2> QED
    BY <1>2, <2>2
<1>5. InMem(l, mem) /\ InMem(res, mem) /\ InReg(first, reg, mem)
  <2>1. res.wr \cap Extent(l) = {}
    BY <1>2 DEF Unsequenced, Reads
  <2>2. scaledR \/ ~Touched(res)
    BY <1>2, <1>4 DEF Touched
  <2> QED
    BY <1>3, <2>1, <2>2 DEF Ready
<1>6. /\ Operand(first) /\ Operand(second) /\ first.ty # <<"void">> /\ second.ty # <<"void">>
      /\ InMem(first, mem) /\ InMem(second, mem)
  BY <1>3, <1>4, <1>5 DEF Ready
<1>7. Promoted(first) = first.val /\ Promoted(second) = second.val
      /\ first.val \in Word /\ second.val \in Word
  BY <1>6, PromotedIs DEF Operand
<1>8. d = EnsureHL(l, IF scaledR THEN c1.r ELSE reg, mem).d
  OBVIOUS
<1> HIDE DEF first, second
<1>9. HL(c1.r) = first.val /\ HL(c2.r) = second.val /\ c1.r \in Regs /\ c2.r \in Regs
  BY <1>2, <1>3, <1>5, <1>6, PairRight
<1>10. Desc(d) /\ d.hl /\ ~d.off /\ ~d.addr /\ ~d.a
  <2> DEFINE s == IF scaledR THEN c1.r ELSE reg
  <2>1. d = EnsureHL(l, s, mem).d
    BY <1>8
  <2> HIDE DEF s, d
  <2>2. Desc(EnsureHL(l, s, mem).d) /\ EnsureHL(l, s, mem).d.hl /\ ~EnsureHL(l, s, mem).d.off
        /\ ~EnsureHL(l, s, mem).d.addr /\ ~EnsureHL(l, s, mem).d.a
    BY <1>3, <1>4, EnsureHLDesc
  <2> QED
    BY <2>1, <2>2
<1> HIDE DEF c1, c2, d, size
<1>11. HL(reg') = v /\ v \in Word
  <2>1. CASE size = 2
    <3>1. DoubleHL(c2.r) \in Regs /\ HL(DoubleHL(c2.r)) = Sum(second.val, second.val)
          /\ Sum(second.val, second.val) \in Word
      BY <1>7, <1>9, AddRight
    <3>2. r = DoubleHL(c2.r) /\ scaled = Sum(second.val, second.val)
      BY <2>1, <1>7
    <3> HIDE DEF r, scaled
    <3>3. r \in Regs /\ HL(r) = scaled /\ scaled \in Word
      BY <3>1, <3>2
    <3> QED
      BY <3>3, <1>1, <1>7, <1>9, AddRight
  <2>2. CASE size # 2
    <3>1. r = c2.r /\ scaled = second.val
      BY <2>2, <1>7
    <3> HIDE DEF r, scaled
    <3>2. r \in Regs /\ HL(r) = scaled /\ scaled \in Word
      BY <3>1, <1>7, <1>9
    <3> QED
      BY <3>2, <1>1, <1>7, <1>9, AddRight
  <2> QED
    BY <2>1, <2>2
<1>12. /\ IsSeq(ty) /\ ty # <<"schar">> /\ ~IsChar8(ty) /\ Head(ty) # "func"
  <2>1. CASE ty = Int16
    <3>1. IsSeq(<<"int">>) /\ Head(<<"int">>) = "int" /\ Head(<<"schar">>) = "schar"
      BY SingleType
    <3> HIDE DEF ty
    <3> QED
      BY <2>1, <3>1 DEF Int16, IsChar8
  <2>2. CASE ty # Int16
    <3>1. ty = first.ty /\ IsPtr(ty)
      BY <2>2, <1>4
    <3>2. IsSeq(ty) /\ ty # <<"schar">>
      BY <3>1, <1>6 DEF Operand
    <3> HIDE DEF ty
    <3> QED
      BY <3>1, <3>2 DEF IsPtr, IsChar8
  <2> QED
    BY <2>1, <2>2
<1> HIDE DEF v, ty, rd
<1>13. Desc(e)
  <2>1. v \in Value
    BY <1>11 DEF Value
  <2> QED
    BY <2>1, <1>10, DescOf
<1>14. /\ e.hl /\ ~e.a /\ ~e.off /\ ~e.addr /\ e.ty = ty /\ e.val = v /\ e.wr = l.wr \cup res.wr
  BY <1>10 DEF Desc, DescFields
<1> HIDE DEF e
<1>15. Operand(e)
  BY <1>11, <1>12, <1>13, <1>14 DEF Operand
<1>16. InReg(e, reg', mem') /\ InMem(e, mem') /\ Touched(e)
  BY <1>11, <1>14 DEF InReg, InMem, Touched, Resident
<1>17. f.lhs = e /\ f.k = "expr" /\ f.min = Top.min /\ f.args = <<>>
  BY <1>1, <1>3 DEF Fields
<1> HIDE DEF f
<1>18. mem' = cmem' /\ mem' \in FullMems /\ \A x \in Word \ f.lhs.wr : mem'[x] = mem[x]
  BY <1>1, <1>3
<1>19. Top.lhs.wr \cup res.wr \subseteq f.lhs.wr
  BY <1>14, <1>17
<1> QED
  BY <1>1, <1>15, <1>16, <1>17, <1>18, <1>19, ResultSem

\* "==" and "!="
LEMMA CompareOperandsSem == ASSUME NoSchar, IInv, TInv, Sem, Clean', CompareOperands PROVE Sem'
<1> DEFINE l == Top.lhs
           c1 == EnsureHL(l, reg, mem)
           c2 == EnsureHL(res, c1.r, mem)
           Truth(v, w) == IF ~Known(v) \/ ~Known(w) THEN Junk
                          ELSE IF (Top.op = "==") <=> (v = w) THEN 1 ELSE 0
           v == Truth(Promoted(l), Promoted(res))
           w == Truth(HL(c1.r), HL(c2.r))
           rd == Reads(l) \cup Reads(res)
           e == [c1.d EXCEPT
                  !.hl = TRUE, !.a = FALSE, !.addr = FALSE, !.off = FALSE, !.lv = FALSE,
                  !.ty = Int16, !.val = v, !.rd = rd, !.wr = l.wr \cup res.wr]
           f == [Top EXCEPT !.op = "none", !.lhs = e]
<1>1. /\ ctl # <<>> /\ mode = "return" /\ Top.k = "expr" /\ Top.op # "none"
      /\ ctl' = Append(Below, f) /\ mode' = "loop"
      /\ reg' = [LdHL(LdDE(c2.r, HL(c1.r)), w) EXCEPT !.a = 0]
      /\ UNCHANGED mem /\ UNCHANGED cmem /\ UNCHANGED call
  BY DEF CompareOperands, Returning, Replace
<1>2. /\ ~Unsequenced(l, res) /\ ~Resident(res) /\ l.ty # <<"void">>
      /\ (IsInteger(l.ty) /\ IsInteger(res.ty)) \/ l.ty = res.ty
  <2>1. frag' /\ ~cub'
    BY CleanStep
  <2> QED
    BY <2>1 DEF CompareOperands
<1>3. /\ mem = cmem /\ mem \in FullMems /\ Ready(res, reg, mem) /\ Operand(l)
      /\ ~Touched(res) => InReg(l, reg, mem)
      /\ res.wr \cap Extent(l) = {} => InMem(l, mem)
      /\ DOMAIN Top = Fields /\ Top.args = <<>>
  BY <1>1, ReturnFacts
<1>4. res.ty # <<"void">>
  <2>1. Head(<<"void">>) = "void"
    OBVIOUS
  <2> QED
    BY <1>2, <2>1 DEF IsInteger
<1>5. InMem(l, mem) /\ InMem(res, mem) /\ InReg(l, reg, mem) /\ Operand(res)
  <2>1. res.wr \cap Extent(l) = {}
    BY <1>2 DEF Unsequenced, Reads
  <2>2. ~Touched(res)
    BY <1>2, <1>4 DEF Touched
  <2> QED
    BY <1>3, <2>1, <2>2 DEF Ready
<1>6. Promoted(l) = l.val /\ Promoted(res) = res.val /\ l.val \in Word /\ res.val \in Word
  BY <1>3, <1>5, PromotedIs DEF Operand
<1>7. HL(c1.r) = l.val /\ HL(c2.r) = res.val /\ c1.r \in Regs /\ c2.r \in Regs
  BY <1>2, <1>3, <1>4, <1>5, PairRight
<1>8. Desc(c1.d)
  BY <1>2, <1>3, EnsureHLDesc
<1>9. v = w /\ w \in Word
  <2>1. v = w
    BY <1>6, <1>7
  <2>2. Known(l.val) /\ Known(res.val)
    BY <1>6, KnownInt DEF Word
  <2>3. w \in {0, 1}
    BY <1>7, <2>2
  <2>4. 0 \in Word /\ 1 \in Word
    BY Words, ByteAssumption DEF Word
  <2> HIDE DEF v, w
  <2> QED
    BY <2>1, <2>3, <2>4
<1> HIDE DEF c1, c2, v, w, rd
<1>10. HL(reg') = v
  <2>1. l.val \in Value
    BY <1>6 DEF Value
  <2> DEFINE s == LdDE(c2.r, HL(c1.r))
  <2>2. s \in Regs
    BY <2>1, <1>7, RegFacts
  <2> HIDE DEF s
  <2>3. HL(LdHL(s, w)) = w /\ LdHL(s, w) \in Regs
    BY <2>2, <1>9, HLOf, RegFacts DEF Value
  <2> DEFINE t == LdHL(s, w)
  <2>4. reg' = [t EXCEPT !.a = 0]
    BY <1>1 DEF s
  <2>5. t \in Regs /\ HL(t) = w
    BY <2>3
  <2> HIDE DEF t
  <2>6. HL(reg') = HL(t)
    BY <2>4, <2>5 DEF HL, Regs
  <2> QED
    BY <2>5, <2>6, <1>9
<1>11. Desc(e)
  <2>1. v \in Value
    BY <1>9 DEF Value
  <2> QED
    BY <2>1, <1>8, DescOf
<1>12. /\ e.hl /\ ~e.a /\ ~e.off /\ ~e.addr /\ e.ty = Int16 /\ e.val = v /\ e.wr = l.wr \cup res.wr
  BY <1>8 DEF Desc, DescFields
<1> HIDE DEF e
<1>13. IsSeq(Int16) /\ Int16 # <<"schar">> /\ ~IsChar8(Int16) /\ Head(Int16) # "func"
  <2>1. IsSeq(<<"int">>) /\ Head(<<"int">>) = "int" /\ Head(<<"schar">>) = "schar"
    BY SingleType
  <2> QED
    BY <2>1 DEF Int16, IsChar8
<1>14. Operand(e)
  BY <1>9, <1>11, <1>12, <1>13 DEF Operand
<1>15. InReg(e, reg', mem') /\ InMem(e, mem') /\ Touched(e)
  BY <1>10, <1>12 DEF InReg, InMem, Touched, Resident
<1>16. f.lhs = e /\ f.k = "expr" /\ f.min = Top.min /\ f.args = <<>>
  BY <1>1, <1>3 DEF Fields
<1> HIDE DEF f
<1>17. mem' = cmem' /\ mem' \in FullMems /\ \A x \in Word \ f.lhs.wr : mem'[x] = mem[x]
  BY <1>1, <1>3
<1>18. Top.lhs.wr \cup res.wr \subseteq f.lhs.wr
  BY <1>12, <1>16
<1> QED
  BY <1>1, <1>14, <1>15, <1>16, <1>17, <1>18, ResultSem

-----------------------------------------------------------------------------
(* The steps of a clean run: & and *, calls and the statement              *)

\* A prefix operator's result replaces its operand: the call that read it ends.
LEMMA PrefixSem ==
  ASSUME IInv, TInv, Sem, ctl # <<>>, mode = "return", Top.k \in {"amp", "deref"},
         UNCHANGED mode, ctl' = Below, UNCHANGED mem, UNCHANGED cmem, UNCHANGED call,
         Ready(res', reg', mem'), res.wr \subseteq res'.wr,
         Touched(res) => Touched(res'), reg' = reg \/ Touched(res')
  PROVE  Sem'
<1>1. Current(mode, res) = res /\ Current(mode', res') = res'
  BY DEF Current
<1>2. mem = cmem /\ mem \in FullMems /\ call.got = call.want
  BY DEF Sem
<1>3. /\ IsSeq(Below) /\ Waiting(Below) /\ Hold(Below) /\ Waits(Top)
      /\ Held(Append(Below, Top), res, reg, mem) /\ FrameOK(Top)
  BY <1>1, SemTop, TopFacts
<1>4. ~Dirty(Top) /\ FrameWr(Top) = {}
  <2>1. Top.slots = 0 /\ Top.lhs = NoDesc /\ Top.args = <<>>
    BY <1>3 DEF Waits, FrameOK
  <2>2. DOMAIN Top.args = {} /\ 1..Len(Top.args) = {}
    BY <2>1
  <2> QED
    BY <2>1, <2>2, NoneTouched DEF Dirty, FrameWr, ArgsWr
<1>5. Held(Below, res', reg', mem)
  <2>1. (Touched(res) \/ Dirty(Top) => Touched(res')) /\ res.wr \cup FrameWr(Top) \subseteq res'.wr
    BY <1>4
  <2>2. Quiet(res'.wr, Touched(res'), reg, mem, reg', mem)
    BY DEF Quiet
  <2> QED
    BY <1>2, <1>3, <2>1, <2>2, HeldReturn
<1>6. Forms(ctl', mode')
  BY <1>3, FormsOf
<1>7. Held(ctl', Current(mode', res'), reg', mem')
  BY <1>1, <1>5
<1> QED
  BY <1>2, <1>6, <1>7, SemThen

\* The address of an operand.
LEMMA AddressOfSem == ASSUME IInv, TInv, Sem, TInv', Clean', AddressOf PROVE Sem'
<1> DEFINE p == res
           t == PtrTo(OrInt(p.ty))
           ptr == [NoDesc EXCEPT !.ty = t, !.val = p.loc, !.rd = p.rd, !.wr = p.wr]
           bad == [ptr EXCEPT !.const = TRUE]
           function == p.const /\ p.label # "none"
           refused == ~function /\ ~(p.lv /\ (p.off \/ p.addr))
<1>1. /\ ctl # <<>> /\ mode = "return" /\ Top.k = "amp" /\ ctl' = Below /\ UNCHANGED mode
      /\ UNCHANGED mem /\ UNCHANGED cmem /\ UNCHANGED call
      /\ res' = IF function THEN [bad EXCEPT !.label = p.label, !.val = p.val]
               ELSE IF ~p.lv THEN [bad EXCEPT !.ty = PtrTo(Int16)]
               ELSE IF refused THEN bad
               ELSE [ptr EXCEPT !.hl = TRUE]
      /\ reg' = IF ~function /\ p.lv /\ p.off THEN LoadLocalAddrHL(reg, p.ix) ELSE reg
      /\ err' = (err \/ refused)
      /\ cub' = (cub \/ refused \/ (function /\ p.ty # <<"func", p.label>>))
  BY DEF AddressOf, Returning
<1>2. ~refused /\ (function => p.ty = <<"func", p.label>>)
  BY <1>1, CleanStep
<1>3. Operand(p) /\ InReg(p, reg, mem) /\ mem \in FullMems
  BY <1>1 DEF Sem, Ready
<1>4. Desc(res') /\ reg \in Regs /\ p.ix \in Int
  BY <1>3 DEF TInv, Operand, Desc
<1>5. /\ IsSeq(t) /\ Head(t) = "ptr" /\ t # <<"schar">> /\ t # <<"void">> /\ ~IsChar8(t)
  <2>1. IsSeq(Int16)
    BY SingleType DEF Int16
  <2>2. IsSeq(OrInt(p.ty))
    BY <1>3, <2>1 DEF OrInt, Operand
  <2> QED
    BY <2>2, PointerType
<1> HIDE DEF t
<1>6. CASE function
  <2>1. /\ res'.ty = t /\ res'.val = p.val /\ res'.const /\ res'.label = p.label
        /\ res'.wr = p.wr /\ ~res'.hl /\ ~res'.a /\ ~res'.off /\ ~res'.addr
    BY <1>1, <1>6 DEF NoDesc
  <2>2. Head(p.ty) = "func"
    BY <1>2, <1>6, SingleType
  <2>3. ~p.hl /\ ~p.off /\ ~p.addr /\ ~p.a /\ p.val = LabelAddr[p.label] /\ p.val \in Word
    BY <1>3, <1>6, <2>2 DEF Operand
  <2>4. p.ty # <<"void">>
    <3>1. Head(<<"void">>) = "void"
      OBVIOUS
    <3> QED
      BY <2>2, <3>1
  <2>5. ~Touched(p)
    BY <2>3, <2>4 DEF Touched, Resident
  <2>6. Operand(res')
    BY <1>4, <1>5, <1>6, <2>1, <2>3 DEF Operand
  <2>7. InReg(res', reg', mem') /\ InMem(res', mem')
    BY <2>1 DEF InReg, InMem
  <2>8. reg' = reg
    BY <1>1, <1>6
  <2>9. res.wr \subseteq res'.wr
    BY <2>1
  <2> QED
    BY <1>1, <2>5, <2>6, <2>7, <2>8, <2>9, PrefixSem DEF Ready
<1>7. CASE ~function
  <2>1. p.lv /\ (p.off \/ p.addr)
    BY <1>2, <1>7
  <2>2. res' = [ptr EXCEPT !.hl = TRUE]
    BY <1>1, <1>2, <1>7, <2>1
  <2>3. /\ res'.ty = t /\ res'.val = p.loc /\ ~res'.const
        /\ res'.wr = p.wr /\ res'.hl /\ ~res'.a /\ ~res'.off /\ ~res'.addr
    BY <2>2 DEF NoDesc
  <2>4. HL(reg') = p.loc /\ p.loc \in Word
    <3>1. CASE p.off
      <4>1. reg' = LoadLocalAddrHL(reg, p.ix)
        BY <1>1, <1>7, <2>1, <3>1
      <4>2. p.loc = Local(p.ix) /\ Local(p.ix) \in Word
        BY <1>3, <1>4, <3>1, LocalWord DEF Operand
      <4>3. HL(LoadLocalAddrHL(reg, p.ix)) = Local(p.ix)
        BY <1>4, HLOf
      <4> QED
        BY <4>1, <4>2, <4>3
    <3>2. CASE ~p.off
      <4>1. reg' = reg /\ p.addr
        BY <1>1, <2>1, <3>2
      <4> QED
        BY <4>1, <1>3 DEF Operand, InReg
    <3> QED
      BY <3>1, <3>2
  <2>5. Operand(res')
    BY <1>4, <1>5, <2>3, <2>4 DEF Operand
  <2>6. InReg(res', reg', mem') /\ InMem(res', mem')
    BY <2>3, <2>4 DEF InReg, InMem
  <2>7. Touched(res')
    BY <2>3 DEF Touched, Resident
  <2>8. res.wr \subseteq res'.wr
    BY <2>3
  <2> QED
    BY <1>1, <2>5, <2>6, <2>7, <2>8, PrefixSem DEF Ready
<1> QED
  BY <1>6, <1>7

\* What a pointer may be followed to.
LEMMA ReadableType ==
  ASSUME NoSchar, NEW t, NEW w, Readable(t, w)
  PROVE  IsSeq(t) /\ t # <<"schar">> /\ Head(t) # "func"
<1>1. CASE t = <<"char">>
  <2>1. IsSeq(<<"char">>) /\ Head(<<"char">>) = "char" /\ Head(<<"schar">>) = "schar"
    BY SingleType
  <2> QED
    BY <1>1, <2>1
<1>2. CASE t # <<"char">>
  <2>1. PICK v \in Vars : VarType[v] = t
    BY <1>2 DEF Readable, Object
  <2>2. VarType[v] \in Seq(STRING) /\ Head(VarType[v]) # "func"
    BY VarAssumption
  <2> QED
    BY <2>1, <2>2 DEF IsSeq, NoSchar
<1> QED
  BY <1>1, <1>2

\* The object a pointer points to.
LEMMA DereferenceSem == ASSUME NoSchar, IInv, TInv, Sem, TInv', Clean', Dereference PROVE Sem'
<1> DEFINE c == EnsureHL(res, reg, mem)
           pointer == IsPtr(c.d.ty)
           ty == IF pointer THEN Tail(c.d.ty) ELSE <<"char">>
           loc == c.d.val
           val == Load(ty, cmem, loc)
           rd == Reads(res)
<1>1. /\ ctl # <<>> /\ mode = "return" /\ Top.k = "deref" /\ ctl' = Below /\ UNCHANGED mode
      /\ UNCHANGED mem /\ UNCHANGED cmem /\ UNCHANGED call
      /\ reg' = c.r
      /\ res' = [NoDesc EXCEPT !.ty = ty, !.lv = TRUE, !.addr = TRUE,
                               !.loc = loc, !.val = val, !.rd = rd, !.wr = res.wr]
      /\ cub' = (cub \/ ~pointer \/ ~Readable(ty, loc))
  BY DEF Dereference, Returning
<1>2. pointer /\ Readable(ty, loc)
  BY <1>1, CleanStep
<1>3. Operand(res) /\ InReg(res, reg, mem) /\ InMem(res, mem) /\ mem \in FullMems /\ mem = cmem
  BY <1>1 DEF Sem, Ready
<1>4. Desc(res') /\ reg \in Regs /\ Desc(res)
  BY <1>3 DEF TInv, Operand
<1>5. loc = res.val /\ c.d.ty = res.ty /\ loc \in Word
  BY <1>3, <1>4, EnsureKeeps DEF Operand
<1>6. res.ty # <<"void">>
  <2>1. Head(<<"void">>) = "void"
    OBVIOUS
  <2> QED
    BY <1>2, <1>5, <2>1 DEF IsPtr
<1>7. HL(reg') = loc
  BY <1>1, <1>3, <1>4, <1>5, <1>6, EnsureHLRight
<1> HIDE DEF c, pointer, ty, loc, rd
<1>8. IsSeq(ty) /\ ty # <<"schar">> /\ Head(ty) # "func"
  BY <1>2, ReadableType
<1>9. val \in Word /\ (IsChar8(ty) => val \in Bytes) /\ Load(ty, mem, loc) = val
  BY <1>3, <1>5, FullLoad
<1> HIDE DEF val
<1>10. /\ res'.ty = ty /\ res'.val = val /\ res'.loc = loc /\ res'.lv /\ res'.addr
       /\ ~res'.const /\ res'.wr = res.wr /\ ~res'.hl /\ ~res'.a /\ ~res'.off
  BY <1>1 DEF NoDesc
<1>11. Operand(res')
  BY <1>4, <1>5, <1>8, <1>9, <1>10 DEF Operand
<1>12. InReg(res', reg', mem') /\ InMem(res', mem')
  BY <1>1, <1>7, <1>9, <1>10 DEF InReg, InMem
<1>13. Touched(res')
  BY <1>10 DEF Touched, Resident
<1>14. res.wr \subseteq res'.wr
  BY <1>10
<1> QED
  BY <1>1, <1>11, <1>12, <1>13, <1>14, PrefixSem DEF Ready

\* An argument that is converted is where its descriptor says.
LEMMA NextArgReady ==
  ASSUME IInv, TInv, Sem, mode = "push", Top.slots < Len(Top.args), Orderly(Top)
  PROVE  LET e == Top.args[NextArg(Top)] IN Ready(e, reg, mem) /\ e.ty # <<"void">>
<1> DEFINE i == NextArg(Top)
           e == Top.args[i]
           n == Len(Top.args)
<1>1. /\ ctl # <<>> /\ FrameOK(Top) /\ n \in Nat /\ DOMAIN Top.args = 1..n /\ i \in 1..n
  BY NextArgFacts
<1>2. i = n - Top.slots /\ Top.slots \in Nat
  BY <1>1 DEF NextArg, FrameOK
<1>3. Current(mode, res) = NoDesc
  BY DEF Current
<1>4. Pushes(Top) /\ Fine(Top, Touched(NoDesc), NoDesc.wr, reg, mem) /\ Pushing(Top, reg, stk, mem)
  BY <1>1, <1>3, SemTop DEF Sem
<1> HIDE DEF i, n
<1>5. Operand(e) /\ e.ty # <<"void">>
  BY <1>1, <1>4 DEF Pushes, Calls, Orderly
<1>6. InReg(e, reg, mem)
  <2>1. CASE Top.slots = 0
    <3>1. i = n /\ n # 0
      BY <2>1, <1>1, <1>2
    <3>2. Top.args # <<>>
      BY <3>1 DEF n
    <3> QED
      BY <2>1, <3>1, <3>2, <1>4 DEF Pushing, n
  <2>2. CASE Top.slots # 0
    <3>1. i \in 1..(n - 1)
      BY <2>2, <1>1, <1>2
    <3>2. ~Resident(e)
      BY <3>1 DEF Orderly, n
    <3> QED
      BY <3>2 DEF InReg, Resident
  <2> QED
    BY <2>1, <2>2
<1>7. InMem(e, mem)
  <2>1. ArgsWr(Top, i) \cap Extent(e) = {}
    <3> SUFFICES ASSUME NEW x \in ArgsWr(Top, i) PROVE x \notin Extent(e)
      OBVIOUS
    <3>1. PICK j \in (i + 1)..n : x \in Top.args[j].wr
      BY DEF ArgsWr, n
    <3>2. j \in 1..n /\ j # i
      BY <3>1, <1>1
    <3>3. ~Unsequenced(Top.args[j], e)
      BY <3>2, <1>1 DEF Orderly
    <3> QED
      BY <3>1, <3>3 DEF Unsequenced, Reads
  <2>2. (NoDesc.wr \cup ArgsWr(Top, i)) \cap Extent(e) = {}
    BY <2>1, NoneTouched
  <2> QED
    BY <2>2, <1>1, <1>4 DEF Fine
<1> QED
  BY <1>5, <1>6, <1>7 DEF Ready, i

\* the registers an argument is pushed from
ArgRegs(callee, i, e, r, M) ==
  IF IsChar8(ParamType(callee, i))
    THEN [EnsureA(e, r, M).r EXCEPT !.l = EnsureA(e, r, M).r.a]
    ELSE EnsureHL(e, r, M).r

\* An argument that is pushed arrives as C passes it.
LEMMA PushedRight ==
  ASSUME NEW e, NEW r \in Regs, NEW M \in FullMems, NEW f, NEW i \in DOMAIN f.args,
         e = f.args[i], Ready(e, r, M), e.ty # <<"void">>,
         IsChar8(ParamType(f.lhs, i)) => NarrowOK(e)
  PROVE  SlotValue(f.lhs, i, <<ArgRegs(f.lhs, i, e, r, M).h, ArgRegs(f.lhs, i, e, r, M).l>>)
           = Passed(f)[i]
<1> DEFINE t == ParamType(f.lhs, i)
           s == ArgRegs(f.lhs, i, e, r, M)
<1>1. Operand(e) /\ InReg(e, r, M) /\ InMem(e, M) /\ Desc(e) /\ M \in Mems
  BY DEF Ready, Operand, FullMems, Mems, Bytes, Cell
<1>2. Promoted(e) = e.val
  BY <1>1, PromotedIs DEF Operand
<1>3. Passed(f)[i] = IF t = NoType THEN e.val ELSE Convert(t, e.val)
  BY <1>2 DEF Passed
<1>4. SlotValue(f.lhs, i, <<s.h, s.l>>) = IF IsChar8(t) THEN s.l ELSE Pair(s.h, s.l)
  BY DEF SlotValue
<1>5. CASE IsChar8(t)
  <2>1. t # NoType
    <3>1. Head(<<"none">>) = "none"
      OBVIOUS
    <3> QED
      BY <1>5, <3>1 DEF IsChar8, NoType
  <2> DEFINE q == EnsureA(e, r, M).r
  <2>2. q.a = Lo(e.val) /\ q \in Regs
    BY <1>1, <1>5, EnsureARight, EnsureTyped
  <2>3. Passed(f)[i] = Lo(e.val)
    BY <1>3, <1>5, <2>1 DEF Convert
  <2>4. s = [q EXCEPT !.l = q.a]
    BY <1>5 DEF ArgRegs
  <2> HIDE DEF q, s
  <2>5. s.l = q.a
    BY <2>2, <2>4 DEF Regs
  <2> HIDE DEF t
  <2> QED
    BY <1>4, <1>5, <2>2, <2>3, <2>5 DEF s
<1>6. CASE ~IsChar8(t)
  <2>1. s = EnsureHL(e, r, M).r
    BY <1>6 DEF ArgRegs
  <2>2. HL(s) = e.val
    BY <1>1, <2>1, EnsureHLRight
  <2>3. Passed(f)[i] = e.val
    BY <1>3, <1>6 DEF Convert
  <2> HIDE DEF s, t
  <2> QED
    BY <1>4, <1>6, <2>2, <2>3 DEF HL, s
<1> HIDE DEF t
<1> QED
  BY <1>5, <1>6

\* The next argument of a call.
LEMMA PushArgSem == ASSUME IInv, TInv, Sem, Clean', PushArg PROVE Sem'
<1> DEFINE i == NextArg(Top)
           e == Top.args[i]
           c8 == IsChar8(ParamType(Top.lhs, i))
           r == ArgRegs(Top.lhs, i, e, reg, mem)
           w == <<r.h, r.l>>
           g == [Top EXCEPT !.slots = Top.slots + 1]
<1>1. /\ mode = "push" /\ Top.slots < Len(Top.args) /\ UNCHANGED mode
      /\ stk' = Append(stk, w) /\ ctl' = Append(Below, g)
      /\ UNCHANGED mem /\ UNCHANGED cmem /\ UNCHANGED call
      /\ frag' = (frag /\ (c8 => NarrowOK(e)))
  BY DEF PushArg, Replace, ArgRegs
<1>2. c8 => NarrowOK(e)
  BY <1>1, CleanStep
<1>3. /\ ctl # <<>> /\ Top.k = "call" /\ FrameOK(Top) /\ DOMAIN Top = Fields /\ IsSeq(stk)
      /\ Len(stk) = Top.sp0 + Top.slots /\ i \in DOMAIN Top.args
      /\ Top.sp0 \in Nat /\ Top.slots \in Nat /\ Len(Top.args) \in Nat
  BY <1>1, NextArgFacts, TopFacts DEF FrameOK
<1>4. Current(mode, res) = NoDesc /\ Current(mode', res') = NoDesc
  BY <1>1 DEF Current
<1>5. /\ mem = cmem /\ mem \in FullMems /\ call.got = call.want
      /\ IsSeq(Below) /\ Waiting(Below) /\ Hold(Below) /\ Pushes(Top)
      /\ Held(Append(Below, Top), NoDesc, reg, mem)
      /\ Fine(Top, Touched(NoDesc), NoDesc.wr, reg, mem)
      /\ Pushing(Top, reg, stk, mem)
  BY <1>1, <1>3, <1>4, SemTop DEF Sem
<1>6. /\ g.lhs = Top.lhs /\ g.k = "call" /\ g.slots = Top.slots + 1 /\ g.args = Top.args
      /\ g.min = Top.min /\ g.sp0 = Top.sp0
  BY <1>3 DEF Fields
<1>7. Orderly(Top) => SlotValue(Top.lhs, i, w) = Passed(Top)[i]
  <2> SUFFICES ASSUME Orderly(Top) PROVE SlotValue(Top.lhs, i, w) = Passed(Top)[i]
    OBVIOUS
  <2>1. Ready(e, reg, mem) /\ e.ty # <<"void">>
    BY <1>1, NextArgReady
  <2>2. reg \in Regs
    BY DEF TInv
  <2>3. i \in DOMAIN Top.args /\ mem \in FullMems /\ (c8 => NarrowOK(e))
    BY <1>2, <1>3, <1>5
  <2>4. e = Top.args[i]
    OBVIOUS
  <2> HIDE DEF e, i
  <2> QED
    BY <2>1, <2>2, <2>3, <2>4, PushedRight
<1> HIDE DEF w, g, c8, r
<1>8. Held(Append(Below, g), NoDesc, reg', mem)
  <2>1. Dirty(g)
    BY <1>3, <1>6 DEF Dirty
  <2>2. FrameWr(g) = FrameWr(Top) /\ \A k : ArgsWr(g, k) = ArgsWr(Top, k)
    BY <1>6 DEF FrameWr, ArgsWr
  <2>3. Quiet(NoDesc.wr \cup FrameWr(g), Touched(NoDesc) \/ Dirty(g), reg, mem, reg', mem)
    BY <2>1 DEF Quiet
  <2>4. Fine(g, Touched(NoDesc), NoDesc.wr, reg', mem)
    BY <1>5, <1>6, <2>2 DEF Fine
  <2>5. Touched(NoDesc) \/ Dirty(Top) => Touched(NoDesc) \/ Dirty(g)
    BY <2>1
  <2>6. NoDesc.wr \cup FrameWr(Top) \subseteq NoDesc.wr \cup FrameWr(g)
    BY <2>2
  <2> QED
    BY <1>5, <2>3, <2>4, <2>5, <2>6, HeldReplace
<1>9. Forms(ctl', mode')
  <2>1. Pushes(g)
    BY <1>5, <1>6 DEF Pushes, Calls
  <2> QED
    BY <1>1, <1>5, <2>1, FormsOf
<1>10. Top' = g
  <2>1. Len(ctl') = Len(Below) + 1 /\ ctl'[Len(Below) + 1] = g
    BY <1>1, <1>5, AppendFacts
  <2> QED
    BY <2>1 DEF Top
<1>11. Pushing(g, reg', stk', mem)
  <2>1. ~(g.slots = 0)
    BY <1>3, <1>6
  <2>2. ASSUME Orderly(g), NEW n \in 1..g.slots
        PROVE  SlotValue(g.lhs, Len(g.args) - n + 1, stk'[g.sp0 + n])
                 = Passed(g)[Len(g.args) - n + 1]
    <3>1. Orderly(Top) /\ Passed(g) = Passed(Top)
      BY <1>6, <2>2 DEF Orderly, Passed
    <3>2. /\ \A k \in 1..Len(stk) : stk'[k] = stk[k]
          /\ stk'[Len(stk) + 1] = w
      BY <1>1, <1>3, AppendFacts
    <3>3. CASE n = Top.slots + 1
      <4>1. Len(Top.args) - n + 1 = i /\ Top.sp0 + n = Len(stk) + 1
        BY <3>3, <1>3 DEF NextArg
      <4>2. stk'[g.sp0 + n] = w /\ Len(g.args) - n + 1 = i
        BY <3>2, <4>1, <1>6
      <4> QED
        BY <3>1, <4>2, <1>6, <1>7
    <3>4. CASE n \in 1..Top.slots
      <4>1. Top.sp0 + n \in 1..Len(stk)
        BY <3>4, <1>3
      <4>2. stk'[g.sp0 + n] = stk[Top.sp0 + n]
        BY <3>2, <4>1, <1>6
      <4>3. SlotValue(Top.lhs, Len(Top.args) - n + 1, stk[Top.sp0 + n])
              = Passed(Top)[Len(Top.args) - n + 1]
        BY <3>1, <3>4, <1>5 DEF Pushing
      <4> QED
        BY <3>1, <4>2, <4>3, <1>6
    <3>5. n = Top.slots + 1 \/ n \in 1..Top.slots
      BY <1>3, <1>6
    <3> QED
      BY <3>3, <3>4, <3>5
  <2> QED
    BY <2>1, <2>2 DEF Pushing
<1>12. Pushing(Top', reg', stk', mem')
  BY <1>1, <1>10, <1>11
<1>13. Held(ctl', Current(mode', res'), reg', mem')
  BY <1>1, <1>4, <1>8
<1>14. mode' = "push"
  BY <1>1
<1> QED
  BY <1>1, <1>5, <1>9, <1>12, <1>13, <1>14, SemThen

\* The callee finds what C passes.
LEMMA SlotsRight ==
  ASSUME IInv, TInv, Sem, mode = "push", Top.slots = Len(Top.args), Orderly(Top)
  PROVE  [i \in 1..Top.slots |-> SlotValue(Top.lhs, i, Slots(Top)[i])] = Passed(Top)
<1> DEFINE n == Len(Top.args)
<1>1. /\ ctl # <<>> /\ FrameOK(Top) /\ n \in Nat /\ DOMAIN Top.args = 1..n
      /\ Len(stk) = Top.sp0 + Top.slots
  BY NextArgFacts, TopFacts
<1>2. Pushing(Top, reg, stk, mem) /\ Top.sp0 \in Nat
  BY <1>1 DEF Sem, FrameOK
<1>3. Passed(Top) = [i \in 1..n |-> Passed(Top)[i]]
  BY <1>1 DEF Passed
<1>4. ASSUME NEW i \in 1..n
      PROVE  SlotValue(Top.lhs, i, Slots(Top)[i]) = Passed(Top)[i]
  <2>1. Slots(Top)[i] = stk[Len(stk) - i + 1]
    BY <1>4 DEF Slots
  <2> DEFINE k == n - i + 1
  <2>2. k \in 1..n /\ n - k + 1 = i /\ Top.sp0 + k = Len(stk) - i + 1
    BY <1>1, <1>2
  <2> HIDE DEF k
  <2>3. \A j \in 1..n : SlotValue(Top.lhs, n - j + 1, stk[Top.sp0 + j]) = Passed(Top)[n - j + 1]
    BY <1>2 DEF Pushing
  <2>4. SlotValue(Top.lhs, n - k + 1, stk[Top.sp0 + k]) = Passed(Top)[n - k + 1]
    BY <2>2, <2>3
  <2> QED
    BY <2>1, <2>2, <2>4
<1> QED
  BY <1>3, <1>4

\* What a function of the program returns.
LEMMA CalleeRight ==
  ASSUME NoSchar, NEW callee, Operand(callee), FuncType(callee),
         NEW n \in Nat, NEW g, g = [i \in 1..n |-> g[i]], \A i \in 1..n : g[i] \in Word
  PROVE  LET t == RetType(callee)
             v == CalleeResult(callee, g)
         IN  /\ IsSeq(t) /\ t # <<"schar">> /\ Head(t) # "func"
             /\ v \in Word /\ (IsChar8(t) => v \in Bytes)
             /\ ~IsChar8(t) => HL(Returned(callee, v)) = v
             /\ IsChar8(t) => Returned(callee, v).a = v
<1> DEFINE t == RetType(callee)
           v == CalleeResult(callee, g)
           one == IF g = <<>> THEN 0 ELSE g[1]
<1>1. callee.ty[2] \in Funcs /\ callee.val \in Word /\ t = Sig[callee.ty[2]].ret
  BY DEF Operand, RetType, FuncType
<1>2. IsSeq(t) /\ t # <<"schar">> /\ Head(t) # "func"
  <2>1. Sig[callee.ty[2]].ret \in Seq(STRING) /\ Head(Sig[callee.ty[2]].ret) # "func"
        /\ Sig[callee.ty[2]].ret # <<"schar">>
    BY <1>1, FuncAssumption DEF NoSchar
  <2> QED
    BY <1>1, <2>1 DEF IsSeq
<1>3. one \in Word
  <2>1. CASE n = 0
    <3>1. g = <<>>
      BY <2>1
    <3>2. 0 \in Word
      BY Words, ByteAssumption DEF Word
    <3> QED
      BY <3>1, <3>2
  <2>2. CASE n # 0
    <3>1. 1 \in 1..n
      BY <2>2
    <3>2. g # <<>>
      <4>1. DOMAIN g = 1..n /\ DOMAIN <<>> = {}
        OBVIOUS
      <4> QED
        BY <3>1, <4>1
    <3> QED
      BY <3>1, <3>2
  <2> QED
    BY <2>1, <2>2
<1> HIDE DEF one
<1> DEFINE w == Sum(callee.val, one)
<1>4. w \in Word
  <2>1. callee.val \in Int /\ one \in Int
    BY <1>1, <1>3 DEF Word
  <2> QED
    BY <2>1, SumWord
<1>5. v = Convert(t, w)
  BY DEF CalleeResult, one
<1> HIDE DEF t, v, w
<1>6. v \in Word /\ (IsChar8(t) => v \in Bytes)
  <2>1. Lo(w) \in Bytes /\ Lo(w) \in Word
    BY <1>4, SplitWord, Words DEF Bytes
  <2> QED
    BY <1>4, <1>5, <2>1 DEF Convert
<1> DEFINE junk == [a |-> Junk, h |-> Junk, l |-> Junk, d |-> Junk, e |-> Junk]
<1>7. junk \in Regs
  BY CellFacts DEF Regs
<1>8. Returned(callee, v) = IF IsChar8(t) THEN [junk EXCEPT !.a = v] ELSE LdHL(junk, v)
  BY DEF Returned, junk, t
<1> HIDE DEF junk
<1>9. ~IsChar8(t) => HL(Returned(callee, v)) = v
  BY <1>6, <1>7, <1>8, HLOf
<1>10. IsChar8(t) => Returned(callee, v).a = v
  BY <1>7, <1>8 DEF Regs
<1> QED
  BY <1>2, <1>6, <1>9, <1>10 DEF t, v

\* What is passed are words.
LEMMA PassedWords ==
  ASSUME NEW f, IsSeq(f.args), \A k \in DOMAIN f.args : Operand(f.args[k])
  PROVE  /\ Len(f.args) \in Nat /\ Passed(f) = [i \in 1..Len(f.args) |-> Passed(f)[i]]
         /\ \A i \in 1..Len(f.args) : Passed(f)[i] \in Word
<1>1. Len(f.args) \in Nat /\ DOMAIN f.args = 1..Len(f.args)
  BY SeqFacts
<1>2. Passed(f) = [i \in 1..Len(f.args) |-> Passed(f)[i]]
  BY <1>1 DEF Passed
<1>3. ASSUME NEW i \in 1..Len(f.args) PROVE Passed(f)[i] \in Word
  <2> DEFINE e == f.args[i]
             t == ParamType(f.lhs, i)
  <2>1. Promoted(e) = e.val /\ e.val \in Word
    BY <1>1, <1>3, PromotedIs DEF Operand
  <2>2. Passed(f)[i] = IF t = NoType THEN e.val ELSE Convert(t, e.val)
    BY <1>1, <1>3, <2>1 DEF Passed
  <2> HIDE DEF e, t
  <2>3. Lo(e.val) \in Word
    BY <2>1, SplitWord, Words
  <2> QED
    BY <2>1, <2>2, <2>3 DEF Convert
<1> QED
  BY <1>1, <1>2, <1>3

\* The call itself.
LEMMA EmitCallSem == ASSUME NoSchar, IInv, TInv, Sem, TInv', Clean', EmitCall PROVE Sem'
<1> DEFINE f == Top
           callee == f.lhs
           t == RetType(callee)
           got == [i \in 1..f.slots |-> SlotValue(callee, i, Slots(f)[i])]
           v == CalleeResult(callee, Passed(f))
           rd == UNION {Reads(f.args[i]) : i \in DOMAIN f.args}
           wr == UNION {f.args[i].wr : i \in DOMAIN f.args}
           out == [NoDesc EXCEPT !.ty = t, !.a = IsChar8(t),
                     !.hl = t # <<"void">> /\ ~IsChar8(t), !.val = v, !.rd = rd, !.wr = wr]
<1>1. /\ mode = "push" /\ f.slots = Len(f.args) /\ mode' = "return" /\ ctl' = Below
      /\ err' = (err \/ callee.label = "none")
      /\ reg' = IF callee.label = "none" THEN reg
                ELSE Returned(callee, CalleeResult(callee, got))
      /\ res' = out /\ call' = [got |-> got, want |-> Passed(f)]
      /\ UNCHANGED mem /\ UNCHANGED cmem
  BY DEF EmitCall
<1>2. /\ callee.label # "none" /\ FuncType(callee)
      /\ \A i \in DOMAIN f.args : f.args[i].ty # <<"void">>
      /\ \A i, j \in DOMAIN f.args : i # j => ~Unsequenced(f.args[i], f.args[j])
      /\ \A i \in 1..(Len(f.args) - 1) : ~Resident(f.args[i])
  <2>1. frag' /\ ~cub' /\ ~err'
    BY CleanStep
  <2> QED
    BY <2>1 DEF EmitCall
<1>3. Orderly(f)
  BY <1>2 DEF Orderly
<1>4. Current(mode, res) = NoDesc /\ Current(mode', res') = res'
  BY <1>1 DEF Current
<1>5. ctl # <<>> /\ f.k = "call" /\ FrameOK(f) /\ IsSeq(f.args) /\ DOMAIN f.args = 1..Len(f.args)
  BY <1>1, NextArgFacts
<1>6. /\ mem = cmem /\ mem \in FullMems
      /\ IsSeq(Below) /\ Waiting(Below) /\ Hold(Below) /\ Pushes(f)
      /\ Held(Append(Below, f), NoDesc, reg, mem)
  BY <1>1, <1>4, <1>5, SemTop DEF Sem
<1>7. got = Passed(f)
  BY <1>1, <1>3, SlotsRight
<1>8. Operand(callee) /\ \A k \in DOMAIN f.args : Operand(f.args[k])
  BY <1>6 DEF Pushes, Calls
<1>9. /\ IsSeq(t) /\ t # <<"schar">> /\ Head(t) # "func"
      /\ v \in Word /\ (IsChar8(t) => v \in Bytes)
      /\ ~IsChar8(t) => HL(reg') = v
      /\ IsChar8(t) => reg'.a = v
  <2> DEFINE g == Passed(f)
             n == Len(f.args)
  <2>1. n \in Nat /\ g = [i \in 1..n |-> g[i]] /\ \A i \in 1..n : g[i] \in Word
    BY <1>5, <1>8, PassedWords
  <2>2. reg' = Returned(callee, v)
    BY <1>1, <1>2, <1>7
  <2>3. v = CalleeResult(callee, g)
    OBVIOUS
  <2> HIDE DEF g, n, v, callee
  <2>4. /\ IsSeq(t) /\ t # <<"schar">> /\ Head(t) # "func"
        /\ v \in Word /\ (IsChar8(t) => v \in Bytes)
        /\ ~IsChar8(t) => HL(Returned(callee, v)) = v
        /\ IsChar8(t) => Returned(callee, v).a = v
    BY <1>2, <1>8, <2>1, <2>3, CalleeRight
  <2> QED
    BY <2>2, <2>4
<1>10. callee.wr = {}
  BY <1>2, <1>8 DEF Operand, FuncType
<1>11. FrameWr(f) = wr
  BY <1>5, <1>10 DEF FrameWr, ArgsWr
<1>12. call'.got = call'.want
  <2> DEFINE p == Passed(f)
  <2>1. call' = [got |-> p, want |-> p]
    BY <1>1, <1>7
  <2> HIDE DEF p
  <2> QED
    BY <2>1
<1>13. Desc(res')
  BY DEF TInv
<1> HIDE DEF t, got, v, rd, wr
<1>14. /\ res'.ty = t /\ (res'.a <=> IsChar8(t)) /\ (res'.hl <=> t # <<"void">> /\ ~IsChar8(t))
       /\ res'.val = v /\ res'.wr = wr /\ ~res'.const /\ ~res'.off /\ ~res'.addr
  BY <1>1 DEF NoDesc
<1>15. Operand(res')
  BY <1>9, <1>13, <1>14 DEF Operand
<1>16. InReg(res', reg', mem') /\ InMem(res', mem')
  BY <1>9, <1>14 DEF InReg, InMem
<1>17. Touched(res')
  BY <1>14 DEF Touched, Resident
<1>18. Held(Below, res', reg', mem)
  <2>1. (Touched(NoDesc) \/ Dirty(f) => Touched(res')) /\ NoDesc.wr \cup FrameWr(f) \subseteq res'.wr
    BY <1>11, <1>14, <1>17, NoneTouched
  <2>2. Quiet(res'.wr, Touched(res'), reg, mem, reg', mem)
    BY <1>17 DEF Quiet
  <2> QED
    BY <1>6, <2>1, <2>2, HeldReturn
<1>19. Forms(ctl', mode')
  BY <1>1, <1>6, FormsOf
<1>20. Held(ctl', Current(mode', res'), reg', mem')
  BY <1>1, <1>4, <1>18
<1> QED
  BY <1>1, <1>6, <1>12, <1>15, <1>16, <1>19, <1>20, SemThen DEF Ready

-----------------------------------------------------------------------------
(* The theorems                                                            *)

\* The statement takes the value.
LEMMA UseValueSem == ASSUME IInv, TInv, Sem, Clean', UseValue PROVE Sem'
<1> DEFINE c == CASE goal = "hl" -> EnsureHL(res, reg, mem)
                  [] goal = "a" -> EnsureA(res, reg, mem)
                  [] goal = "drop" -> [d |-> res, r |-> reg]
<1>1. /\ mode = "return" /\ ctl = <<>> /\ UNCHANGED ctl /\ UNCHANGED goal
      /\ UNCHANGED mem /\ UNCHANGED cmem /\ UNCHANGED call
      /\ mode' = "done" /\ res' = c.d /\ reg' = c.r
      /\ frag' = (frag /\ (goal = "a" => NarrowOK(res)))
      /\ cub' = (cub \/ (goal # "drop" /\ Head(res.ty) \in {"void", "func"}))
  BY DEF UseValue
<1>2. (goal = "a" => NarrowOK(res)) /\ (goal # "drop" => Head(res.ty) # "void")
  BY <1>1, CleanStep
<1>3. mem = cmem /\ mem \in FullMems /\ Ready(res, reg, mem) /\ call.got = call.want
  BY <1>1 DEF Sem
<1>4. Operand(res) /\ InReg(res, reg, mem) /\ InMem(res, mem) /\ Desc(res) /\ reg \in Regs
  BY <1>3 DEF Ready, Operand, TInv
<1>5. Promoted(res) = res.val
  BY <1>4, PromotedIs DEF Operand
<1>6. goal = "hl" => HL(reg') = res.val /\ Promoted(res') = res.val
  <2> SUFFICES ASSUME goal = "hl" PROVE HL(reg') = res.val /\ Promoted(res') = res.val
    OBVIOUS
  <2>1. reg' = EnsureHL(res, reg, mem).r /\ res' = EnsureHL(res, reg, mem).d
    BY <1>1
  <2>2. res.ty # <<"void">>
    <3>1. Head(<<"void">>) = "void"
      OBVIOUS
    <3>2. goal # "drop"
      OBVIOUS
    <3> QED
      BY <3>1, <3>2, <1>2
  <2>3. HL(reg') = res.val
    BY <1>3, <1>4, <2>1, <2>2, EnsureHLRight
  <2>4. res'.val = res.val /\ res'.ty = res.ty
    BY <1>4, <2>1, EnsureKeeps
  <2>5. Promoted(res') = res'.val
    BY <1>4, <2>4, PromotedIs DEF Operand
  <2> QED
    BY <2>3, <2>4, <2>5
<1>7. goal = "a" => reg'.a = Lo(res.val) /\ Promoted(res') = res.val
  <2> SUFFICES ASSUME goal = "a" PROVE reg'.a = Lo(res.val) /\ Promoted(res') = res.val
    OBVIOUS
  <2>1. reg' = EnsureA(res, reg, mem).r /\ res' = EnsureA(res, reg, mem).d
    BY <1>1
  <2>2. reg'.a = Lo(res.val)
    BY <1>2, <1>3, <1>4, <2>1, EnsureARight
  <2>3. res'.val = res.val /\ res'.ty = res.ty
    BY <1>4, <2>1, EnsureKeeps
  <2>4. Promoted(res') = res'.val
    BY <1>4, <2>3, PromotedIs DEF Operand
  <2> QED
    BY <2>2, <2>3, <2>4
<1> HIDE DEF c
<1>8. ValueDelivered'
  BY <1>1, <1>6, <1>7 DEF ValueDelivered
<1>9. DOMAIN ctl' = {}
  BY <1>1
<1>10. Forms(ctl', mode') /\ Held(ctl', Current(mode', res'), reg', mem')
  BY <1>1, <1>9 DEF Forms, Waiting, Held
<1> QED
  BY <1>1, <1>3, <1>8, <1>10 DEF Sem

\* The parser starts with nothing held.
LEMMA InitSem == ASSUME Init PROVE Sem
<1>1. /\ ctl = <<NoFrame>> /\ mode = "unary" /\ mem = InitMem /\ cmem = InitMem /\ call = NoCall
  BY DEF Init
<1>2. DOMAIN ctl = {1} /\ ctl[1] = NoFrame
  BY <1>1
<1>3. Fresh(NoFrame)
  BY DEF Fresh, NoFrame
<1>4. Waits(NoFrame) /\ \A d, w, r, M : Fine(NoFrame, d, w, r, M)
  BY <1>3, FreshFacts
<1>5. Forms(ctl, mode)
  BY <1>1, <1>2, <1>4 DEF Forms, Waiting
<1>6. Held(ctl, Current(mode, res), reg, mem)
  BY <1>2, <1>4 DEF Held
<1>7. mem \in FullMems
  BY <1>1, MemAssumption DEF FullMems, Word, Bytes
<1>8. call.got = call.want
  BY <1>1 DEF NoCall
<1> QED
  BY <1>1, <1>5, <1>6, <1>7, <1>8 DEF Sem, ValueDelivered

\* A step that changes nothing keeps what is true.
LEMMA StutterSem == ASSUME Sem, UNCHANGED vars PROVE Sem'
<1>1. /\ UNCHANGED ctl /\ UNCHANGED mode /\ UNCHANGED res /\ UNCHANGED reg /\ UNCHANGED stk
      /\ UNCHANGED mem /\ UNCHANGED cmem /\ UNCHANGED goal /\ UNCHANGED call
      /\ UNCHANGED err /\ UNCHANGED frag /\ UNCHANGED cub
  BY DEF vars, machine, ghost
<1>2. Top' = Top
  BY <1>1 DEF Top
<1>3. mem' = cmem' /\ mem' \in FullMems /\ call'.got = call'.want
  BY <1>1 DEF Sem
<1>4. Forms(ctl', mode')
  BY <1>1 DEF Sem
<1>5. Held(ctl', Current(mode', res'), reg', mem')
  BY <1>1 DEF Sem
<1>6. mode' \in {"return", "postfix"} => Ready(res', reg', mem')
  BY <1>1 DEF Sem
<1>7. mode' = "push" => Pushing(Top', reg', stk', mem')
  BY <1>1, <1>2 DEF Sem
<1>8. ValueDelivered'
  BY <1>1 DEF Sem, ValueDelivered, Clean
<1> QED
  BY <1>3, <1>4, <1>5, <1>6, <1>7, <1>8 DEF Sem

\* Every step of a clean run keeps what the generator relies on.
LEMMA NextSem == ASSUME NoSchar, IInv, TInv, SInv, [Next]_vars PROVE SInv'
<1> SUFFICES ASSUME Clean' PROVE Sem'
  BY DEF SInv
<1>1. CASE UNCHANGED vars
  <2>1. Clean
    BY <1>1 DEF vars, ghost, Clean
  <2> QED
    BY <1>1, <2>1, StutterSem DEF SInv
<1>2. CASE Next
  <2>1. Clean
    BY <1>2, StaysUnclean
  <2>2. Sem
    BY <2>1 DEF SInv
  <2>3. TInv'
    BY NextTyped
  <2>4. CASE Leaf \/ OpenParen \/ CloseParen \/ NoPrimary
             \/ SizeofOpen \/ SizeofParen \/ SizeofType \/ SizeofStar \/ SizeofClose
    BY <2>2, <2>4, LeafSem, EnterSem, CloseParenSem, StaySem
  <2>5. CASE PrefixOp \/ AddressOf \/ Dereference \/ NoCallSuffix \/ OpenCall \/ NoArgs
             \/ ParseArg \/ ArgParsed
    BY <2>2, <2>3, <2>5, EnterSem, AddressOfSem, DereferenceSem, StaySem, OpenCallSem, NoArgsSem,
       ArgParsedSem
  <2>6. CASE PushArg \/ EmitCall \/ UnaryParsed \/ EndExpr \/ StartAssign \/ Assign
    BY <2>2, <2>3, <2>6, PushArgSem, EmitCallSem, UnaryParsedSem, EndExprSem, StartAssignSem,
       AssignSem
  <2>7. CASE StartBinary \/ AddOperands \/ CompareOperands \/ UseValue
    BY <2>2, <2>7, StartBinarySem, AddOperandsSem, CompareOperandsSem, UseValueSem
  <2>8. CASE KeepRhs
    BY <2>8, CleanStep DEF KeepRhs
  <2>9. CASE Done
    BY <2>2, <2>9, StutterSem DEF Done
  <2> QED
    BY <1>2, <2>4, <2>5, <2>6, <2>7, <2>8, <2>9 DEF Next, Step
<1> QED
  BY <1>1, <1>2

\* The inductive invariant.
LEMMA AlwaysSem == ASSUME NoSchar PROVE Spec => [](IInv /\ TInv /\ SInv)
<1>1. Init => IInv /\ TInv /\ SInv
  BY InitIInv, InitTyped, InitSem DEF SInv
<1>2. IInv /\ TInv /\ SInv /\ [Next]_vars => (IInv /\ TInv /\ SInv)'
  BY NextIInv, NextTyped, NextSem
<1> QED
  BY <1>1, <1>2, PTL DEF Spec

\* A finished operand is described soundly.
LEMMA ReadySound ==
  ASSUME NEW e, Ready(e, reg, mem)
  PROVE  /\ e.hl => HL(reg) = Promoted(e)
         /\ e.a => reg.a = e.val
         /\ e.addr => HL(reg) = e.loc /\ Load(e.ty, mem, e.loc) = e.val
         /\ e.off => Load(e.ty, mem, Local(e.ix)) = e.val
         /\ e.const /\ ~e.hl =>
              e.val = IF e.label # "none" THEN LabelAddr[e.label] ELSE W(e.ival)
<1>1. Operand(e) /\ InReg(e, reg, mem) /\ InMem(e, mem)
  BY DEF Ready
<1>2. Promoted(e) = e.val
  BY <1>1, PromotedIs DEF Operand
<1>3. e.off => e.loc = Local(e.ix)
  BY <1>1 DEF Operand
<1>4. e.off => Load(e.ty, mem, Local(e.ix)) = e.val
  BY <1>1, <1>3 DEF InMem
<1>5. /\ e.hl => HL(reg) = Promoted(e)
      /\ e.a => reg.a = e.val
      /\ e.addr => HL(reg) = e.loc /\ Load(e.ty, mem, e.loc) = e.val
  BY <1>1, <1>2 DEF InReg
<1>6. e.const /\ ~e.hl => e.val = IF e.label # "none" THEN LabelAddr[e.label] ELSE W(e.ival)
  BY <1>1 DEF Operand
<1> QED
  BY <1>4, <1>5, <1>6

\* MemoryAgrees, for every program without signed char.
THEOREM MemoryIsRight == ASSUME NoSchar PROVE Spec => []MemoryAgrees
<1>1. SInv => MemoryAgrees
  BY DEF SInv, Sem, MemoryAgrees
<1> QED
  BY <1>1, AlwaysSem, PTL

\* DescriptorSound
THEOREM DescriptorsAreSound == ASSUME NoSchar PROVE Spec => []DescriptorSound
<1>1. ASSUME IInv, TInv, SInv PROVE DescriptorSound
  <2> DEFINE e == IF mode = "loop" THEN Top.lhs ELSE res
  <2>1. ASSUME mode \in {"return", "postfix", "loop"}, Clean PROVE Ready(e, reg, mem)
    <3>1. Sem
      BY <2>1, <1>1 DEF SInv
    <3>2. CASE mode = "loop"
      <4>1. ctl # <<>>
        BY <1>1, <3>2 DEF IInv, ModeOK
      <4> QED
        BY <1>1, <3>1, <3>2, <4>1, LoopFacts
    <3>3. CASE mode # "loop"
      BY <2>1, <3>1, <3>3 DEF Sem
    <3> QED
      BY <3>2, <3>3
  <2> HIDE DEF e
  <2>2. mode \in {"return", "postfix", "loop"} /\ Clean =>
        /\ e.hl => HL(reg) = Promoted(e)
        /\ e.a => reg.a = e.val
        /\ e.addr => HL(reg) = e.loc /\ Load(e.ty, mem, e.loc) = e.val
        /\ e.off => Load(e.ty, mem, Local(e.ix)) = e.val
        /\ e.const /\ ~e.hl =>
             e.val = IF e.label # "none" THEN LabelAddr[e.label] ELSE W(e.ival)
    BY <2>1, ReadySound
  <2> QED
    BY <2>2 DEF DescriptorSound, e
<1>2. IInv /\ TInv /\ SInv => DescriptorSound
  BY <1>1
<1> QED
  BY <1>2, AlwaysSem, PTL

\* ArgumentsPassed
THEOREM ArgumentsAreRight == ASSUME NoSchar PROVE Spec => []ArgumentsPassed
<1>1. SInv => ArgumentsPassed
  BY DEF SInv, Sem, ArgumentsPassed
<1> QED
  BY <1>1, AlwaysSem, PTL

\* ValueDelivered
THEOREM ValuesAreDelivered == ASSUME NoSchar PROVE Spec => []ValueDelivered
<1>1. SInv => ValueDelivered
  BY DEF SInv, Sem, ValueDelivered
<1> QED
  BY <1>1, AlwaysSem, PTL
=============================================================================
