---------------------------- MODULE ExprCodegen ----------------------------
(***************************************************************************)
(* The expression half of cc1's single pass (cc1/src/parse.c): the         *)
(* precedence-climbing parser emits Z80 code while it reads tokens and     *)
(* remembers of every operand only a descriptor, struct cc1_expr, that     *)
(* says where the value is.  Expression code is straight-line (== and !=   *)
(* skip one INC), so running it as it is emitted gives the machine state   *)
(* at that point of the text: reg, stk and mem are that machine.  Beside   *)
(* it, cmem and the val/loc fields of a descriptor evaluate the source as  *)
(* C says; the properties compare the two.                                 *)
(*                                                                         *)
(* Words are pairs of bytes of modulus Byte (256 on the Z80); Junk is a    *)
(* byte whose content the code generator does not know.                    *)
(***************************************************************************)
EXTENDS Integers, Sequences

CONSTANTS
  Byte,       \* number of values of a byte
  Reach,      \* (ix+d) takes -Reach <= d < Reach (128 on the Z80)
  Junk,       \* an unknown byte, or a word with an unknown byte
  FramePtr,   \* what ix holds in the function being compiled
  Vars,       \* the locals and parameters in scope
  VarType,    \* their types
  VarOff,     \* their offsets from ix (s->stack_offset)
  Funcs,      \* the declared functions
  Sig,        \* their [ret, params, proto]
  LabelAddr,  \* address of every label: functions, and "str" for .LCn
  InitMem,    \* the memory contents the run starts from
  MaxArgs,    \* args[32] and param_types[32]
  Tokens,     \* the tokens the input draws from
  MaxTokens,  \* bound on the tokens of one expression
  Goals       \* what the statement does with the value: "hl", "a", "drop"

ASSUME ByteAssumption == Byte \in Nat /\ Byte > 1
ASSUME ReachAssumption == Reach \in Nat \ {0}
ASSUME BoundAssumption == MaxTokens \in Nat \ {0} /\ MaxArgs \in Nat \ {0}
ASSUME JunkAssumption == Junk \notin Int
ASSUME FrameAssumption == FramePtr \in 0..(Byte * Byte - 1)
ASSUME VarAssumption ==
  /\ VarOff \in [Vars -> Int] /\ VarType \in [Vars -> Seq(STRING)]
  /\ \A v \in Vars : Head(VarType[v]) # "func"        \* variables are objects
ASSUME FuncAssumption ==
  \A f \in Funcs : /\ f # "none" /\ Sig[f].ret \in Seq(STRING)
                   /\ Head(Sig[f].ret) # "func"        \* no function returns one
ASSUME LabelAssumption ==
  \A l \in Funcs \cup {"str"} : LabelAddr[l] \in 0..(Byte * Byte - 1)
ASSUME MemAssumption == InitMem \in [0..(Byte * Byte - 1) -> 0..(Byte - 1)]
ASSUME GoalAssumption == Goals \subseteq {"hl", "a", "drop"}
ASSUME TokenAssumption ==
  \A t \in Tokens : t.n \in Int /\ (t.k = "ident" => t.s \in Vars \cup Funcs)

VARIABLES
  tok,    \* cc->tok, the one token of lookahead
  left,   \* how many more tokens the input may deliver
  ctl,    \* the C call stack of the parser, innermost last
  mode,   \* where the innermost call stands
  res,    \* the descriptor the call that just returned filled in (*out)
  err,    \* cc->diag.had_error
  reg,    \* A, H, L, D, E
  stk,    \* words pushed by the expression's code, as <<high, low>>
  mem,    \* memory
  cmem,   \* memory as C says it should be
  goal,   \* how the enclosing statement uses the value
  call,   \* the last call emitted: what was passed, what C passes
  frag,   \* the source is in the fragment the generator handles so far
  cub     \* the source is not a valid C program (or is undefined)

machine == <<reg, stk, mem>>
ghost   == <<cmem, call, frag, cub>>
vars    == <<tok, left, ctl, mode, res, err, machine, goal, ghost>>

-----------------------------------------------------------------------------
(* Words and memory *)

Word == 0..(Byte * Byte - 1)
W(n) == n % (Byte * Byte)
Known(w) == w # Junk
Pair(h, l) == IF Known(h) /\ Known(l) THEN h * Byte + l ELSE Junk
Hi(w) == IF Known(w) THEN w \div Byte ELSE Junk
Lo(w) == IF Known(w) THEN w % Byte ELSE Junk
Sum(v, w) == IF Known(v) /\ Known(w) THEN W(v + w) ELSE Junk

Fetch(M, w) == IF Known(w) THEN M[w] ELSE Junk
Fetch2(M, w) == Pair(Fetch(M, Sum(w, 1)), Fetch(M, w))
\* a store through an unknown address may hit anything
Store(M, w, b) == IF Known(w) THEN [M EXCEPT ![w] = b] ELSE [v \in Word |-> Junk]
Store2(M, w, v) == Store(Store(M, w, Lo(v)), Sum(w, 1), Hi(v))

-----------------------------------------------------------------------------
(* Types: a sequence <<"ptr", ..., base>>, <<"func", f>>; "none" is NULL *)

Int16 == <<"int">>
NoType == <<"none">>
PtrTo(t) == <<"ptr">> \o t
OrInt(t) == IF t = NoType THEN Int16 ELSE t
IsPtr(t) == Head(t) = "ptr"
IsChar8(t) == Head(t) \in {"char", "schar"}
IsInteger(t) == Head(t) \in {"int", "char", "schar"}
SizeOf(t) == CASE IsChar8(t) -> 1
               [] t \in {NoType, <<"void">>} -> 0
               [] OTHER -> 2

-----------------------------------------------------------------------------
(* Descriptors: struct cc1_expr.  The last four fields are C's view of the *)
(* operand: val is its value, loc the address of an lvalue, rd and wr the  *)
(* addresses its evaluation has read and written.                          *)

NoDesc == [ty |-> NoType, lv |-> FALSE, const |-> FALSE, ival |-> 0,
           label |-> "none", a |-> FALSE, hl |-> FALSE, off |-> FALSE, ix |-> 0,
           addr |-> FALSE, val |-> Junk, loc |-> Junk, rd |-> {}, wr |-> {}]

Local(i) == W(FramePtr + i)
Load(t, M, w) == IF IsChar8(t) THEN Fetch(M, w) ELSE Fetch2(M, w)
Convert(t, v) == IF IsChar8(t) THEN Lo(v) ELSE v
Promoted(e) == IF e.ty = <<"schar">> /\ Known(e.val) /\ 2 * e.val >= Byte
                 THEN W(e.val - Byte) ELSE e.val

Literal(n) == [NoDesc EXCEPT !.ty = Int16, !.const = TRUE, !.ival = n, !.val = W(n)]
\* a string literal: its bytes go to .rodata, its value is the label
StringLit == [NoDesc EXCEPT !.ty = PtrTo(<<"char">>), !.const = TRUE,
                            !.label = "str", !.val = LabelAddr["str"]]

LoadIdent(v) ==
  IF v \in Vars
  THEN [NoDesc EXCEPT !.ty = VarType[v], !.lv = TRUE, !.off = TRUE,
                      !.ix = VarOff[v], !.loc = Local(VarOff[v]),
                      !.val = Load(VarType[v], cmem, Local(VarOff[v]))]
  ELSE [NoDesc EXCEPT !.ty = <<"func", v>>, !.const = TRUE, !.label = v,
                      !.val = LabelAddr[v]]

\* the operand lives in a register that later code may reuse
Resident(e) == e.a \/ e.hl \/ e.addr

\* the addresses an lvalue covers, and what converting it to a value reads
Extent(e) == IF ~e.lv \/ ~Known(e.loc) THEN {}
             ELSE IF IsChar8(e.ty) THEN {e.loc} ELSE {e.loc, W(e.loc + 1)}
Reads(e) == e.rd \cup Extent(e)
Unsequenced(x, y) == \/ x.wr \cap (Reads(y) \cup y.wr) # {}
                     \/ y.wr \cap Reads(x) # {}

\* what C lets a program read through a pointer to t, and what it may write
Object(t, w) == \E v \in Vars : VarType[v] = t /\ Local(VarOff[v]) = w
Readable(t, w) == Object(t, w) \/ (t = <<"char">> /\ w = LabelAddr["str"])

-----------------------------------------------------------------------------
(* Code emission: what the emitted instructions do to the registers        *)

HL(r) == Pair(r.h, r.l)
DE(r) == Pair(r.d, r.e)
LdHL(r, w) == [r EXCEPT !.h = Hi(w), !.l = Lo(w)]
LdDE(r, w) == [r EXCEPT !.d = Hi(w), !.e = Lo(w)]
\* a mutant: ld l, a without ld h, 0
CopyA(r) == [r EXCEPT !.l = r.a]
ZeroExtendA(r) == [r EXCEPT !.l = r.a, !.h = 0]
AddHLDE(r) == LdHL(r, Sum(HL(r), DE(r)))
DoubleHL(r) == LdHL(r, Sum(HL(r), HL(r)))

\* a mutant: push ix; pop hl; ld de, i with no add hl, de
LoadFrameAddrHL(r, i) == LdHL(LdDE(r, W(i)), FramePtr)
\* a mutant: the offset is not cut to 16 bits
LoadWideAddrHL(r, i) == LdHL(LdDE(r, i), Local(i))
LoadLocalAddrHL(r, i) == LdHL(LdDE(r, W(i)), Local(i))
LoadU8(r, M) == [r EXCEPT !.a = Fetch(M, HL(r))]
LoadU16(r, M) == LET w == HL(r)
                 IN  [r EXCEPT !.a = Fetch(M, w), !.l = Fetch(M, w),
                               !.h = Fetch(M, Sum(w, 1))]

ByteInReach(i) == i >= -Reach /\ i < Reach
\* a mutant: only the low byte is looked at
WordStartsInReach(i) == i >= -Reach /\ i < Reach
WordInReach(i) == i >= -Reach /\ i + 1 < Reach
\* the address of (ix+i): a displacement is a signed byte
IxD(i) == Local(((i + Reach) % (2 * Reach)) - Reach)

LoadByteLocal(r, M, i) ==            \* the byte of a local, zero-extended to HL
  IF ByteInReach(i) THEN [r EXCEPT !.l = Fetch(M, IxD(i)), !.h = 0]
                    ELSE ZeroExtendA(LoadU8(LoadLocalAddrHL(r, i), M))
LoadWordLocal(r, M, i) ==
  IF WordInReach(i)
    THEN [r EXCEPT !.l = Fetch(M, IxD(i)), !.h = Fetch(M, IxD(i + 1))]
    ELSE LoadU16(LoadLocalAddrHL(r, i), M)

\* The two conversions: what the descriptor becomes (d) and what the code
\* they emit leaves in the registers (r).
EnsureA(e, r, M) ==
  LET inA == [e EXCEPT !.a = TRUE]
  IN  IF e.a THEN [d |-> e, r |-> r]
      ELSE IF IsChar8(e.ty) /\ e.off
      THEN [d |-> [inA EXCEPT !.off = FALSE],
            r |-> IF ByteInReach(e.ix) THEN [r EXCEPT !.a = Fetch(M, IxD(e.ix))]
                  ELSE LoadU8(LoadLocalAddrHL(r, e.ix), M)]
      ELSE IF IsChar8(e.ty) /\ e.addr
      THEN [d |-> [inA EXCEPT !.addr = FALSE], r |-> LoadU8(r, M)]
      ELSE IF e.const THEN [d |-> inA, r |-> [r EXCEPT !.a = Lo(W(e.ival))]]
      ELSE IF e.hl THEN [d |-> inA, r |-> [r EXCEPT !.a = r.l]]
      ELSE [d |-> e, r |-> r]

EnsureHL(e, r, M) ==
  LET inHL == [e EXCEPT !.hl = TRUE]
  IN  IF e.hl THEN [d |-> e, r |-> r]
      ELSE IF e.off
      THEN [d |-> [inHL EXCEPT !.off = FALSE],
            r |-> IF IsChar8(e.ty) THEN LoadByteLocal(r, M, e.ix)
                                   ELSE LoadWordLocal(r, M, e.ix)]
      ELSE IF e.addr
      THEN [d |-> [inHL EXCEPT !.addr = FALSE],
            r |-> IF IsChar8(e.ty) THEN ZeroExtendA(LoadU8(r, M)) ELSE LoadU16(r, M)]
      ELSE IF e.const
      THEN [d |-> inHL,
            r |-> LdHL(r, IF e.label # "none" THEN LabelAddr[e.label] ELSE W(e.ival))]
      ELSE IF e.a THEN [d |-> [inHL EXCEPT !.a = FALSE], r |-> ZeroExtendA(r)]
      ELSE [d |-> e, r |-> r]

\* EnsureA finds the value of e: a byte, a pure constant, or HL it can copy
NarrowOK(e) == \/ e.a
               \/ IsChar8(e.ty) /\ (e.off \/ e.addr)
               \/ e.const /\ e.label = "none" /\ ~e.hl
               \/ e.hl /\ ~e.const

-----------------------------------------------------------------------------
(* Tokens: k is the kind, n a literal's value, s a name                    *)

T(kind) == [k |-> kind, n |-> 0, s |-> "none"]
Num(i) == [k |-> "int", n |-> i, s |-> "none"]
Id(v) == [k |-> "ident", n |-> 0, s |-> v]
TypeName(t) == [k |-> "type", n |-> 0, s |-> t]
EndTok == T(";")

\* cc1_next: the input goes on, or ends here.  After an error only the end
\* is left, so every input is followed up to its first error and through
\* what the parser still does about it.
Advance ==
  \/ /\ left > 0 /\ ~err
     /\ tok' \in Tokens
     /\ left' = left - 1
  \/ /\ tok' = EndTok
     /\ left' = 0

\* cc1_expect: consume the token, or report and stay
Expect(kind) == IF tok.k = kind THEN Advance /\ UNCHANGED err
                ELSE err' = TRUE /\ UNCHANGED <<tok, left>>

Prec(k) == CASE k = "=" -> 1
             [] k = "||" -> 2
             [] k = "&&" -> 3
             [] k \in {"==", "!="} -> 4
             [] k \in {"<", "<=", ">", ">="} -> 5
             [] k \in {"+", "-"} -> 6
             [] k \in {"*", "/", "%"} -> 7
             [] OTHER -> 0

(* Activations.  A frame is a call of parse_expr ("expr"), of parse_unary  *)
(* inside & or * ("amp", "deref"), of parse_primary inside parentheses     *)
(* ("paren") or of parse_postfix inside an argument list ("call").  lhs is *)
(* the operand it holds, slots the words its code has on the stack so far, *)
(* sp0 how many were there before, at the address it saved.                *)

NoFrame == [k |-> "expr", min |-> 1, op |-> "none", lhs |-> NoDesc, can |-> FALSE,
            args |-> <<>>, slots |-> 0, sp0 |-> 0, at |-> Junk]

Top == ctl[Len(ctl)]
Below == SubSeq(ctl, 1, Len(ctl) - 1)
Replace(f) == ctl' = Append(Below, f)
Enter(f) == ctl' = Append(ctl, [f EXCEPT !.sp0 = Len(stk)])
ExprFrame(min) == [NoFrame EXCEPT !.min = min]
Returning(kind) == mode = "return" /\ ctl # <<>> /\ Top.k = kind
InLoop == mode = "loop" /\ ctl # <<>>

Popped(n) == SubSeq(stk, 1, Len(stk) - n)

NoCall == [got |-> <<>>, want |-> <<>>]

Init ==
  /\ tok \in Tokens /\ left = MaxTokens - 1
  /\ ctl = <<NoFrame>> /\ mode = "unary"
  /\ res = NoDesc /\ err = FALSE
  /\ reg = [a |-> Junk, h |-> Junk, l |-> Junk, d |-> Junk, e |-> Junk]
  /\ stk = <<>> /\ mem = InitMem
  /\ cmem = InitMem /\ goal \in Goals /\ call = NoCall
  /\ frag = TRUE /\ cub = FALSE

-----------------------------------------------------------------------------
(* cc1_parse_primary: literals and names                                   *)

Leaf ==
  /\ mode = "unary" /\ tok.k \in {"int", "str", "ident"}
  /\ res' = CASE tok.k = "int" -> Literal(tok.n)
              [] tok.k = "str" -> StringLit
              [] tok.k = "ident" -> LoadIdent(tok.s)
  /\ mode' = "postfix"
  /\ Advance
  /\ UNCHANGED <<ctl, err, machine, goal, ghost>>

\* "(": the argument of cc1_accept is consumed, parse_expr follows
OpenParen ==
  /\ mode = "unary" /\ tok.k = "("
  /\ ctl' = ctl \o << [NoFrame EXCEPT !.k = "paren", !.sp0 = Len(stk)],
                      [NoFrame EXCEPT !.sp0 = Len(stk)] >>
  /\ Advance
  /\ UNCHANGED <<mode, res, err, machine, goal, ghost>>

CloseParen ==
  /\ Returning("paren")
  /\ Expect(")")
  /\ ctl' = Below /\ mode' = "postfix"
  /\ UNCHANGED <<res, machine, goal, ghost>>

\* nothing is consumed, the descriptor stays zero
NoPrimary ==
  /\ mode = "unary"
  /\ tok.k \notin {"int", "str", "ident", "(", "sizeof", "&", "*"}
  /\ err' = TRUE
  /\ res' = NoDesc /\ mode' = "postfix"
  /\ UNCHANGED <<tok, left, ctl, machine, goal, ghost>>

-----------------------------------------------------------------------------
(* cc1_parse_unary                                                         *)

\* sizeof, up to and including its "("
SizeofOpen ==
  /\ mode = "unary" /\ tok.k = "sizeof"
  /\ mode' = "sizeof("
  /\ Advance
  /\ UNCHANGED <<ctl, res, err, machine, goal, ghost>>

SizeofParen ==
  /\ mode = "sizeof("
  /\ IF tok.k = "(" THEN /\ mode' = "sizeof" /\ Advance
                         /\ UNCHANGED <<res, err>>
     ELSE /\ err' = TRUE /\ mode' = "return" /\ res' = Literal(0)
          /\ UNCHANGED <<tok, left>>
  /\ UNCHANGED <<ctl, machine, goal, ghost>>

\* the declaration specifiers stand for one token; res.ty is the type so far
SizeofType ==
  /\ mode = "sizeof"
  /\ IF tok.k = "type"
       THEN /\ Advance
            /\ mode' = "sizeof*" /\ res' = [NoDesc EXCEPT !.ty = <<tok.s>>]
            /\ UNCHANGED err
       ELSE /\ IF tok.k = ")" THEN Advance ELSE UNCHANGED <<tok, left>>
            /\ err' = TRUE
            /\ mode' = "return" /\ res' = Literal(0)
  /\ UNCHANGED <<ctl, machine, goal, ghost>>

SizeofStar ==
  /\ mode = "sizeof*" /\ tok.k = "*"
  /\ res' = [res EXCEPT !.ty = PtrTo(res.ty)]
  /\ Advance
  /\ UNCHANGED <<ctl, mode, err, machine, goal, ghost>>

SizeofClose ==
  /\ mode = "sizeof*" /\ tok.k # "*"
  /\ Expect(")")
  /\ res' = Literal(SizeOf(res.ty)) /\ mode' = "return"
  /\ cub' = (cub \/ res.ty = <<"void">>)
  /\ UNCHANGED <<ctl, machine, goal, cmem, call, frag>>

\* "&" and "*": cc1_next, then parse_unary again
PrefixOp ==
  /\ mode = "unary" /\ tok.k \in {"&", "*"}
  /\ Enter([NoFrame EXCEPT !.k = IF tok.k = "&" THEN "amp" ELSE "deref"])
  /\ Advance
  /\ UNCHANGED <<mode, res, err, machine, goal, ghost>>

AddressOf ==
  LET p == res
      ptr == [NoDesc EXCEPT !.ty = PtrTo(OrInt(p.ty)), !.val = p.loc,
                            !.rd = p.rd, !.wr = p.wr]
      bad == [ptr EXCEPT !.const = TRUE]
      function == p.const /\ p.label # "none"
      refused == ~function /\ ~(p.lv /\ (p.off \/ p.addr))
  IN /\ Returning("amp")
     /\ res' = IF function THEN [bad EXCEPT !.label = p.label, !.val = p.val]
               ELSE IF ~p.lv THEN [bad EXCEPT !.ty = PtrTo(Int16)]
               ELSE IF refused THEN bad
               ELSE [ptr EXCEPT !.hl = TRUE]
     /\ reg' = IF ~function /\ p.lv /\ p.off THEN LoadLocalAddrHL(reg, p.ix) ELSE reg
     /\ err' = (err \/ refused)
     /\ cub' = (cub \/ refused \/ (function /\ p.ty # <<"func", p.label>>))
     /\ ctl' = Below
     /\ UNCHANGED <<tok, left, mode, stk, mem, goal, cmem, call, frag>>

Dereference ==
  LET c == EnsureHL(res, reg, mem)
      pointer == IsPtr(c.d.ty)
      ty == IF pointer THEN Tail(c.d.ty) ELSE <<"char">>
  IN /\ Returning("deref")
     /\ reg' = c.r
     /\ res' = [NoDesc EXCEPT !.ty = ty, !.lv = TRUE, !.addr = TRUE,
                              !.loc = c.d.val, !.val = Load(ty, cmem, c.d.val),
                              !.rd = Reads(res), !.wr = res.wr]
     /\ err' = (err \/ ~pointer)
     /\ cub' = (cub \/ ~pointer \/ ~Readable(ty, c.d.val))
     /\ ctl' = Below
     /\ UNCHANGED <<tok, left, mode, stk, mem, goal, cmem, call, frag>>

-----------------------------------------------------------------------------
(* cc1_parse_postfix.  In a "call" frame lhs is the callee.                *)

FuncType(e) == Head(e.ty) = "func"
HasProto(e) == FuncType(e) /\ Sig[e.ty[2]].proto
RetType(e) == IF FuncType(e) THEN Sig[e.ty[2]].ret ELSE Int16
\* param_types[i]; NULL beyond the parameters, or without a prototype
ParamType(e, i) == IF HasProto(e) /\ i <= Len(Sig[e.ty[2]].params)
                     THEN Sig[e.ty[2]].params[i] ELSE NoType

NoCallSuffix ==
  /\ mode = "postfix" /\ tok.k # "("
  /\ mode' = "return"
  /\ UNCHANGED <<tok, left, ctl, res, err, machine, goal, ghost>>

OpenCall ==
  /\ mode = "postfix" /\ tok.k = "("
  /\ Enter([NoFrame EXCEPT !.k = "call", !.lhs = res])
  /\ mode' = "args"
  /\ Advance
  /\ UNCHANGED <<res, err, machine, goal, ghost>>

NoArgs ==
  /\ mode = "args" /\ tok.k = ")" /\ Top.args = <<>>
  /\ Advance
  /\ mode' = "push"
  /\ UNCHANGED <<ctl, res, err, machine, goal, ghost>>

\* one turn of the argument loop: at most MaxArgs of them
ParseArg ==
  /\ mode = "args" /\ ~(tok.k = ")" /\ Top.args = <<>>)
  /\ IF Len(Top.args) >= MaxArgs
       THEN err' = TRUE /\ mode' = "push" /\ UNCHANGED ctl
       ELSE Enter(ExprFrame(1)) /\ mode' = "unary" /\ UNCHANGED err
  /\ UNCHANGED <<tok, left, res, machine, goal, ghost>>

ArgParsed ==
  /\ Returning("call")
  /\ Replace([Top EXCEPT !.args = Append(Top.args, res)])
  /\ IF tok.k = "," THEN mode' = "args" /\ Advance /\ UNCHANGED err
                    ELSE mode' = "push" /\ Expect(")")
  /\ UNCHANGED <<res, machine, goal, ghost>>

\* a mutant: the first argument is pushed first
LeftToRight(f) == f.slots + 1
\* the index of the argument to push: the last one first
NextArg(f) == Len(f.args) - f.slots

\* The next argument: converted and pushed as one word.  A
\* char goes through A into L and leaves H as it is.
PushArg ==
  LET i == NextArg(Top)
      e == Top.args[i]
      c8 == IsChar8(ParamType(Top.lhs, i))
      c == IF c8 THEN EnsureA(e, reg, mem) ELSE EnsureHL(e, reg, mem)
      r == IF c8 THEN [c.r EXCEPT !.l = c.r.a] ELSE c.r
  IN /\ mode = "push" /\ Top.slots < Len(Top.args)
     /\ reg' = r
     /\ stk' = Append(stk, <<r.h, r.l>>)
     /\ Replace([Top EXCEPT !.slots = Top.slots + 1])
     /\ frag' = (frag /\ (c8 => NarrowOK(e)))
     /\ UNCHANGED <<tok, left, mode, res, err, mem, goal, cmem, call, cub>>

\* What the arguments of the call are as C passes them
Passed(f) == [i \in DOMAIN f.args |->
                IF ParamType(f.lhs, i) = NoType THEN Promoted(f.args[i])
                ELSE Convert(ParamType(f.lhs, i), Promoted(f.args[i]))]
\* and as the callee finds them above its return address
Slots(f) == [i \in 1..f.slots |-> stk[Len(stk) - i + 1]]
\* an external function: it returns a value that depends on what it was
\* passed, and every register but the result is its own
CalleeResult(callee, vals) ==
  Convert(RetType(callee),
          Sum(callee.val, IF vals = <<>> THEN 0 ELSE vals[1]))
Returned(callee, v) ==
  LET junk == [a |-> Junk, h |-> Junk, l |-> Junk, d |-> Junk, e |-> Junk]
  IN  IF IsChar8(RetType(callee)) THEN [junk EXCEPT !.a = v] ELSE LdHL(junk, v)
SlotValue(callee, i, s) ==
  IF IsChar8(ParamType(callee, i)) THEN s[2] ELSE Pair(s[1], s[2])

\* a mutant: one pop per parameter instead of one per argument
CleanupParams(f) == IF HasProto(f.lhs) THEN Popped(Len(Sig[f.lhs.ty[2]].params))
                                       ELSE Popped(f.slots)
Cleanup(f) == Popped(f.slots)

EmitCall ==
  LET f == Top
      callee == f.lhs
      got == [i \in 1..f.slots |-> SlotValue(callee, i, Slots(f)[i])]
      out == [NoDesc EXCEPT !.ty = RetType(callee), !.a = IsChar8(RetType(callee)),
                !.hl = RetType(callee) # <<"void">> /\ ~IsChar8(RetType(callee)),
                !.val = CalleeResult(callee, Passed(f)),
                !.rd = UNION {Reads(f.args[i]) : i \in DOMAIN f.args},
                !.wr = UNION {f.args[i].wr : i \in DOMAIN f.args}]
  IN /\ mode = "push" /\ f.slots = Len(f.args)
     /\ err' = (err \/ callee.label = "none")
     /\ reg' = IF callee.label = "none" THEN reg
               ELSE Returned(callee, CalleeResult(callee, got))
     /\ stk' = Cleanup(f)
     /\ res' = out
     /\ call' = [got |-> got, want |-> Passed(f)]
     /\ cub' = \/ cub \/ ~FuncType(callee)
               \/ HasProto(callee) /\ Len(Sig[callee.ty[2]].params) # Len(f.args)
               \/ \E i \in DOMAIN f.args : f.args[i].ty = <<"void">>
               \/ \E i, j \in DOMAIN f.args : i # j /\ Unsequenced(f.args[i], f.args[j])
     /\ frag' = (frag /\ \A i \in 1..(Len(f.args) - 1) : ~Resident(f.args[i]))
     /\ ctl' = Below /\ mode' = "return"
     /\ UNCHANGED <<tok, left, mem, goal, cmem>>

-----------------------------------------------------------------------------
(* cc1_parse_expr                                                          *)

UnaryParsed ==
  /\ Returning("expr") /\ Top.op = "none"
  /\ Replace([Top EXCEPT !.lhs = res])
  /\ mode' = "loop"
  /\ UNCHANGED <<tok, left, res, err, machine, goal, ghost>>

EndExpr ==
  /\ InLoop /\ Prec(tok.k) < Top.min
  /\ res' = Top.lhs
  /\ ctl' = Below /\ mode' = "return"
  /\ UNCHANGED <<tok, left, err, machine, goal, ghost>>

\* the operator is consumed and the right operand is parsed at prec
EnterRhs(f, depth, prec) ==
  ctl' = Append(Append(Below, f), [ExprFrame(prec) EXCEPT !.sp0 = depth])

StartAssign ==
  LET lhs == Top.lhs
      can == /\ lhs.off
             /\ IF IsChar8(lhs.ty) THEN ByteInReach(lhs.ix) ELSE WordInReach(lhs.ix)
      save == ~can /\ (lhs.addr \/ lhs.off)
      r == IF save /\ ~lhs.addr THEN LoadLocalAddrHL(reg, lhs.ix) ELSE reg
      bad == ~lhs.lv \/ (~lhs.off /\ ~lhs.addr)
  IN /\ InLoop /\ tok.k = "=" /\ Prec("=") >= Top.min
     /\ Advance
     /\ reg' = r
     /\ stk' = IF save THEN Append(stk, <<r.h, r.l>>) ELSE stk
     /\ EnterRhs([Top EXCEPT !.op = "=", !.can = can, !.slots = IF save THEN 1 ELSE 0,
                             !.at = IF save THEN HL(r) ELSE Junk],
                 Len(stk'), Prec("="))
     /\ err' = (err \/ bad)
     /\ cub' = (cub \/ bad \/ ~Object(lhs.ty, lhs.loc))
     /\ mode' = "unary"
     /\ UNCHANGED <<res, mem, goal, cmem, call, frag>>

\* the value in A or HL goes to (ix+d), or to the address popped from the stack
Assign ==
  LET lhs == Top.lhs
      c8 == IsChar8(lhs.ty)
      c == IF c8 THEN EnsureA(res, reg, mem) ELSE EnsureHL(res, reg, mem)
      saved == Pair(stk[Len(stk)][1], stk[Len(stk)][2])
      r == IF Top.can \/ Top.slots = 0 THEN c.r
           ELSE IF c8 THEN LdHL(c.r, saved) ELSE LdDE(c.r, saved)
      to == IF Top.can THEN IxD(lhs.ix) ELSE IF c8 THEN HL(r) ELSE DE(r)
      next == IF Top.can THEN IxD(lhs.ix + 1) ELSE Sum(to, 1)
      val == Convert(lhs.ty, Promoted(res))
  IN /\ Returning("expr") /\ Top.op = "="
     /\ reg' = IF c8 \/ Top.can THEN r ELSE LdDE([r EXCEPT !.a = r.h], Sum(DE(r), 1))
     /\ mem' = IF c8 THEN Store(mem, to, r.a)
                      ELSE Store(Store(mem, to, r.l), next, r.h)
     /\ stk' = Popped(Top.slots)
     /\ cmem' = IF c8 THEN Store(cmem, lhs.loc, val) ELSE Store2(cmem, lhs.loc, val)
     /\ Replace([Top EXCEPT
           !.op = "none", !.slots = 0, !.at = Junk, !.can = FALSE,
           !.lhs = [lhs EXCEPT !.a = c8 \/ lhs.a, !.hl = ~c8 \/ lhs.hl,
                               !.lv = FALSE, !.off = FALSE, !.addr = FALSE,
                               !.val = val, !.rd = lhs.rd \cup Reads(res),
                               !.wr = lhs.wr \cup res.wr \cup Extent(lhs)]])
     /\ cub' = \/ cub \/ res.ty = <<"void">>
               \/ res.wr \cap (lhs.rd \cup Extent(lhs)) # {}
               \/ lhs.wr \cap (Reads(res) \cup res.wr \cup Extent(lhs)) # {}
     /\ frag' = (frag /\ (c8 => NarrowOK(res)))
     /\ mode' = "loop"
     /\ UNCHANGED <<tok, left, res, err, goal, call>>

\* a mutant: the operator is not consumed
StartBinaryHere ==
  /\ InLoop /\ tok.k # "=" /\ Prec(tok.k) >= Top.min
  /\ EnterRhs([Top EXCEPT !.op = tok.k], Len(stk), Prec(tok.k) + 1)
  /\ mode' = "unary"
  /\ UNCHANGED <<tok, left, res, err, machine, goal, ghost>>

StartBinary ==
  /\ InLoop /\ tok.k # "=" /\ Prec(tok.k) >= Top.min
  /\ Advance
  /\ EnterRhs([Top EXCEPT !.op = tok.k], Len(stk), Prec(tok.k) + 1)
  /\ mode' = "unary"
  /\ UNCHANGED <<res, err, machine, goal, ghost>>

\* "+": the operand converted first is pushed and popped into DE; of a pointer
\* and an integer the pointer is first, and the integer is scaled
AddOperands ==
  LET l == Top.lhs
      scaledL == IsPtr(l.ty) /\ IsInteger(res.ty)
      scaledR == ~scaledL /\ IsPtr(res.ty) /\ IsInteger(l.ty)
      first  == IF scaledR THEN res ELSE l
      second == IF scaledR THEN l ELSE res
      size == IF scaledL \/ scaledR THEN SizeOf(Tail(first.ty)) ELSE 1
      c1 == EnsureHL(first, reg, mem)
      c2 == EnsureHL(second, c1.r, mem)
      r == IF size = 2 THEN DoubleHL(c2.r) ELSE c2.r
      scaled == IF size = 2 THEN Sum(Promoted(second), Promoted(second))
                            ELSE Promoted(second)
  IN /\ Returning("expr") /\ Top.op = "+"
     /\ reg' = AddHLDE(LdDE(r, HL(c1.r)))
     /\ Replace([Top EXCEPT !.op = "none",
           !.lhs = [(IF scaledR THEN c2.d ELSE c1.d) EXCEPT
              !.hl = TRUE,
              !.ty = IF scaledL \/ scaledR THEN first.ty ELSE Int16,
              !.val = Sum(Promoted(first), scaled),
              !.rd = Reads(l) \cup Reads(res), !.wr = l.wr \cup res.wr]])
     /\ cub' = \/ cub \/ Unsequenced(l, res)
               \/ IF scaledL \/ scaledR
                    THEN Head(Tail(first.ty)) \in {"void", "func"}
                    ELSE ~(IsInteger(l.ty) /\ IsInteger(res.ty))
     \* converting the second operand must not find the first one in its way
     /\ frag' = (frag /\ ~Resident(second))
     /\ mode' = "loop"
     /\ UNCHANGED <<tok, left, res, err, stk, mem, goal, cmem, call>>

\* "==" and "!=": sbc hl, de sets Z; HL becomes 0 and one jump skips inc l
CompareOperands ==
  LET l == Top.lhs
      c1 == EnsureHL(l, reg, mem)
      c2 == EnsureHL(res, c1.r, mem)
      Truth(v, w) == IF ~Known(v) \/ ~Known(w) THEN Junk
                     ELSE IF (Top.op = "==") <=> (v = w) THEN 1 ELSE 0
  IN /\ Returning("expr") /\ Top.op \in {"==", "!="}
     /\ reg' = [LdHL(LdDE(c2.r, HL(c1.r)), Truth(HL(c1.r), HL(c2.r))) EXCEPT !.a = 0]
     /\ Replace([Top EXCEPT !.op = "none",
           !.lhs = [c1.d EXCEPT
              !.hl = TRUE, !.a = FALSE, !.addr = FALSE, !.off = FALSE, !.lv = FALSE,
              !.ty = Int16, !.val = Truth(Promoted(l), Promoted(res)),
              !.rd = Reads(l) \cup Reads(res), !.wr = l.wr \cup res.wr]])
     /\ cub' = \/ cub \/ Unsequenced(l, res)
               \/ l.ty = <<"void">>
               \/ ~(IsInteger(l.ty) /\ IsInteger(res.ty)) /\ l.ty # res.ty
     /\ frag' = (frag /\ ~Resident(res))
     /\ mode' = "loop"
     /\ UNCHANGED <<tok, left, res, err, stk, mem, goal, cmem, call>>

\* every other operator: "just keep rhs for now"
KeepRhs ==
  /\ Returning("expr") /\ Top.op \notin {"none", "=", "+", "==", "!="}
  /\ Replace([Top EXCEPT !.op = "none", !.lhs = res])
  /\ frag' = FALSE
  /\ mode' = "loop"
  /\ UNCHANGED <<tok, left, res, err, machine, goal, cmem, call, cub>>

-----------------------------------------------------------------------------
(* cc1_parse_statement's use of the value                                  *)

UseValue ==
  LET c == CASE goal = "hl" -> EnsureHL(res, reg, mem)
             [] goal = "a" -> EnsureA(res, reg, mem)
             [] goal = "drop" -> [d |-> res, r |-> reg]
  IN /\ mode = "return" /\ ctl = <<>>
     /\ res' = c.d /\ reg' = c.r
     /\ mode' = "done"
     /\ frag' = (frag /\ (goal = "a" => NarrowOK(res)))
     /\ cub' = (cub \/ (goal # "drop" /\ Head(res.ty) \in {"void", "func"}))
     /\ UNCHANGED <<tok, left, ctl, err, stk, mem, goal, cmem, call>>

Step == \/ Leaf \/ OpenParen \/ CloseParen \/ NoPrimary
        \/ SizeofOpen \/ SizeofParen \/ SizeofType \/ SizeofStar \/ SizeofClose
        \/ PrefixOp \/ AddressOf \/ Dereference
        \/ NoCallSuffix \/ OpenCall \/ NoArgs \/ ParseArg \/ ArgParsed
        \/ PushArg \/ EmitCall
        \/ UnaryParsed \/ EndExpr \/ StartAssign \/ Assign
        \/ StartBinary \/ AddOperands \/ CompareOperands \/ KeepRhs
        \/ UseValue
Done == mode = "done" /\ UNCHANGED vars
Next == Step \/ Done

\* cc1 is one sequential process: it takes its next step as long as it has one
Spec == Init /\ [][Next]_vars /\ WF_vars(Step)

-----------------------------------------------------------------------------
(* Properties                                                              *)

Cell == 0..(Byte - 1) \cup {Junk}
Value == Word \cup {Junk}
Modes == {"unary", "postfix", "return", "loop", "args", "push",
          "sizeof(", "sizeof", "sizeof*", "done"}

\* The type invariant: registers and memory hold bytes, a frame has an
\* activation's shape.
TypeOK ==
  /\ tok \in Tokens \cup {EndTok}
  /\ left \in 0..MaxTokens
  /\ mode \in Modes
  /\ \A i \in DOMAIN ctl : /\ ctl[i].k \in {"expr", "paren", "amp", "deref", "call"}
                           /\ ctl[i].slots \in Nat /\ ctl[i].sp0 \in Nat
                           /\ ctl[i].at \in Value
  /\ err \in BOOLEAN /\ frag \in BOOLEAN /\ cub \in BOOLEAN
  /\ reg \in [{"a", "h", "l", "d", "e"} -> Cell]
  /\ \A i \in DOMAIN stk : stk[i][1] \in Cell /\ stk[i][2] \in Cell
  /\ mem \in [Word -> Cell] /\ cmem \in [Word -> Cell]

\* Whatever is parsed, errors included, the words on the machine stack are
\* exactly those the active calls of the parser have pushed and not yet
\* popped, and none is left when the expression ends: the pushes of saved
\* addresses and arguments pair up with pops emitted by other calls.
StackBalanced ==
  /\ \A i \in DOMAIN ctl :
       ctl[i].sp0 = IF i = 1 THEN 0 ELSE ctl[i - 1].sp0 + ctl[i - 1].slots
  /\ Len(stk) = IF ctl = <<>> THEN 0 ELSE Top.sp0 + Top.slots

\* The expression parser ends on every input, the rejected ones included.
Terminates == <>(mode = "done")

\* The source so far is C, accepted, and within what the generator handles.
Clean == frag /\ ~cub /\ ~err

\* While the right side of an assignment runs (calls, nested assignments and
\* all), the address saved for the store stays in its own stack slot.
SavedAddressSurvives ==
  \A i \in DOMAIN ctl :
    ctl[i].k = "expr" /\ ctl[i].slots = 1
      => /\ Len(stk) > ctl[i].sp0
         /\ Pair(stk[ctl[i].sp0 + 1][1], stk[ctl[i].sp0 + 1][2]) = ctl[i].at

\* A descriptor that a parser function returns says the truth: the place it
\* names (A, HL, the address in HL, the frame slot, the constant) holds the
\* operand's C value.
DescriptorSound ==
  LET e == IF mode = "loop" THEN Top.lhs ELSE res
  IN  mode \in {"return", "postfix", "loop"} /\ Clean =>
        /\ e.hl => HL(reg) = Promoted(e)
        /\ e.a => reg.a = e.val
        /\ e.addr => HL(reg) = e.loc /\ Load(e.ty, mem, e.loc) = e.val
        /\ e.off => Load(e.ty, mem, Local(e.ix)) = e.val
        /\ e.const /\ ~e.hl =>
             e.val = IF e.label # "none" THEN LabelAddr[e.label] ELSE W(e.ival)

\* The statement finds the value of the expression where it looks for it: in
\* HL, or converted to char in A.
ValueDelivered ==
  mode = "done" /\ Clean =>
    /\ goal = "hl" => HL(reg) = Promoted(res)
    /\ goal = "a" => reg.a = Lo(Promoted(res))

\* Memory is what C says it is, whenever the parser is between two steps.
MemoryAgrees == Clean => mem = cmem

\* A callee finds in its slots the arguments of the call, in order and
\* converted to its parameters.
ArgumentsPassed == Clean => call.got = call.want

(* What the repository says without the generator's restrictions           *)

\* parse.c:791 "For bring-up: only handle + for ints": an int expression of
\* names, calls and + is computed as C says.
PlusOfInts == mode = "done" /\ ~cub /\ ~err /\ goal = "hl" => HL(reg) = Promoted(res)
=============================================================================
