------------------------------- MODULE Frame -------------------------------
(***************************************************************************)
(* Functions and statements of cc1 (cc1/src/parse.c, cc1/src/z80_cg.c):    *)
(* the statement parser reads a body item by item and appends instructions *)
(* to one straight list; labels, frame offsets and scopes exist only while *)
(* it reads.  Then the finished function is called and its code runs.      *)
(*                                                                         *)
(* Compile time and run time meet only in the list: the parser decides at  *)
(* one place of the text what offset a name has, the machine reaches that  *)
(* place or does not.  Every instruction carries the item it was emitted   *)
(* for and the scopes of that place, as the line and scope tables of a     *)
(* debugger would; the machine does not look at them.                      *)
(*                                                                         *)
(* Every variable is an int; expressions are a name or a literal (the      *)
(* module ExprCodegen has the rest).  Memory is words at even addresses.   *)
(***************************************************************************)
EXTENDS Integers, Sequences, FiniteSets, FiniteSetsExt

CONSTANTS
  Params,      \* the names of the parameters, in order

  Globals,     \* names declared at file scope
  Lits,        \* literals: a function from names to values
  Simple,      \* the declarations and statements a body may use
  Conds,       \* the names it may test
  MaxItems,    \* bound on the statements and declarations of a body
  Conditional, \* may a body declare inside an if or a while
  Reach,       \* (ix+d) takes -Reach <= d < Reach
  Size,        \* size of memory in bytes
  Base,        \* what ix holds in the function
  CallerIX, RetAddr, Junk

ASSUME SizeAssumption == Size \in Nat /\ Size % 2 = 0 /\ Base \in Nat /\ Base % 2 = 0
ASSUME JunkAssumption == Junk \notin Int /\ RetAddr \notin Int /\ RetAddr # Junk
\* the caller's frame begins above the parameters
ASSUME FrameAssumption == Params \in Seq(STRING) /\ Base + 4 + 2 * Len(Params) < Size
\* below them there is room for the locals of a body and two words more
ASSUME StackAssumption == MaxItems \in Nat \ {0} /\ 2 * MaxItems + 2 <= Base
ASSUME LitsAssumption == \A e \in DOMAIN Lits : Lits[e] \in (-Size)..(2 * Size)
ASSUME ConditionalAssumption == Conditional \in BOOLEAN

VARIABLES
  prog,    \* the items read so far
  code,    \* the instructions emitted so far
  ctl,     \* the open statements of the parser, innermost last
  mode,    \* "stmt": a statement is due; "end": one has ended
  label,   \* e->next_label_id
  off,     \* fn->next_local_off
  scopes,  \* symbol table: from names to offsets, innermost last
  phase,   \* "read", "run", "stop"
  pc, sp, ix, hl, de, mem,
  passed   \* the argument the last callee found

parser  == <<prog, code, ctl, mode, label, off, scopes>>
machine == <<pc, sp, ix, hl, de, mem>>
vars    == <<parser, phase, machine, passed>>

-----------------------------------------------------------------------------
(* Emission *)

Pos == Len(prog) + 1
I(op, n) == [op |-> op, n |-> n]
\* the instructions of the item at position i, where the names are s
At(ops, i, s) == [j \in DOMAIN ops |-> [op |-> ops[j].op, n |-> ops[j].n, at |-> i, in |-> s]]
Item(kind, var, exp) == [k |-> kind, v |-> var, e |-> exp]
Read(item, emitted) == prog' = Append(prog, item) /\ code' = code \o emitted
Mark == <<I("mark", 0)>>

InReach(o) == o >= -Reach /\ o + 1 < Reach
LoadLocal(o) == IF InReach(o) THEN <<I("ld", o)>> ELSE <<I("lea", o), I("ldind", 0)>>

\* a mutant: the outermost declaration is found
OutermostScope(s, v) == Min({i \in DOMAIN s : v \in DOMAIN s[i]})
ScopeOf(s, v) == Max({i \in DOMAIN s : v \in DOMAIN s[i]})
OffsetOf(s, v) == s[ScopeOf(s, v)][v]
Visible(s, v) == \E i \in DOMAIN s : v \in DOMAIN s[i]
Bind(s, v, o) ==
  [s EXCEPT ![Len(s)] = [n \in DOMAIN @ \cup {v} |-> IF n = v THEN o ELSE @[n]]]

Usable(e) == e \in DOMAIN Lits \/ Visible(scopes, e)
Eval(s, e) == IF e \in DOMAIN Lits THEN <<I("imm", Lits[e])>> ELSE LoadLocal(OffsetOf(s, e))

\* the store of an initializer, and of an assignment around its right side
InitStore(o) == IF InReach(o) THEN <<I("st", o)>>
                ELSE <<I("push", 0), I("lea", o), I("popde", 0), I("stde", 0)>>
AssignTo(o, value) == IF InReach(o) THEN value \o <<I("st", o)>>
                      ELSE <<I("lea", o), I("push", 0)>> \o value \o <<I("popde", 0), I("sthl", 0)>>

Prologue == <<I("pushix", 0), I("ldix", 0)>>
\* a mutant: the locals stay on the stack
EpilogueKeepsSP(exit) == <<I("label", exit), I("popix", 0), I("ret", 0)>>
Epilogue(exit) == <<I("label", exit), I("ldsp", 0), I("popix", 0), I("ret", 0)>>

\* cc1_define_function up to its body, and the "{" of the body
ParamScope == [v \in {Params[i] : i \in DOMAIN Params} |->
                 4 + 2 * ((CHOOSE i \in DOMAIN Params : Params[i] = v) - 1)]
GlobalScope == [v \in Globals |-> 0]
ExitLabel == 1
NoFrame == [k |-> "block", l1 |-> 0, l2 |-> 0, decls |-> FALSE]

Init ==
  /\ prog = <<Item("{", "none", "none")>>
  /\ code = At(Prologue \o Mark, 1, <<GlobalScope, ParamScope>>)
  /\ ctl = <<[NoFrame EXCEPT !.decls = TRUE]>> /\ mode = "end"
  /\ label = ExitLabel + 1 /\ off = 0
  /\ scopes = <<GlobalScope, ParamScope, <<>>>>
  /\ phase = "read"
  /\ pc = 1 /\ sp = Base + 2 /\ ix = CallerIX /\ hl = Junk /\ de = Junk
  /\ \E args \in [DOMAIN Params -> {Lits[e] : e \in DOMAIN Lits}] :
       mem = [a \in {2 * n : n \in 0..(Size \div 2 - 1)} |->
                IF a = Base + 2 THEN RetAddr
                ELSE IF (a - Base - 2) \div 2 \in DOMAIN Params /\ a > Base + 2
                THEN args[(a - Base - 2) \div 2] ELSE Junk]
  /\ passed = Junk

-----------------------------------------------------------------------------
(* The statement parser *)

Top == ctl[Len(ctl)]
Below == SubSeq(ctl, 1, Len(ctl) - 1)
Reading(kind) == phase = "read" /\ Top.k = kind
Started == {i \in DOMAIN prog : prog[i].k \notin {"}", "else", "fi", "od"}}
Room == Cardinality(Started) < MaxItems

\* a statement starts where one is due, or in a block after another
Statement == /\ phase = "read"
             /\ mode = "stmt" \/ Top.k = "block"
             /\ mode = "stmt" \/ Room
\* in C90 the declarations of a block end with its first statement
Opened == IF mode = "stmt" THEN ctl
          ELSE Append(Below, [Top EXCEPT !.decls = FALSE])

InBranch == \E i \in DOMAIN ctl : ctl[i].k # "block"

\* a mutant: a char local takes one byte
ByteSlot == 1
\* a local of one byte takes a slot of two
SlotSize == 2
\* a local: SP moves here, its offset is fixed here
Declare ==
  /\ Reading("block") /\ mode = "end" /\ Room
  /\ Top.decls /\ (Conditional \/ ~InBranch)
  /\ \E d \in {s \in Simple : s.k = "decl"} :
       LET o == off - SlotSize
           s == Bind(scopes, d.v, o)
       IN /\ d.v \notin DOMAIN scopes[Len(scopes)]
          /\ Len(ctl) > 1 \/ d.v \notin DOMAIN ParamScope
          /\ d.e = "none" \/ (Usable(d.e) /\ d.e # d.v)
          /\ off' = o /\ scopes' = s
          /\ Read(d, At(<<I("alloc", SlotSize)>>
                        \o (IF d.e = "none" THEN <<>> ELSE Eval(s, d.e) \o InitStore(o)),
                        Pos, scopes))
  /\ UNCHANGED <<ctl, mode, label, phase, machine, passed>>

\* v = e;   f(v);   return;   return e;   and ; where a statement is due
Assign == \E s \in {x \in Simple : x.k = "set"} :
  /\ Visible(scopes, s.v) /\ Usable(s.e)
  /\ Read(s, At(AssignTo(OffsetOf(scopes, s.v), Eval(scopes, s.e)), Pos, scopes))

Call == \E s \in {x \in Simple : x.k = "call"} :
  /\ Usable(s.v)
  /\ Read(s, At(Eval(scopes, s.v) \o <<I("push", 0), I("call", 0)>>, Pos, scopes)
             \o At(<<I("pop", 0)>>, Pos + 1, scopes))

Return == \E s \in {x \in Simple : x.k = "ret"} :
  /\ s.e = "none" \/ Usable(s.e)
  /\ Read(s, At((IF s.e = "none" THEN <<>> ELSE Eval(scopes, s.e))
                \o <<I("jp", ExitLabel)>>, Pos, scopes))

Empty == Read(Item("empty", "none", "none"), At(Mark, Pos, scopes))

SimpleStatement ==
  /\ Statement /\ mode' = "end"
  /\ (Room /\ (Assign \/ Call \/ Return)) \/ (mode = "stmt" /\ Empty)
  /\ ctl' = Opened
  /\ UNCHANGED <<label, off, scopes, phase, machine, passed>>

OpenBlock ==
  /\ Statement /\ Room
  /\ Read(Item("{", "none", "none"), At(Mark, Pos, scopes))
  /\ ctl' = Append(Opened, [NoFrame EXCEPT !.decls = TRUE])
  /\ scopes' = Append(scopes, <<>>) /\ mode' = "end"
  /\ UNCHANGED <<label, off, phase, machine, passed>>

\* a mutant: a block gives its space back, the offsets go on below it
GiveSpaceBack(s) == <<I("alloc", -2 * Cardinality(DOMAIN s[Len(s)]))>> \o Mark
\* a block keeps its space until the function returns
BlockEnd(s) == Mark

\* "}" of a block
CloseBlock ==
  /\ Reading("block") /\ mode = "end" /\ Len(ctl) > 1
  /\ Read(Item("}", "none", "none"), At(BlockEnd(scopes), Pos, scopes))
  /\ ctl' = Below /\ scopes' = SubSeq(scopes, 1, Len(scopes) - 1)
  /\ UNCHANGED <<mode, label, off, phase, machine, passed>>

\* "}" of the body: the epilogue, and only the global scope is left
CloseBody ==
  /\ Reading("block") /\ mode = "end" /\ Len(ctl) = 1
  /\ Read(Item("}", "none", "none"),
          At(Mark, Pos, scopes) \o At(Epilogue(ExitLabel), Pos + 1, SubSeq(scopes, 1, 2)))
  /\ ctl' = Below /\ scopes' = <<GlobalScope>>
  /\ phase' = "run"
  /\ UNCHANGED <<mode, label, off, machine, passed>>

\* a mutant: the counter moves on once
OneLabel == [l1 |-> label, l2 |-> label + 1, next |-> label + 1]
\* cc1_emit_new_local_label, twice
TwoLabels == [l1 |-> label, l2 |-> label + 1, next |-> label + 2]

While ==
  LET l == TwoLabels
  IN /\ Statement /\ Room
     /\ \E c \in {x \in Conds : Usable(x)} :
          Read(Item("while", c, "none"),
               At(<<I("label", l.l1)>> \o Eval(scopes, c) \o <<I("jz", l.l2)>>, Pos, scopes))
     /\ label' = l.next
     /\ ctl' = Append(Opened, [NoFrame EXCEPT !.k = "while", !.l1 = l.l1, !.l2 = l.l2])
     /\ mode' = "stmt"
     /\ UNCHANGED <<off, scopes, phase, machine, passed>>

EndWhile ==
  /\ Reading("while") /\ mode = "end"
  /\ Read(Item("od", "none", "none"),
          At(<<I("jp", Top.l1)>>, Pos, scopes) \o At(<<I("label", Top.l2)>>, Pos + 1, scopes))
  /\ ctl' = Below
  /\ UNCHANGED <<mode, label, off, scopes, phase, machine, passed>>

If ==
  LET l == TwoLabels
  IN /\ Statement /\ Room
     /\ \E c \in {x \in Conds : Usable(x)} :
          Read(Item("if", c, "none"), At(Eval(scopes, c) \o <<I("jz", l.l1)>>, Pos, scopes))
     /\ label' = l.next
     /\ ctl' = Append(Opened, [NoFrame EXCEPT !.k = "then", !.l1 = l.l1, !.l2 = l.l2])
     /\ mode' = "stmt"
     /\ UNCHANGED <<off, scopes, phase, machine, passed>>

\* a mutant: the then branch falls into the else branch
FallIntoElse == Mark
\* the then branch has ended: what its code does before lelse
SkipElse == <<I("jp", Top.l2)>>

\* cc1_accept(TOK_KW_ELSE) says yes
EndThenElse ==
  /\ Reading("then") /\ mode = "end" /\ Room
  /\ Read(Item("else", "none", "none"),
          At(SkipElse, Pos, scopes) \o At(<<I("label", Top.l1)>>, Pos + 1, scopes))
  /\ ctl' = Append(Below, [Top EXCEPT !.k = "else"])
  /\ mode' = "stmt"
  /\ UNCHANGED <<label, off, scopes, phase, machine, passed>>

\* and no: lend follows at once, or after the else branch
EndThen ==
  /\ Reading("then") /\ mode = "end"
  /\ Read(Item("fi", "none", "none"),
          At(SkipElse \o <<I("label", Top.l1), I("label", Top.l2)>>, Pos, scopes))
  /\ ctl' = Below
  /\ UNCHANGED <<mode, label, off, scopes, phase, machine, passed>>

EndElse ==
  /\ Reading("else") /\ mode = "end"
  /\ Read(Item("fi", "none", "none"), At(<<I("label", Top.l2)>>, Pos, scopes))
  /\ ctl' = Below
  /\ UNCHANGED <<mode, label, off, scopes, phase, machine, passed>>

Compile == \/ Declare \/ SimpleStatement \/ OpenBlock \/ CloseBlock \/ CloseBody
           \/ While \/ EndWhile \/ If \/ EndThenElse \/ EndThen \/ EndElse

-----------------------------------------------------------------------------
(* The machine *)

Op(ops) == phase = "run" /\ code[pc].op \in ops
N == code[pc].n
Onward == pc' = pc + 1
A(n) == n % Size
IsAddr(w) == w \in Int /\ A(w) \in DOMAIN mem
Cell(w) == IF IsAddr(w) THEN mem[A(w)] ELSE Junk
\* a store through something that is no address may hit anything
Put(w, x) == IF IsAddr(w) THEN [mem EXCEPT ![A(w)] = x] ELSE [c \in DOMAIN mem |-> Junk]
IxD(n) == ix + n

LoadHL ==
  /\ Op({"imm", "ld", "ldind"}) /\ Onward
  /\ hl' = CASE code[pc].op = "imm" -> N
             [] code[pc].op = "ld" -> Cell(IxD(N))
             [] code[pc].op = "ldind" -> Cell(hl)
  /\ UNCHANGED <<parser, phase, sp, ix, de, mem, passed>>

\* push ix; pop hl; ld de, N; add hl, de
LoadAddress ==
  /\ Op({"lea"}) /\ Onward
  /\ mem' = Put(sp - 2, ix) /\ hl' = IxD(N) /\ de' = N
  /\ UNCHANGED <<parser, phase, sp, ix, passed>>

StoreWord ==
  /\ Op({"st", "sthl", "stde"}) /\ Onward
  /\ mem' = CASE code[pc].op = "st" -> Put(IxD(N), hl)
              [] code[pc].op = "sthl" -> Put(de, hl)
              [] code[pc].op = "stde" -> Put(hl, de)
  /\ UNCHANGED <<parser, phase, sp, ix, hl, de, passed>>

Push ==
  /\ Op({"push", "pushix"}) /\ Onward
  /\ sp' = A(sp - 2)
  /\ mem' = Put(sp - 2, IF code[pc].op = "push" THEN hl ELSE ix)
  /\ UNCHANGED <<parser, phase, ix, hl, de, passed>>

Pop ==
  /\ Op({"pop", "popde", "popix"}) /\ Onward
  /\ sp' = A(sp + 2)
  /\ de' = IF code[pc].op = "popde" THEN Cell(sp) ELSE de
  /\ ix' = IF code[pc].op = "popix" THEN Cell(sp) ELSE ix
  /\ UNCHANGED <<parser, phase, hl, mem, passed>>

Alloc ==
  /\ Op({"alloc"}) /\ Onward
  /\ sp' = A(sp - N) /\ hl' = A(sp - N)
  /\ UNCHANGED <<parser, phase, ix, de, mem, passed>>

LinkFrame ==
  /\ Op({"ldix", "ldsp"}) /\ Onward
  /\ ix' = IF code[pc].op = "ldix" THEN sp ELSE ix
  /\ sp' = IF code[pc].op = "ldsp" THEN ix ELSE sp
  /\ UNCHANGED <<parser, phase, hl, de, mem, passed>>

\* The callee finds its argument, may use it and what is below as it likes,
\* and comes back with its own values in HL and DE.
CallOut ==
  /\ Op({"call"}) /\ Onward
  /\ passed' = Cell(sp)
  /\ mem' = [a \in DOMAIN mem |-> IF a <= sp THEN Junk ELSE mem[a]]
  /\ hl' = Junk /\ de' = Junk
  /\ UNCHANGED <<parser, phase, sp, ix>>

Target(l) == CHOOSE i \in DOMAIN code : code[i].op = "label" /\ code[i].n = l

Jump ==
  /\ Op({"jp", "jz"})
  /\ code[pc].op = "jp" \/ hl \in {0, Junk}
  /\ \E i \in DOMAIN code : code[i].op = "label" /\ code[i].n = N
  /\ pc' = Target(N)
  /\ UNCHANGED <<parser, phase, sp, ix, hl, de, mem, passed>>

NoJump ==
  /\ \/ Op({"label", "mark"}) \/ (Op({"jz"}) /\ hl # 0)
  /\ Onward
  /\ UNCHANGED <<parser, phase, sp, ix, hl, de, mem, passed>>

BackToCaller ==
  /\ Op({"ret"})
  /\ phase' = "stop"
  /\ pc' = Cell(sp) /\ sp' = A(sp + 2)
  /\ UNCHANGED <<parser, ix, hl, de, mem, passed>>

Run == \/ LoadHL \/ LoadAddress \/ StoreWord \/ Push \/ Pop \/ Alloc \/ LinkFrame
       \/ CallOut \/ Jump \/ NoJump \/ BackToCaller

Done == phase = "stop" /\ UNCHANGED vars
Next == Compile \/ Run \/ Done
\* one process compiles, one processor runs: each takes its next step
Spec == Init /\ [][Next]_vars /\ WF_vars(Compile \/ Run)

-----------------------------------------------------------------------------
(* Properties *)

Words == {2 * n : n \in 0..(Size \div 2 - 1)}
Cells == (-Size)..(2 * Size) \cup {Junk, RetAddr, CallerIX}

\* The type invariant: every word of memory and every register holds a value,
\* a frame offset is even, and the open statements have their shape.
TypeOK ==
  /\ phase \in {"read", "run", "stop"} /\ mode \in {"stmt", "end"}
  /\ \A i \in DOMAIN ctl : ctl[i].k \in {"block", "while", "then", "else"}
  /\ label \in Nat \ {0} /\ off <= 0 /\ off % 2 = 0
  /\ DOMAIN mem = Words /\ \A a \in Words : mem[a] \in Cells
  /\ pc \in DOMAIN code \cup Cells /\ sp \in Words
  /\ ix \in Cells /\ hl \in Cells /\ de \in Cells

LabelAt(l) == {i \in DOMAIN code : code[i].op = "label" /\ code[i].n = l}
JumpsTo == {code[i].n : i \in {j \in DOMAIN code : code[j].op \in {"jp", "jz"}}}
\* the labels that open statements, and the function, still have to define
Owed == {ctl[i].l1 : i \in {j \in DOMAIN ctl : ctl[j].k = "then"}}
        \cup {ctl[i].l2 : i \in {j \in DOMAIN ctl : ctl[j].k # "block"}}
        \cup (IF phase = "read" THEN {ExitLabel} ELSE {})

\* One counter serves every if, while and function through all the recursive
\* calls of the parser: no label is ever defined twice, and one that a jump
\* needs is defined or owed by exactly one open statement.
LabelsPaired ==
  /\ \A i, j \in DOMAIN code :
       code[i].op = "label" /\ code[j].op = "label" /\ code[i].n = code[j].n => i = j
  /\ \A l \in JumpsTo : (LabelAt(l) = {}) <=> l \in Owed
  /\ \A i, j \in DOMAIN ctl : i # j /\ ctl[i].k # "block" /\ ctl[j].k # "block"
       => {ctl[i].l1, ctl[i].l2} \cap {ctl[j].l1, ctl[j].l2} = {}

Where == IF phase = "stop"
           THEN [op |-> "none", n |-> 0, at |-> Pos, in |-> <<GlobalScope, ParamScope>>]
           ELSE code[pc]
SlotsIn(s) == UNION {{s[i][v] : v \in DOMAIN s[i]} : i \in 3..Len(s)}

\* Wherever control comes from, SP has no local in scope below it: what a
\* push or a callee writes is nobody's variable.
LocalsAboveSP ==
  phase = "run" /\ ix = Base => \A o \in SlotsIn(Where.in) : Base + o >= sp

\* The function comes back to its caller with the caller's IX, its own return
\* address taken from the stack and nothing else left on it.
ReturnsToCaller == phase = "stop" => pc = RetAddr /\ ix = CallerIX /\ sp = Base + 4

\* What the program is in C's terms: control is at the item the next
\* instruction belongs to, a variable is the word at its offset from the
\* frame, and once control has reached the exit the result is in HL.
C == INSTANCE CBody WITH
       Items  <- Simple \cup [k : {"{", "}", "else", "fi", "od", "empty"}, v : {"none"}, e : {"none"}]
                        \cup [k : {"if", "while"}, v : Conds, e : {"none"}],
       at     <- Where.at,
       env    <- [i \in DOMAIN Where.in |->
                   [v \in DOMAIN Where.in[i] |-> Cell(Base + Where.in[i][v])]],
       result <- IF Where.at = Pos THEN hl ELSE Junk

\* Compiling a body and running it is one of the executions C allows for it:
\* same tests, same calls with the same arguments, same result.
Implements == C!Spec
=============================================================================
