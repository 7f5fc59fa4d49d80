------------------------------- MODULE CBody -------------------------------
(***************************************************************************)
(* What C promises about a function body: an abstract machine that reads   *)
(* the body item by item and then executes it by its block structure, with *)
(* an environment of nested scopes.  There is no code, no label, no stack  *)
(* and no address here; Frame is shown to implement this.                  *)
(*                                                                         *)
(* Items are [k, v, e]: "decl" v = e, "set" v = e, "call" (v), "ret" e,    *)
(* "empty", "{" and "}", "if" v ... "else" ... "fi", "while" v ... "od".   *)
(***************************************************************************)
EXTENDS Naturals, Sequences, FiniteSets, FiniteSetsExt

CONSTANTS
  Items,      \* the items a body is made of
  Lits,       \* the literals, by name
  Globals,    \* names declared outside the function
  Params,     \* its parameters, in order
  Cells,      \* the values a variable may hold
  Junk        \* an indeterminate value

VARIABLES
  prog,       \* the items read so far
  phase,      \* "read", "run", "stop"
  at,         \* the item to execute
  env,        \* globals, parameters, then one scope per open block
  passed,     \* what the last call was given
  result      \* what the function returns

cvars == <<prog, phase, at, env, passed, result>>

Init ==
  /\ Len(prog) = 1 /\ phase = "read" /\ at = 1
  /\ Len(env) = 2
  /\ env[1] \in [Globals -> Cells]
  /\ env[2] \in [{Params[i] : i \in DOMAIN Params} -> Cells]
  /\ passed = Junk /\ result = Junk

\* the body grows by one item; the last one starts the function
Read ==
  /\ phase = "read" /\ phase' \in {"read", "run"}
  /\ \E i \in Items : prog' = Append(prog, i)
  /\ UNCHANGED <<at, env, passed, result>>

-----------------------------------------------------------------------------
(* The structure of the body *)

Is(i, kinds) == i \in DOMAIN prog /\ prog[i].k \in kinds
Nest(i) == Cardinality({j \in 1..(i - 1) : Is(j, {"if", "while"})})
             - Cardinality({j \in 1..(i - 1) : Is(j, {"fi", "od"})})
\* the end of the if or while at i, its else, and the while an od belongs to
EndOf(i) == Min({j \in (i + 1)..Len(prog) : Is(j, {"fi", "od"}) /\ Nest(j) = Nest(i) + 1})
ElseOf(i) == {j \in (i + 1)..EndOf(i) : Is(j, {"else"}) /\ Nest(j) = Nest(i) + 1}
WhileOf(i) == Max({j \in 1..(i - 1) : Is(j, {"while"}) /\ Nest(j) = Nest(i) - 1})

AfterFalse(i) ==
  IF prog[i].k = "while" THEN EndOf(i) + 1
  ELSE IF ElseOf(i) = {} THEN EndOf(i) ELSE Min(ElseOf(i)) + 1

-----------------------------------------------------------------------------
(* Execution *)

ScopeOf(v) == Max({i \in DOMAIN env : v \in DOMAIN env[i]})
Val(e) == IF e \in DOMAIN Lits THEN Lits[e] ELSE env[ScopeOf(e)][e]
\* "none": no initializer, nothing returned
MayBe(e) == IF e = "none" THEN Cells ELSE {Val(e)}
Bind(scope, v, x) == [n \in DOMAIN scope \cup {v} |-> IF n = v THEN x ELSE scope[n]]

Here(k) == phase = "run" /\ Is(at, {k})
Item == prog[at]

Declare ==
  /\ Here("decl") /\ at' = at + 1
  /\ \E x \in MayBe(Item.e) : env' = [env EXCEPT ![Len(env)] = Bind(@, Item.v, x)]
  /\ UNCHANGED <<prog, phase, passed, result>>

Assign ==
  /\ Here("set") /\ at' = at + 1
  /\ env' = [env EXCEPT ![ScopeOf(Item.v)][Item.v] = Val(Item.e)]
  /\ UNCHANGED <<prog, phase, passed, result>>

Call ==
  /\ Here("call") /\ at' = at + 1
  /\ passed' = Val(Item.v)
  /\ UNCHANGED <<prog, phase, env, result>>

\* a test of an indeterminate value may go either way
Test ==
  /\ Here("if") \/ Here("while")
  /\ \/ Val(Item.v) # 0 /\ at' = at + 1
     \/ Val(Item.v) \in {0, Junk} /\ at' = AfterFalse(at)
  /\ UNCHANGED <<prog, phase, env, passed, result>>

Pass ==
  /\ \/ (Here("empty") \/ Here("fi")) /\ at' = at + 1
     \/ Here("else") /\ at' = Min({j \in at..Len(prog) :
                                     Is(j, {"fi"}) /\ Nest(j) = Nest(at)})
     \/ Here("od") /\ at' = WhileOf(at)
  /\ UNCHANGED <<prog, phase, env, passed, result>>

Open ==
  /\ Here("{") /\ at' = at + 1
  /\ env' = Append(env, <<>>)
  /\ UNCHANGED <<prog, phase, passed, result>>

\* the end of the body returns nothing in particular
Close ==
  /\ Here("}") /\ at' = at + 1
  /\ env' = SubSeq(env, 1, Len(env) - 1)
  /\ IF at = Len(prog) THEN result' \in Cells ELSE UNCHANGED result
  /\ UNCHANGED <<prog, phase, passed>>

Return ==
  /\ Here("ret") /\ at' = Len(prog) + 1
  /\ env' = SubSeq(env, 1, 2)
  /\ result' \in MayBe(Item.e)
  /\ UNCHANGED <<prog, phase, passed>>

Finish ==
  /\ phase = "run" /\ at = Len(prog) + 1
  /\ phase' = "stop"
  /\ UNCHANGED <<prog, at, env, passed, result>>

Next == \/ Read \/ Declare \/ Assign \/ Call \/ Test \/ Pass
        \/ Open \/ Close \/ Return \/ Finish

Spec == Init /\ [][Next]_cvars
=============================================================================
