------------------------------ MODULE MCFrame ------------------------------
(***************************************************************************)
(* Small functions for Frame: one parameter, two names to declare, a stack *)
(* of which the third and the deeper words of a body are out of (ix+d).    *)
(***************************************************************************)
EXTENDS Frame

MCParams == <<"p">>
MCLits == [zero |-> 0, one |-> 1]

Decl(v, e) == [k |-> "decl", v |-> v, e |-> e]
Set(v, e) == [k |-> "set", v |-> v, e |-> e]
CallWith(v) == [k |-> "call", v |-> v, e |-> "none"]
Ret(e) == [k |-> "ret", v |-> "none", e |-> e]

\* near and far locals, shadowed, stored, passed and returned, in nested tests
\* and loops around a parameter that changes
BodySimple == {Decl("a", "p"), Decl("b", "one"), Set("b", "a"),
               Set("p", "zero"), CallWith("b"), Ret("b")}
\* a local of a branch before a local of a block
BranchSimple == {Decl("a", "none"), Decl("b", "one"), CallWith("b")}
GlobalSimple == {Set("g", "one"), Ret("none")}
=============================================================================
