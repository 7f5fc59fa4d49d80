--------------------------- MODULE MCExprCodegen ---------------------------
(***************************************************************************)
(* A small machine for ExprCodegen: 4 values per byte, 16 addresses, and a *)
(* frame whose near locals are within (ix+d) and whose far ones are not.   *)
(***************************************************************************)
EXTENDS ExprCodegen, TLC

MCByte == 4
MCReach == 5
MCFramePtr == 9

MCVars == {"c", "x", "p", "y", "d", "q"}
MCVarType == [c |-> <<"char">>, x |-> Int16, p |-> PtrTo(Int16),
              y |-> Int16, d |-> <<"char">>, q |-> PtrTo(<<"char">>)]
\* c, x, p and the parameter q are within reach; y and d are not
MCVarOff == [c |-> -1, x |-> -3, p |-> -5, y |-> -7, d |-> -8, q |-> 4]

MCFuncs == {"f", "g", "h", "v"}
MCSig ==
  [f |-> [ret |-> Int16, params |-> <<Int16, <<"char">>>>, proto |-> TRUE],
   g |-> [ret |-> <<"char">>, params |-> <<<<"char">>>>, proto |-> TRUE],
   h |-> [ret |-> Int16, params |-> <<>>, proto |-> FALSE],
   v |-> [ret |-> <<"void">>, params |-> <<>>, proto |-> TRUE]]
MCLabelAddr == [f |-> 9, g |-> 10, h |-> 11, v |-> 14, str |-> 0]

\* c = 3, x = 6, p = &x, y = 13, d = 2, q = &c, "str" = {1, 0}
MCInitMem == 0 :> 1 @@ 1 :> 2 @@ 2 :> 1 @@ 3 :> 3 @@ 4 :> 2 @@ 5 :> 1 @@ 6 :> 2
             @@ 7 :> 1 @@ 8 :> 3 @@ 9 :> 0 @@ 10 :> 0 @@ 11 :> 0 @@ 12 :> 0
             @@ 13 :> 2 @@ 14 :> 0 @@ 15 :> 0

Ops(S) == {T(k) : k \in S}
Ids(S) == {Id(v) : v \in S}

\* values of both widths, near and far, through pointers and not: converted,
\* added, compared and assigned by (ix+d) and by saved addresses
ValueTokens == Ids({"c", "d", "x", "p", "q"}) \cup {Num(7)}
               \cup Ops({"*", "&", "=", "+", "=="})
\* nested calls with two, one and no parameters, of int and char
CallTokens == Ids({"f", "g", "h", "y"}) \cup {Num(7)} \cup Ops({"=", "+", "(", ")", ","})
\* everything else the parser accepts, drops or refuses
OtherTokens == Ids({"x", "c", "v"}) \cup {T("sizeof"), T("str"), TypeName("int"), TypeName("void")}
               \cup Ops({"*", "&", "-", "&&", "==", "(", ")", "!"})

\* the smallest alphabet of the disagreement
PlusTokens == Ids({"h", "x"}) \cup {Num(1)} \cup Ops({"+", "(", ")"})
=============================================================================
