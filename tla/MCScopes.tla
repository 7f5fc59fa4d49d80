------------------------------ MODULE MCScopes ------------------------------
(***************************************************************************)
(* Inputs for Scopes: each starts where its words meet what they are for.  *)
(***************************************************************************)
EXTENDS Scopes

MCNames == {"T", "f", "x"}
Marks == {"(", ")", "{", "}", ";"}

\* a file from its first token on
File == [start |-> <<>>, more |-> 6,
         words |-> {"T", "f", "typedef", "int", "void", "*", ",", "static"} \cup Marks]
\* a body where T is a type and x a parameter
Body == [start |-> <<"typedef", "int", "T", ";", "int", "f", "(", "int", "x", ")", "{">>,
         more |-> 7, words |-> {"T", "x", "typedef", "int", "="} \cup Marks]
Statements == [start |-> <<"int", "f", "(", ")", "{">>, more |-> 6,
               words |-> {"x", "number", "while", "if", "else", "return", ",", "static"}
                         \cup Marks]
MCInputs == {File, Body, Statements}
=============================================================================
