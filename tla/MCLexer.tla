------------------------------- MODULE MCLexer -------------------------------
(***************************************************************************)
(* Files for Lexer, each of the characters that matter to one another.     *)
(***************************************************************************)
EXTENDS Lexer

Comments == [chars |-> {"/", "*", "\n", " ", "a", "="}, most |-> 6]
Words == [chars |-> {"a", "i", "f", "0", "1", "x", "_", " "}, most |-> 5]
Numbers == [chars |-> {"0", "1", "7", "9", "x", "f", "u", "-"}, most |-> 5]
Literals == [chars |-> {"\"", "'", "\\", "n", "@"}, most |-> 6]
Operators == [chars |-> {"<", ">", "=", "-", "&", "|", "!", "/", "+", "\n", "@"}, most |-> 4]
MCSources == {Comments, Words, Numbers, Literals, Operators}
MCKeywords == {<<"i", "f">>}
=============================================================================
