------------------------------- MODULE Scopes -------------------------------
(***************************************************************************)
(* Declarations, statements and scopes of cc1 (cc1/src/parse.c, sym.c):    *)
(* the recursive descent over a whole translation unit, with its one token *)
(* of lookahead, the stack of scopes, and what it does about errors.  The  *)
(* lexer asks the scopes, when it reads a name, whether the name is a type *)
(* there; the parser looks names up and declares them one token later.     *)
(*                                                                         *)
(* Expressions are names, numbers, parentheses and calls (ExprCodegen has  *)
(* the rest); no code is emitted here (see ExprCodegen and Frame).         *)
(***************************************************************************)
EXTENDS Integers, Sequences, FiniteSets, FiniteSetsExt

CONSTANTS
  Names,      \* the identifiers
  Inputs      \* inputs: how the text starts, then any more of these words

\* what kind a name is, the lexer says and not the text
ASSUME InputAssumption ==
  \A i \in Inputs : /\ i.more \in Nat /\ i.start \in Seq(STRING)
                    /\ i.words \cap {"ident", "typename"} = {}
                    /\ \A j \in DOMAIN i.start : i.start[j] \notin {"ident", "typename"}
ASSUME NamesAssumption == "none" \notin Names

VARIABLES
  tok,      \* cc->tok: kind k and, for a name, its text n
  input,    \* one of Inputs
  pos,      \* how many tokens were read
  ctl,      \* what the active calls of the parser still have to do, next one last
  decls,    \* the declarations being parsed, innermost last
  scopes,   \* the symbol table, innermost scope last
  label,    \* the expression just parsed is a label (out->label)
  err,      \* cc->diag.had_error
  hist,     \* the blocks and declarations of the text so far
  nest      \* the braces and parentheses of the text still to be closed

parser == <<ctl, decls, scopes, label, err>>
vars == <<tok, input, pos, parser, hist, nest>>

-----------------------------------------------------------------------------
(* Types and symbols *)

\* a base type, "ptr", "func" with its parameters, or NULL
Type(kind) == [k |-> kind, ps |-> <<>>]
Func(params) == [k |-> "func", ps |-> params]
NullType == Type("null")

\* a symbol; at is where in the text its name was declared
Sym(kind, type, at) == [k |-> kind, type |-> type, at |-> at]
NoSym == Sym("none", NullType, 0)

Bind(s, n, x) ==
  IF n = "none" THEN s
  ELSE [s EXCEPT ![Len(s)] = [m \in DOMAIN @ \cup {n} |-> IF m = n THEN x ELSE @[m]]]
Push(s) == Append(s, <<>>)
Pop(s) == SubSeq(s, 1, Len(s) - 1)

\* a mutant: the outermost declaration is found
LookupOutermost(s, n) ==
  LET in == {i \in DOMAIN s : n \in DOMAIN s[i]}
  IN  IF in = {} THEN NoSym ELSE s[Min(in)][n]
Lookup(s, n) ==
  LET in == {i \in DOMAIN s : n \in DOMAIN s[i]}
  IN  IF in = {} THEN NoSym ELSE s[Max(in)][n]
LookupCurrent(s, n) == IF n \in DOMAIN s[Len(s)] THEN s[Len(s)][n] ELSE NoSym

-----------------------------------------------------------------------------
(* Tokens *)

Token(s, w) ==
  IF w \notin Names THEN [k |-> w, n |-> "none"]
  ELSE [k |-> IF Lookup(s, w).k = "typedef" THEN "typename" ELSE "ident", n |-> w]
EofTok == [k |-> "eof", n |-> "none"]

\* cc1_next, where s are the scopes the lexer finds
Lex(s) ==
  /\ pos' = pos + 1
  /\ IF pos < Len(input.start) THEN tok' = Token(s, input.start[pos + 1])
     ELSE \/ /\ pos < Len(input.start) + input.more /\ tok # EofTok
             /\ \E w \in input.words : tok' = Token(s, w)
          \/ tok' = EofTok
  /\ nest' = [b |-> nest.b + (IF tok.k = "{" THEN 1 ELSE IF tok.k = "}" THEN -1 ELSE 0),
              p |-> nest.p + (IF tok.k = "(" THEN 1 ELSE IF tok.k = ")" THEN -1 ELSE 0)]
  /\ UNCHANGED input
Stay == UNCHANGED <<tok, input, pos, nest>>

DeclWords == {"typedef", "extern", "static", "const", "volatile", "void", "char",
              "short", "int", "long", "signed", "unsigned", "typename"}
SpecWords == {"typedef", "extern", "const", "unsigned", "signed", "short", "int",
              "char", "void"}
TypeWords == {"unsigned", "signed", "short", "char", "void"}
Puncts == {"(", ")", "{", "}", ";"}

Top == ctl[Len(ctl)]
Doing(what) == ctl # <<>> /\ Top = what
\* the call at the top goes on with these, the last of them first
Then(rest) == ctl' = Pop(ctl) \o rest
Return == Then(<<>>)

\* a mutant: a wrong token is not reported
Unreported(k) == err
Missing(k) == err \/ tok.k # k
\* cc1_expect
Expect(k) == (IF tok.k = k THEN Lex(scopes) ELSE Stay) /\ err' = Missing(k)

NoDecl == [td |-> FALSE, saw |-> {}, type |-> NullType, name |-> "none", at |-> 0, ps |-> <<>>]
D == decls[Len(decls)]
SetD(d) == decls' = Append(Pop(decls), d)

Init ==
  /\ input \in Inputs
  /\ pos = 0 /\ tok = [k |-> "none", n |-> "none"]
  /\ ctl = <<"begin">> /\ decls = <<>> /\ scopes = << <<>> >>
  /\ label = FALSE /\ err = FALSE
  /\ hist = <<>> /\ nest = [b |-> 0, p |-> 0]

-----------------------------------------------------------------------------
(* cc1_parse_translation_unit *)

Begin ==
  /\ Doing("begin") /\ Then(<<"unit">>)
  /\ Lex(scopes)
  /\ UNCHANGED <<decls, scopes, label, err, hist>>

\* a mutant: had_error is not looked at
AtEof == tok.k = "eof"
UnitOver == tok.k = "eof" \/ err

UnitEnd ==
  /\ Doing("unit")
  /\ UnitOver \/ tok.k \notin DeclWords
  /\ err' = (err \/ ~UnitOver)
  /\ Return
  /\ Stay /\ UNCHANGED <<decls, scopes, label, hist>>

\* a declaration starts; then it becomes what the caller makes of it
StartDecl(rest) ==
  /\ ctl' = ctl \o rest \o <<"declarator", "declspec">>
  /\ decls' = Append(decls, NoDecl)
  /\ Stay /\ UNCHANGED <<scopes, label, err, hist>>

ExternalDecl ==
  /\ Doing("unit") /\ ~UnitOver /\ tok.k \in DeclWords
  /\ StartDecl(<<"external">>)

-----------------------------------------------------------------------------
(* cc1_parse_declspec *)

BaseType(saw) ==
  Type(CASE "void" \in saw -> "void"
         [] "char" \in saw -> IF "signed" \in saw THEN "schar" ELSE "uchar"
         [] "short" \in saw -> IF "unsigned" \in saw THEN "ushort" ELSE "short"
         [] OTHER -> IF "unsigned" \in saw THEN "uint" ELSE "int")

SpecWord ==
  /\ Doing("declspec") /\ tok.k \in SpecWords
  /\ SetD([D EXCEPT !.td = @ \/ tok.k = "typedef",
                    !.saw = @ \cup ({tok.k} \cap TypeWords)])
  /\ Lex(scopes)
  /\ UNCHANGED <<ctl, scopes, label, err, hist>>

\* a type name ends the specifiers, whatever came before it
SpecName ==
  /\ Doing("declspec") /\ tok.k = "typename"
  /\ LET s == Lookup(scopes, tok.n)
     IN SetD([D EXCEPT !.type = IF s.k = "typedef" THEN s.type ELSE NullType])
  /\ Return
  /\ Lex(scopes)
  /\ UNCHANGED <<scopes, label, err, hist>>

SpecEnd ==
  /\ Doing("declspec") /\ tok.k \notin SpecWords \cup {"typename"}
  /\ SetD([D EXCEPT !.type = BaseType(D.saw)])
  /\ Return
  /\ Stay /\ UNCHANGED <<scopes, label, err, hist>>

-----------------------------------------------------------------------------
(* cc1_parse_declarator *)

Star ==
  /\ Doing("declarator") /\ tok.k = "*"
  /\ SetD([D EXCEPT !.type = Type("ptr")])
  /\ Lex(scopes)
  /\ UNCHANGED <<ctl, scopes, label, err, hist>>

DeclName ==
  /\ Doing("declarator") /\ tok.k = "ident"
  /\ SetD([D EXCEPT !.name = tok.n, !.at = pos])
  /\ Then(<<"suffix">>)
  /\ Lex(scopes)
  /\ UNCHANGED <<scopes, label, err, hist>>

NoName ==
  /\ Doing("declarator") /\ tok.k \notin {"*", "ident"}
  /\ err' = TRUE
  /\ Then(<<"suffix">>)
  /\ Stay /\ UNCHANGED <<decls, scopes, label, hist>>

FuncSuffix ==
  /\ Doing("suffix") /\ tok.k = "("
  /\ Then(<<"params">>)
  /\ Lex(scopes)
  /\ UNCHANGED <<decls, scopes, label, err, hist>>

NoSuffix ==
  /\ Doing("suffix") /\ tok.k # "("
  /\ Return
  /\ Stay /\ UNCHANGED <<decls, scopes, label, err, hist>>

EmptyParams ==
  /\ Doing("params") /\ tok.k = ")"
  /\ SetD([D EXCEPT !.type = Func(<<>>)])
  /\ Return
  /\ Lex(scopes)
  /\ UNCHANGED <<scopes, label, err, hist>>

\* "void" may be all there is, or a mistake
VoidParam ==
  /\ Doing("params") /\ tok.k = "void"
  /\ Then(<<"(void)", "declspec">>)
  /\ decls' = Append(decls, NoDecl)
  /\ Stay /\ UNCHANGED <<scopes, label, err, hist>>

FirstParam ==
  /\ Doing("params") /\ tok.k \notin {")", "void"}
  /\ Then(<<"param", "declarator", "declspec">>)
  /\ decls' = Append(decls, NoDecl)
  /\ Stay /\ UNCHANGED <<scopes, label, err, hist>>

\* the declaration around D, and what becomes of it
Outer == decls[Len(decls) - 1]
\* a mutant: the parameter stays
SetBoth(d) == decls' = decls \o <<d>>
SetOuter(d) == decls' = Append(SubSeq(decls, 1, Len(decls) - 2), d)

VoidParams ==
  /\ Doing("(void)")
  /\ IF D.type.k = "void" /\ tok.k = ")"
       THEN /\ SetOuter([Outer EXCEPT !.type = Func(<<>>)])
            /\ Return
            /\ Lex(scopes) /\ UNCHANGED err
       ELSE /\ err' = TRUE
            /\ SetD(NoDecl)
            /\ Then(<<"param", "declarator", "declspec">>)
            /\ Stay
  /\ UNCHANGED <<scopes, label, hist>>

Param ==
  /\ Doing("param")
  /\ LET ps == Append(Outer.ps, [n |-> D.name, at |-> D.at])
     IN IF tok.k = ","
          THEN /\ decls' = Append(SubSeq(decls, 1, Len(decls) - 2), [Outer EXCEPT !.ps = ps])
                           \o <<NoDecl>>
               /\ Then(<<"param", "declarator", "declspec">>)
               /\ Lex(scopes) /\ UNCHANGED err
          ELSE /\ SetOuter([Outer EXCEPT !.type = Func(ps)])
               /\ Return
               /\ Expect(")")
  /\ UNCHANGED <<scopes, label, hist>>

-----------------------------------------------------------------------------
(* What becomes of a declaration *)

\* the text opens or closes a block, or declares d
Brace(b) == [ev |-> b, n |-> "none", at |-> 0, td |-> FALSE]
Def(n, at, td) == [ev |-> "def", n |-> n, at |-> at, td |-> td]
Note(d) == IF d.name = "none" THEN hist ELSE Append(hist, Def(d.name, d.at, d.td))

\* a mutant: the next token is read before the type is declared
LateTypedef(s) == scopes
\* the typedef set the next token is read with
TypedefScopes(s) == s

\* typedef: the name is declared if the ";" is there, before the next token
Typedef ==
  /\ Doing("external") \/ Doing("local")
  /\ D.td /\ (Top = "external" => D.name # "none")
  /\ IF tok.k = ";"
       THEN /\ scopes' = Bind(scopes, D.name, Sym("typedef", D.type, D.at))
            /\ hist' = Note(D)
            /\ Lex(TypedefScopes(scopes')) /\ UNCHANGED err
       ELSE err' = TRUE /\ Stay /\ UNCHANGED <<scopes, hist>>
  /\ Return /\ decls' = Pop(decls)
  /\ UNCHANGED label

NamelessDecl ==
  /\ Doing("external") /\ D.name = "none"
  /\ Return /\ decls' = Pop(decls)
  /\ Stay /\ UNCHANGED <<scopes, label, err, hist>>

IsDefinition == D.type.k = "func" /\ tok.k = "{"
\* the symbol of this name at file scope: the one that is there, or a new one
FileSym == LET s == LookupCurrent(scopes, D.name)
           IN IF s # NoSym THEN s
              ELSE Sym(IF D.type.k = "func" THEN "func" ELSE "var", D.type, D.at)

ParamScope(ps) ==
  [n \in {ps[i].n : i \in DOMAIN ps} \ {"none"} |->
     Sym("var", Type("int"), ps[Max({i \in DOMAIN ps : ps[i].n = n})].at)]

\* cc1_define_function up to its body
Define ==
  /\ Doing("external") /\ ~D.td /\ D.name # "none" /\ IsDefinition
  /\ scopes' = Append(Bind(scopes, D.name, FileSym), ParamScope(FileSym.type.ps))
  /\ hist' = Note(D) \o <<Brace("{")>>
                     \o [i \in DOMAIN D.type.ps |-> Def(D.type.ps[i].n, D.type.ps[i].at, FALSE)]
  /\ Then(<<"end of function", "compound">>) /\ decls' = Pop(decls)
  /\ Stay /\ UNCHANGED <<label, err>>

Declare ==
  /\ Doing("external") /\ ~D.td /\ D.name # "none" /\ ~IsDefinition
  /\ Expect(";")
  /\ scopes' = Bind(scopes, D.name, FileSym)
  /\ hist' = Note(D)
  /\ Return /\ decls' = Pop(decls)
  /\ UNCHANGED label

\* a mutant: the parameters stay declared
ScopesAfterBody == scopes
ScopesAfterFunction == Pop(scopes)

EndFunction ==
  /\ Doing("end of function")
  /\ scopes' = ScopesAfterFunction
  /\ Return
  /\ Stay /\ UNCHANGED <<decls, label, err, hist>>

-----------------------------------------------------------------------------
(* cc1_parse_compound and cc1_parse_statement *)

EnterBlock ==
  /\ Doing("compound")
  /\ Expect("{")
  /\ scopes' = Push(scopes)
  /\ hist' = Append(hist, Brace("{"))
  /\ Then(<<"block">>)
  /\ UNCHANGED <<decls, label>>

BlockOver == tok.k \in {"}", "eof"}

LocalDecl ==
  /\ Doing("block") /\ ~BlockOver /\ tok.k \in DeclWords
  /\ StartDecl(<<"local">>)

BlockStatement ==
  /\ Doing("block") /\ ~BlockOver /\ tok.k \notin DeclWords
  /\ ctl' = Append(ctl, "statement")
  /\ Stay /\ UNCHANGED <<decls, scopes, label, err, hist>>

\* the next token is read before the scope goes
LeaveBlock ==
  /\ Doing("block") /\ BlockOver
  /\ Expect("}")
  /\ scopes' = Pop(scopes)
  /\ hist' = hist \o [i \in 1..(IF ctl[Len(ctl) - 1] = "end of function" THEN 2 ELSE 1)
                        |-> [Brace("}") EXCEPT !.at = pos]]
  /\ Return
  /\ UNCHANGED <<decls, label>>

Local ==
  /\ Doing("local") /\ ~D.td
  /\ scopes' = Bind(scopes, D.name, Sym("var", D.type, D.at))
  /\ hist' = Note(D)
  /\ IF tok.k = "=" THEN Then(<<";", "expr">>) /\ Lex(scopes')
                    ELSE Then(<<";">>) /\ Stay
  /\ decls' = Pop(decls)
  /\ UNCHANGED <<label, err>>

ExpectPunct ==
  /\ ctl # <<>> /\ Top \in Puncts
  /\ Expect(Top)
  /\ Return
  /\ UNCHANGED <<decls, scopes, label, hist>>

\* what follows the first word of a statement
AfterWord(k) == CASE k = "while" -> <<"statement", ")", "expr", "(">>
                  [] k = "if" -> <<"else", "statement", ")", "expr", "(">>
                  [] k = "return" -> <<"return">>
                  [] k = ";" -> <<>>

KeywordStatement ==
  /\ Doing("statement") /\ tok.k \in {"while", "if", "return", ";"}
  /\ Then(AfterWord(tok.k))
  /\ Lex(scopes)
  /\ UNCHANGED <<decls, scopes, label, err, hist>>

BlockOrExprStatement ==
  /\ Doing("statement") /\ tok.k \notin {"while", "if", "return", ";"}
  /\ Then(IF tok.k = "{" THEN <<"compound">> ELSE <<";", "expr">>)
  /\ Stay /\ UNCHANGED <<decls, scopes, label, err, hist>>

\* cc1_accept(TOK_KW_ELSE), and cc1_accept(TOK_SEMI) of a return
OptionalWord ==
  /\ Doing("else") \/ Doing("return")
  /\ IF tok.k = (IF Top = "else" THEN "else" ELSE ";")
       THEN Then(IF Top = "else" THEN <<"statement">> ELSE <<>>) /\ Lex(scopes)
       ELSE Then(IF Top = "else" THEN <<>> ELSE <<";", "expr">>) /\ Stay
  /\ UNCHANGED <<decls, scopes, label, err, hist>>

-----------------------------------------------------------------------------
(* cc1_parse_primary and cc1_parse_postfix *)

Number ==
  /\ Doing("expr") /\ tok.k = "number"
  /\ Then(<<"postfix">>) /\ label' = FALSE
  /\ Lex(scopes)
  /\ UNCHANGED <<decls, scopes, err, hist>>

\* a name without declaration becomes a function, in the innermost scope
Implicit == Bind(scopes, tok.n, Sym("func", Func(<<>>), pos))

Name ==
  /\ Doing("expr") /\ tok.k = "ident"
  /\ LET s == Lookup(scopes, tok.n)
     IN /\ label' = (s.k # "var")
        /\ scopes' = IF s = NoSym THEN Implicit ELSE scopes
        /\ hist' = IF s = NoSym THEN Append(hist, Def(tok.n, pos, FALSE)) ELSE hist
  /\ Then(<<"postfix">>)
  /\ Lex(scopes)
  /\ UNCHANGED <<decls, err>>

Paren ==
  /\ Doing("expr") /\ tok.k = "("
  /\ Then(<<"postfix", ")", "expr">>)
  /\ Lex(scopes)
  /\ UNCHANGED <<decls, scopes, label, err, hist>>

\* nothing is consumed
NoOperand ==
  /\ Doing("expr") /\ tok.k \notin {"number", "ident", "("}
  /\ Then(<<"postfix">>)
  /\ label' = FALSE /\ err' = TRUE
  /\ Stay /\ UNCHANGED <<decls, scopes, hist>>

Postfix ==
  /\ Doing("postfix")
  /\ IF tok.k = "(" THEN Then(<<IF label THEN "call" ELSE "no call", "arguments">>) /\ Lex(scopes)
                    ELSE Return /\ Stay
  /\ UNCHANGED <<decls, scopes, label, err, hist>>

Arguments ==
  /\ Doing("arguments")
  /\ IF tok.k = ")" THEN Return /\ Lex(scopes)
                    ELSE Then(<<"more", "expr">>) /\ Stay
  /\ UNCHANGED <<decls, scopes, label, err, hist>>

MoreArguments ==
  /\ Doing("more")
  /\ IF tok.k = "," THEN Then(<<"more", "expr">>) /\ Lex(scopes) /\ UNCHANGED err
                    ELSE Return /\ Expect(")")
  /\ UNCHANGED <<decls, scopes, label, hist>>

\* "call target not supported" where the designator was no label
CallDone ==
  /\ Doing("call") \/ Doing("no call")
  /\ Return
  /\ err' = (err \/ Top = "no call") /\ label' = FALSE
  /\ Stay /\ UNCHANGED <<decls, scopes, hist>>

Parse == \/ Begin \/ UnitEnd \/ ExternalDecl \/ SpecWord \/ SpecName \/ SpecEnd
         \/ Star \/ DeclName \/ NoName \/ FuncSuffix \/ NoSuffix
         \/ EmptyParams \/ VoidParam \/ FirstParam \/ VoidParams \/ Param
         \/ Typedef \/ NamelessDecl \/ Define \/ Declare \/ EndFunction
         \/ EnterBlock \/ LocalDecl \/ BlockStatement \/ LeaveBlock \/ Local
         \/ ExpectPunct \/ KeywordStatement \/ BlockOrExprStatement \/ OptionalWord
         \/ Number \/ Name \/ Paren \/ NoOperand
         \/ Postfix \/ Arguments \/ MoreArguments \/ CallDone

Done == ctl = <<>> /\ UNCHANGED vars
Next == Parse \/ Done
\* one process, which waits for nothing
Spec == Init /\ [][Next]_vars /\ WF_vars(Parse)

-----------------------------------------------------------------------------
(* What C says *)

\* blocks opened and not closed between two places of the text
Nest(i, j) == Cardinality({m \in i..j : hist[m].ev = "{"})
              - Cardinality({m \in i..j : hist[m].ev = "}"})
StillOpen(i) == \A j \in (i + 1)..Len(hist) : Nest(i + 1, j) >= 0
Defs(n) == {i \in DOMAIN hist : hist[i].n = n /\ StillOpen(i)}
AtFile(i) == Nest(1, i) = 0
\* the declaration a name refers to: the last one in an open block, or the
\* first one of the file (later ones declare the same thing again)
Meaning(n) ==
  LET local == {i \in Defs(n) : ~AtFile(i)}
  IN  IF Defs(n) = {} THEN Def(n, 0, FALSE)
      ELSE hist[IF local # {} THEN Max(local) ELSE Min(Defs(n))]
\* a name is declared twice in the file's scope
Redeclared == \E i, j \in DOMAIN hist :
                i # j /\ hist[i].ev = "def" /\ hist[i].n = hist[j].n /\ AtFile(i) /\ AtFile(j)
Valid == ~err /\ ~Redeclared
AfterBrace == hist # <<>> /\ hist[Len(hist)].ev = "}" /\ hist[Len(hist)].at + 1 = pos

-----------------------------------------------------------------------------
(* Properties *)

Opened == {i \in DOMAIN ctl : ctl[i] \in {"block", "end of function"}}
Declaring == {i \in DOMAIN ctl : ctl[i] \in {"external", "local", "param", "(void)"}}

\* The type invariant; and as many declarations are held as are being parsed,
\* a declaration's parameters and theirs in turn included.
TypeOK ==
  /\ tok.n \in Names \cup {"none"} /\ pos \in Nat
  /\ \A i \in DOMAIN scopes : DOMAIN scopes[i] \subseteq Names
  /\ label \in BOOLEAN /\ err \in BOOLEAN
  /\ Len(decls) = Cardinality(Declaring)

\* Errors included, every call that opened a scope closes it: there is one for
\* each block and function being parsed, and at the end only the file's.
ScopesBalanced == Len(scopes) = 1 + Cardinality(Opened)

\* The lexer says what kind a name is one token before the parser gets to it:
\* the answer is C's all the same, but for the token after a "}".  (A function
\* that was declared before has the parameters of its first declaration in
\* scope, which may hide a type.)
TypedefsCurrent ==
  tok.n # "none" /\ ~AfterBrace /\ Valid => (tok.k = "typename" <=> Meaning(tok.n).td)

\* Of all the declarations of a name, in blocks that are open or closed, the
\* symbol table gives an expression the one that C means.  (In a function that
\* was declared before the parameters are those of the first declaration.)
NamesResolved ==
  Doing("expr") /\ tok.k = "ident" /\ Valid
    => Lookup(scopes, tok.n).at = Meaning(tok.n).at

\* What cc1 accepts is a whole text: it was read to its end, and every brace
\* and parenthesis in it has met its partner.
AcceptedWhole == ctl = <<>> /\ ~err => tok = EofTok /\ nest = [b |-> 0, p |-> 0]

\* What no statement starts with, and no declaration goes on with.
Stray == {")", ",", "=", "*", "else", "static", "volatile", "long"}

\* cc1 ends, or it is in a function body and never gets past one of these.
EndsOrSticks == <>(ctl = <<>>) \/ <>[](Opened # {} /\ tok.k \in Stray)
=============================================================================
