-------------------------------- MODULE Lexer --------------------------------
(***************************************************************************)
(* The lexer of cc1 (cc1/src/lexer.c, strpool.c): it reads a file with one *)
(* character in hand (lx->ch), looks one further only after a slash, and   *)
(* makes tokens of it until the end of the file or what it takes for it.   *)
(* Whether a name is a type is asked of the symbol table (see Scopes).     *)
(***************************************************************************)
EXTENDS Integers, Sequences, FiniteSets, SequencesExt

CONSTANTS
  Sources,    \* the files: their characters, and how many of them at most
  Keywords,   \* the reserved words, as sequences of characters
  BufSize,    \* sizeof lx->tokbuf
  LongLimit   \* one more than the greatest long

ASSUME SourceAssumption == \A s \in Sources : s.most \in Nat /\ "EOF" \notin s.chars
ASSUME BufAssumption == BufSize \in Nat /\ BufSize > 2
ASSUME LongAssumption == LongLimit \in Nat \ {0}
\* a name cut short is no keyword
ASSUME KeywordAssumption == \A w \in Keywords : Len(w) < BufSize - 2

VARIABLES
  source,     \* one of Sources
  text,       \* what was read of the file
  ended,      \* its end was met
  at,         \* where lx->ch is in text, or behind it
  loc,        \* lx->line, lx->col
  mode,       \* where in cc1_lex_next
  tok,        \* t: where it starts, and the character of an operator or literal
  buf,        \* lx->tokbuf up to lx->toklen
  overflow,   \* lx->tok_overflow
  toks,       \* the tokens made so far
  pool,       \* the string pool; its places are the addresses
  err         \* diag->had_error

file == <<source, text, ended, at, loc>>
vars == <<file, mode, tok, buf, overflow, toks, pool, err>>

-----------------------------------------------------------------------------
(* Characters *)

EOF == "EOF"
Letters == {"a", "b", "c", "d", "e", "f", "g", "h", "i", "j", "k", "l", "m", "n", "o", "p",
            "q", "r", "s", "t", "u", "v", "w", "x", "y", "z", "A", "B", "C", "D", "E", "F",
            "G", "H", "I", "J", "K", "L", "M", "N", "O", "P", "Q", "R", "S", "T", "U", "V",
            "W", "X", "Y", "Z"}
Figures == {"0", "1", "2", "3", "4", "5", "6", "7", "8", "9"}
Spaces == {" ", "\t", "\n", "\r", "\f", "VT"}
IdentStart == Letters \cup {"_"}
Ident == IdentStart \cup Figures

\* the operators and punctuators of the last switch
Single == {"(", ")", "{", "}", "[", "]", ";", ",", ".", "?", ":", "+", "*", "/", "%", "^",
           "~", "!", "=", "<", ">", "&", "|", "-"}
Double == {<<"!", "=">>, <<"=", "=">>, <<"<", "=">>, <<"<", "<">>, <<">", "=">>,
           <<">", ">">>, <<"&", "&">>, <<"|", "|">>, <<"-", ">">>}

\* cc1_read_escape
Escape(c) == CASE c = "n" -> "\n" [] c = "t" -> "\t" [] c = "r" -> "\r" [] OTHER -> c

\* cc1_parse_int
DigitsInOrder == <<{"0"}, {"1"}, {"2"}, {"3"}, {"4"}, {"5"}, {"6"}, {"7"}, {"8"}, {"9"},
                   {"a", "A"}, {"b", "B"}, {"c", "C"}, {"d", "D"}, {"e", "E"}, {"f", "F"}>>
IsDigit(c) == \E i \in DOMAIN DigitsInOrder : c \in DigitsInOrder[i]
Digit(c) == (CHOOSE i \in DOMAIN DigitsInOrder : c \in DigitsInOrder[i]) - 1
Hex(s) == Len(s) > 1 /\ s[1] = "0" /\ s[2] \in {"x", "X"}
Base(s) == IF Hex(s) THEN 16 ELSE IF s # <<>> /\ s[1] = "0" THEN 8 ELSE 10
\* the digits up to the first character that is none
Leading(s) ==
  SubSeq(s, 1, CHOOSE n \in 0..Len(s) : /\ \A i \in 1..n : IsDigit(s[i])
                                        /\ n = Len(s) \/ ~IsDigit(s[n + 1]))
\* a long that grows beyond its limit goes on at the other end: C leaves it open,
\* the machine multiplies and adds like that
Long(x) == ((x + LongLimit) % (2 * LongLimit)) - LongLimit
ParseInt(s) ==
  LET d == Leading(IF Hex(s) THEN SubSeq(s, 3, Len(s)) ELSE s)
      v[n \in 0..Len(d)] == IF n = 0 THEN 0 ELSE Long(v[n - 1] * Base(s) + Digit(d[n]))
  IN  v[Len(d)]

-----------------------------------------------------------------------------
(* The file *)

Char(s, i) == IF i \in DOMAIN s THEN s[i] ELSE EOF
Ch == Char(text, at)
Known(i) == i <= Len(text) \/ ended

\* what is before i is known: now the file's i-th character is, or its end
Reach(i) ==
  IF Known(i) THEN UNCHANGED <<text, ended>>
  ELSE \/ /\ Len(text) < source.most
          /\ \E c \in source.chars : text' = Append(text, c)
          /\ UNCHANGED ended
       \/ ended' = TRUE /\ UNCHANGED text

\* a mutant: the column goes on at the start of a line
MovedOn(l, c) ==
  IF c = EOF THEN l
  ELSE IF c = "\n" THEN [l EXCEPT !.line = @ + 1] ELSE [l EXCEPT !.col = @ + 1]
\* cc1_lex_getc
Moved(l, c) ==
  IF c = EOF THEN l
  ELSE IF c = "\n" THEN [line |-> l.line + 1, col |-> 0] ELSE [l EXCEPT !.col = @ + 1]

Advance ==
  /\ Reach(at + 1)
  /\ at' = IF Ch = EOF THEN at ELSE at + 1
  /\ loc' = Moved(loc, Char(text', at + 1))
  /\ UNCHANGED source
\* past two characters, both known
AdvanceTwice ==
  /\ Reach(at + 2)
  /\ at' = at + 2
  /\ loc' = Moved(Moved(loc, text[at + 1]), Char(text', at + 2))
  /\ UNCHANGED source
Hold == UNCHANGED file

Init ==
  /\ source \in Sources
  /\ text = <<>> /\ ended = FALSE /\ at = 0 /\ loc = [line |-> 1, col |-> 0]
  /\ mode = "init"
  /\ tok = [from |-> 0, line |-> 1, col |-> 1, c |-> EOF]
  /\ buf = <<>> /\ overflow = FALSE
  /\ toks = <<>> /\ pool = <<>> /\ err = FALSE

LexInit ==
  /\ mode = "init" /\ mode' = "skip"
  /\ Reach(1) /\ at' = 1 /\ loc' = Moved(loc, Char(text', 1))
  /\ UNCHANGED <<source, tok, buf, overflow, toks, pool, err>>

-----------------------------------------------------------------------------
(* cc1_skip_ws_and_comments *)

SkipTo(m) == mode' = m /\ UNCHANGED <<tok, buf, overflow, toks, pool, err>>

SkipSpace == mode = "skip" /\ Ch \in Spaces /\ Advance /\ SkipTo("skip")

Peek ==
  /\ mode = "skip" /\ Ch = "/" /\ ~Known(at + 1)
  /\ Reach(at + 1) /\ UNCHANGED <<source, at, loc>> /\ SkipTo("skip")

OpenComment ==
  /\ mode = "skip" /\ Ch = "/"
  /\ at < Len(text) /\ text[at + 1] \in {"*", "/"}
  /\ AdvanceTwice
  /\ SkipTo(IF text[at + 1] = "*" THEN "block" ELSE "line")

\* a mutant: the end of the file is not looked for in a comment
NeverCut == FALSE
CommentCut == mode = "block" /\ Ch = EOF

BlockComment ==
  /\ mode = "block" /\ ~CommentCut
  /\ Advance /\ SkipTo(IF Ch = "*" THEN "star" ELSE "block")

\* a mutant: what follows a star is skipped, another star too
StarSkips == mode = "star" /\ Advance /\ SkipTo(IF Ch = "/" THEN "skip" ELSE "block")
AfterStar ==
  /\ mode = "star"
  /\ IF Ch = "/" THEN Advance /\ SkipTo("skip") ELSE Hold /\ SkipTo("block")

LineComment == mode = "line" /\ Ch \notin {EOF, "\n"} /\ Advance /\ SkipTo("line")
LineOver == mode = "line" /\ Ch \in {EOF, "\n"} /\ Hold /\ SkipTo("skip")

-----------------------------------------------------------------------------
(* cc1_lex_next *)

\* behind white space and comments
AtToken ==
  /\ mode = "skip" /\ Ch \notin Spaces
  /\ Ch = "/" => Known(at + 1) /\ Char(text, at + 1) \notin {"*", "/"}
Start(m) ==
  /\ AtToken /\ mode' = m
  /\ tok' = [from |-> at, line |-> loc.line, col |-> IF loc.col = 0 THEN 1 ELSE loc.col,
             c |-> Ch]
  /\ buf' = <<>> /\ overflow' = FALSE
  /\ UNCHANGED <<toks, pool, err>>

\* a mutant: the buffer drops what does not fit, without a word
PushQuietly(c) ==
  /\ buf' = IF Len(buf) + 2 >= BufSize THEN buf ELSE Append(buf, c)
  /\ UNCHANGED overflow
\* a mutant: no room is kept for the final zero
PushToTheEnd(c) ==
  IF Len(buf) + 1 >= BufSize THEN overflow' = TRUE /\ UNCHANGED buf
  ELSE buf' = Append(buf, c) /\ UNCHANGED overflow
\* cc1_tokbuf_push
Push(c) ==
  IF Len(buf) + 2 >= BufSize THEN overflow' = TRUE /\ UNCHANGED buf
  ELSE buf' = Append(buf, c) /\ UNCHANGED overflow

\* the token ends before lx->ch
Emit(k, val) ==
  /\ toks' = Append(toks, [k |-> k, val |-> val, from |-> tok.from, to |-> at' - 1,
                           line |-> tok.line, col |-> tok.col])
  /\ mode' = IF k = "eof" THEN "done" ELSE "skip"
  /\ UNCHANGED <<tok, buf, overflow>>

\* a comment that is not closed ends here too
EndOfFile ==
  /\ Ch = EOF
  /\ AtToken \/ CommentCut
  /\ toks' = Append(toks, [k |-> "eof", val |-> 0, from |-> at, to |-> at - 1,
                           line |-> loc.line, col |-> IF loc.col = 0 THEN 1 ELSE loc.col])
  /\ mode' = "done"
  /\ Hold /\ UNCHANGED <<tok, buf, overflow, pool, err>>

WordMode(c) == IF c \in IdentStart THEN "name" ELSE "number"
WordChars(m) == IF m = "name" THEN Ident ELSE Letters \cup Figures
StartWord == Ch \in Ident /\ Start(WordMode(Ch)) /\ Hold

WordChar ==
  /\ mode \in {"name", "number"} /\ Ch \in WordChars(mode)
  /\ Push(Ch) /\ Advance
  /\ UNCHANGED <<mode, tok, toks, pool, err>>

\* a mutant: every name gets an address of its own
InternAnew(s) == Len(pool) + 1
\* cc1_strpool_intern
Intern(s) ==
  IF \E i \in DOMAIN pool : pool[i] = s THEN CHOOSE i \in DOMAIN pool : pool[i] = s
  ELSE Len(pool) + 1

NameEnd ==
  /\ mode = "name" /\ Ch \notin Ident
  /\ Hold /\ Emit(IF buf \in Keywords THEN "keyword" ELSE "name", Intern(buf))
  /\ pool' = IF Intern(buf) > Len(pool) THEN Append(pool, buf) ELSE pool
  /\ err' = (err \/ overflow)

NumberEnd ==
  /\ mode = "number" /\ Ch \notin Letters \cup Figures
  /\ Hold /\ Emit("int", ParseInt(buf))
  /\ err' = (err \/ overflow) /\ UNCHANGED pool

StartQuoted ==
  /\ Ch \in {"\"", "'"}
  /\ Start(IF Ch = "'" THEN "char" ELSE "string") /\ Advance

StringChar ==
  /\ mode = "string" /\ Ch \notin {EOF, "\"", "\\"}
  /\ Push(Ch) /\ Advance
  /\ UNCHANGED <<mode, tok, toks, pool, err>>

StringEnd ==
  /\ mode = "string" /\ Ch \in {EOF, "\""}
  /\ IF Ch = EOF THEN Hold ELSE Advance
  /\ Emit("string", buf)
  /\ err' = (err \/ overflow) /\ UNCHANGED pool

Backslash ==
  /\ mode \in {"string", "char"} /\ Ch = "\\"
  /\ Advance /\ mode' = IF mode = "string" THEN "strescape" ELSE "charescape"
  /\ UNCHANGED <<tok, buf, overflow, toks, pool, err>>

StringEscape ==
  /\ mode = "strescape" /\ mode' = "string"
  /\ Push(Escape(Ch)) /\ Advance
  /\ UNCHANGED <<tok, toks, pool, err>>

CharValue ==
  /\ mode = "charescape" \/ (mode = "char" /\ Ch # "\\")
  /\ Advance /\ mode' = "charend"
  /\ tok' = [tok EXCEPT !.c = IF mode = "char" THEN Ch ELSE Escape(Ch)]
  /\ UNCHANGED <<buf, overflow, toks, pool, err>>

CharEnd ==
  /\ mode = "charend"
  /\ IF Ch = "'" THEN Advance ELSE Hold
  /\ Emit("char", tok.c) /\ UNCHANGED <<pool, err>>

StartOperator ==
  /\ Ch \notin Ident \cup {EOF, "\"", "'"}
  /\ Start("op") /\ Advance

\* a mutant: << and >> are not known
ShiftMissed ==
  /\ mode = "op"
  /\ LET two == <<tok.c, Ch>> \in Double /\ (tok.c = Ch => tok.c \in {"=", "&", "|"}) IN
     /\ IF two THEN Advance ELSE Hold
     /\ Emit(IF two \/ tok.c \in Single THEN "op" ELSE "eof", 0)
  /\ UNCHANGED <<pool, err>>
\* a character that is none of these reads as the end of the file
Operator ==
  /\ mode = "op"
  /\ LET two == <<tok.c, Ch>> \in Double IN
     /\ IF two THEN Advance ELSE Hold
     /\ Emit(IF two \/ tok.c \in Single THEN "op" ELSE "eof", 0)
  /\ UNCHANGED <<pool, err>>

Skip == \/ SkipSpace \/ Peek \/ OpenComment \/ BlockComment \/ AfterStar
        \/ LineComment \/ LineOver
LexWord == StartWord \/ WordChar \/ NameEnd \/ NumberEnd
LexQuoted == \/ StartQuoted \/ StringChar \/ Backslash \/ StringEscape \/ StringEnd
             \/ CharValue \/ CharEnd
LexOther == EndOfFile \/ StartOperator \/ Operator
Done == mode = "done" /\ UNCHANGED vars
Next == LexInit \/ Skip \/ LexWord \/ LexQuoted \/ LexOther \/ Done
\* the lexer runs until the parser has its end of file
Spec == Init /\ [][Next]_vars /\ WF_vars(Next)

-----------------------------------------------------------------------------
(* The lexical grammar, read off the text alone *)

Spelled(t) == SubSeq(text, t.from, t.to)
Occurs(s, i, s2) == \A j \in DOMAIN s2 : Char(s, i + j - 1) = s2[j]

\* the quote at i ends a literal: an even number of backslashes before it
Escaped(s, i) ==
  Cardinality({j \in 2..(i - 1) : \A h \in j..(i - 1) : s[h] = "\\"}) % 2 = 1
IsQuoted(q, s) ==
  /\ Len(s) > 1 /\ s[1] = q
  /\ {i \in 2..Len(s) : s[i] = q /\ ~Escaped(s, i)} = {Len(s)}
IsCharConst(s) == IsQuoted("'", s) /\ Len(s) = (IF Char(s, 2) = "\\" THEN 4 ELSE 3)
IsWord(s) == s # <<>> /\ s[1] \in Ident
             /\ \A i \in DOMAIN s : s[i] \in IF s[1] \in Figures THEN Ident \ {"_"} ELSE Ident
IsToken(s) == \/ IsWord(s) \/ IsQuoted("\"", s) \/ IsCharConst(s)
              \/ s \in Double \cup {<<c>> : c \in Single}

IsComment(s) ==
  \/ /\ Len(s) > 3 /\ Occurs(s, 1, <<"/", "*">>)
     /\ {i \in 3..(Len(s) - 1) : Occurs(s, i, <<"*", "/">>)} = {Len(s) - 1}
  \/ /\ Occurs(s, 1, <<"/", "/">>)
     /\ {i \in DOMAIN s : s[i] = "\n"} = {Len(s)}
\* white space and whole comments
IsGap(s) ==
  LET gap[n \in 0..Len(s)] ==
        \/ n = 0
        \/ s[n] \in Spaces /\ gap[n - 1]
        \/ \E m \in 0..(n - 1) : IsComment(SubSeq(s, m + 1, n)) /\ gap[m]
  IN  gap[Len(s)]

\* what C90 says a constant is worth
IntSuffixes == {<<>>, <<"u">>, <<"l">>, <<"u", "l">>}
IsIntConst(s) ==
  IF Hex(s) THEN Len(s) > 2 /\ \A i \in 3..Len(s) : IsDigit(s[i])
  ELSE \A i \in DOMAIN s : s[i] \in IF s[1] = "0" THEN Figures \ {"8", "9"} ELSE Figures
\* each digit at its place, from the last one on
Worth(s) ==
  LET d == IF Hex(s) THEN SubSeq(s, 3, Len(s)) ELSE s
      base == IF Hex(s) THEN 16 ELSE IF s[1] = "0" THEN 8 ELSE 10
      place[n \in 0..Len(d)] == IF n = 0 THEN 1 ELSE base * place[n - 1]
      sum[n \in 0..Len(d)] ==
        IF n = 0 THEN 0 ELSE Digit(d[Len(d) - n + 1]) * place[n - 1] + sum[n - 1]
  IN  sum[Len(d)]
\* without the quotes, and one character for an escape: which one is the code's
\* own choice (Escape), for its escapes are fewer than C's
Unquoted(s) ==
  LET said[n \in 0..Len(s)] ==
        IF n < 2 THEN <<>>
        ELSE IF s[n] = "\\" /\ ~Escaped(s, n) THEN said[n - 1]
        ELSE Append(said[n - 1], IF Escaped(s, n) THEN Escape(s[n]) ELSE s[n])
  IN  said[Len(s) - 1]

-----------------------------------------------------------------------------
(* Properties *)

Modes == {"init", "skip", "block", "star", "line", "name", "number", "string", "strescape",
          "char", "charescape", "charend", "op", "done"}
Kinds == {"name", "keyword", "int", "string", "char", "op", "eof"}

\* The type invariant; the buffer has room for one character more and its
\* final zero.
TypeOK ==
  /\ source \in Sources /\ text \in Seq(source.chars) /\ Len(text) <= source.most
  /\ ended \in BOOLEAN /\ at \in 0..(Len(text) + 1)
  /\ loc.line \in Nat \ {0} /\ loc.col \in 0..Len(text)
  /\ mode \in Modes
  /\ tok.from \in 0..(Len(text) + 1) /\ tok.line \in Nat /\ tok.col \in Nat
  /\ Len(buf) + 1 < BufSize /\ overflow \in BOOLEAN /\ err \in BOOLEAN
  /\ \A i \in DOMAIN toks : /\ toks[i].k \in Kinds
                            /\ toks[i].from \in 1..(Len(text) + 1) /\ toks[i].to \in 0..Len(text)
  /\ \A i \in DOMAIN pool : Len(pool[i]) + 1 < BufSize

\* Every token is spelled as the language says and is the longest there: it
\* ends neither early nor late, whatever character had to be looked at to know;
\* and between two tokens there are only white space and whole comments.
\* A quote without its fellow is all that is taken for more than it is.
LongestMatch ==
  \A n \in DOMAIN toks :
    LET t == toks[n]
        whole == {i \in t.from..Len(text) : IsToken(SubSeq(text, t.from, i))}
    IN /\ \/ t.k = "eof"
          \/ IsGap(SubSeq(text, (IF n = 1 THEN 0 ELSE toks[n - 1].to) + 1, t.from - 1))
       /\ \/ t.k = "eof"
          \/ t.to \in whole /\ \A i \in whole : i <= t.to
          \/ whole = {} /\ text[t.from] = "'"
          \/ whole = {} /\ text[t.from] = "\"" /\ ended /\ t.to = Len(text)

\* Unless a token was reported as too long, it says what its text says: the
\* value of a constant that fits in a long, the literal's characters (with the
\* code's own escapes), the name itself.
ValueRight ==
  ~err => \A n \in DOMAIN toks :
    LET t == toks[n]
        s == Spelled(t)
    IN CASE t.k = "int"    -> \A m \in DOMAIN s : LET c == SubSeq(s, 1, m) IN
                                /\ IsIntConst(c) /\ SubSeq(s, m + 1, Len(s)) \in IntSuffixes
                                /\ Worth(c) < LongLimit
                              => t.val = Worth(c)
         [] t.k = "string" -> IsQuoted("\"", s) => t.val = Unquoted(s)
         [] t.k = "char"   -> IsCharConst(s) => <<t.val>> = Unquoted(s)
         [] t.k \in {"name", "keyword"} ->
              pool[t.val] = s /\ (t.k = "keyword" <=> s \in Keywords)
         [] OTHER -> TRUE

\* Two names have one address exactly if they are spelled alike, which is how
\* the symbol table compares them; a name that was cut short was reported.
SameName ==
  ~err => \A i, j \in DOMAIN toks :
    toks[i].k \in {"name", "keyword"} /\ toks[j].k \in {"name", "keyword"} =>
      (toks[i].val = toks[j].val <=> Spelled(toks[i]) = Spelled(toks[j]))

\* A message about a token names the line and the column it starts at.
LocationRight ==
  \A n \in DOMAIN toks :
    LET t == toks[n]
        newlines == {i \in 1..(t.from - 1) : text[i] = "\n"}
    IN /\ t.line = 1 + Cardinality(newlines)
       /\ t.from <= t.to => t.col = t.from - (IF newlines = {} THEN 0 ELSE Max(newlines))

\* The end of file is the end of the file, but for a comment that is not
\* closed and a character no token starts with.
NothingDropped ==
  mode = "done" =>
    LET t == toks[Len(toks)]
        rest == SubSeq(text, (IF Len(toks) = 1 THEN 0 ELSE toks[Len(toks) - 1].to) + 1,
                       Len(text))
        Open(i) == /\ Occurs(rest, i, <<"/", "*">>) /\ IsGap(SubSeq(rest, 1, i - 1))
                   /\ \A j \in (i + 2)..Len(rest) : ~Occurs(rest, j, <<"*", "/">>)
    IN \/ ended /\ (IsGap(Append(rest, "\n")) \/ \E i \in DOMAIN rest : Open(i))
       \/ t.from = t.to /\ ~\E i \in t.from..Len(text) : IsToken(SubSeq(text, t.from, i))

\* The lexer gets to the end of any file, whatever it was in the middle of.
Ends == <>(mode = "done")
=============================================================================
