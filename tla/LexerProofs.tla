----------------------------- MODULE LexerProofs -----------------------------
(***************************************************************************)
(* Theorems about Lexer: for every file, every set of reserved words and   *)
(* every size of the buffer, the buffer is never written past its end, two *)
(* names have one address exactly if they are spelled alike, a token's     *)
(* line and column are those of its first character, every token is the    *)
(* longest at its place, with nothing but white space and comments before  *)
(* it, nothing of the file is dropped without a reason, and every token    *)
(* says what its text says.                                                *)
(***************************************************************************)
EXTENDS Lexer, SeqLemmas, FiniteSetTheorems

\* What was read only ever grows.
Extends(s, t) == Len(s) <= Len(t) /\ \A i \in 1..Len(s) : t[i] = s[i]

\* The file and the place in it.
FileOK ==
  /\ source \in Sources /\ text \in Seq(source.chars) /\ Len(text) <= source.most
  /\ ended \in BOOLEAN
  /\ at \in 0..(Len(text) + 1) /\ (at = Len(text) + 1 => ended)
  /\ loc \in [line : Nat \ {0}, col : Nat]
  /\ loc.col <= Len(text) /\ loc.col <= at

-----------------------------------------------------------------------------
(* Sequences *)

\* A part of what was read stays what it is.
LEMMA PartStays ==
  ASSUME NEW S, NEW s \in Seq(S), NEW t \in Seq(S), Extends(s, t),
         NEW m \in Nat \ {0}, NEW n \in Nat, m <= n + 1, n <= Len(s)
  PROVE  SubSeq(t, m, n) = SubSeq(s, m, n)
<1>1. /\ SubSeq(s, m, n) \in Seq(S) /\ Len(SubSeq(s, m, n)) = n - m + 1
      /\ \A i \in 1..(n - m + 1) : SubSeq(s, m, n)[i] = s[m + i - 1]
  BY SubSeqProperties
<1>2. n <= Len(t) /\ Len(s) \in Nat /\ Len(t) \in Nat
  BY DEF Extends
<1>3. /\ SubSeq(t, m, n) \in Seq(S) /\ Len(SubSeq(t, m, n)) = n - m + 1
      /\ \A i \in 1..(n - m + 1) : SubSeq(t, m, n)[i] = t[m + i - 1]
  BY <1>2, SubSeqProperties
<1>4. \A i \in 1..(n - m + 1) : t[m + i - 1] = s[m + i - 1]
  BY <1>2 DEF Extends
<1> QED
  BY <1>1, <1>3, <1>4, SeqEqual

\* One character more of what was read.
LEMMA PartGrows ==
  ASSUME NEW S, NEW s \in Seq(S), NEW m \in Nat \ {0}, NEW n \in Nat \ {0},
         m <= n, n <= Len(s)
  PROVE  Append(SubSeq(s, m, n - 1), s[n]) = SubSeq(s, m, n)
<1>1. /\ SubSeq(s, m, n - 1) \in Seq(S) /\ Len(SubSeq(s, m, n - 1)) = n - m
      /\ \A i \in 1..(n - m) : SubSeq(s, m, n - 1)[i] = s[m + i - 1]
  BY SubSeqProperties
<1>2. /\ SubSeq(s, m, n) \in Seq(S) /\ Len(SubSeq(s, m, n)) = n - m + 1
      /\ \A i \in 1..(n - m + 1) : SubSeq(s, m, n)[i] = s[m + i - 1]
  BY SubSeqProperties
<1>3. s[n] \in S
  OBVIOUS
<1> DEFINE u == Append(SubSeq(s, m, n - 1), s[n])
<1>4. /\ u \in Seq(S) /\ Len(u) = n - m + 1
      /\ \A i \in 1..(n - m + 1) : u[i] = s[m + i - 1]
  BY <1>1, <1>3
<1> QED
  BY <1>2, <1>4, SeqEqual

-----------------------------------------------------------------------------
(* The file *)

\* lx->ch is a character of the file, or its end was met.
LEMMA ChFacts ==
  ASSUME FileOK, at # 0
  PROVE  /\ Ch # EOF => at \in 1..Len(text) /\ Ch = text[at]
         /\ Ch = EOF => at = Len(text) + 1 /\ ended
<1>1. Len(text) \in Nat /\ DOMAIN text = 1..Len(text)
  BY DEF FileOK
<1>2. \A i \in 1..Len(text) : text[i] # "EOF"
  BY SourceAssumption DEF FileOK
<1>3. CASE at \in 1..Len(text)
  BY <1>1, <1>2, <1>3 DEF FileOK, Ch, Char, EOF
<1>4. CASE at \notin 1..Len(text)
  <2>1. at = Len(text) + 1
    BY <1>1, <1>4 DEF FileOK
  <2>2. Ch = EOF
    BY <1>1, <1>4 DEF Ch, Char
  <2> QED
    BY <2>1, <2>2 DEF FileOK
<1> QED
  BY <1>3, <1>4

\* cc1_lex_getc keeps a line and a column.
LEMMA MovedFacts ==
  ASSUME NEW l \in [line : Nat \ {0}, col : Nat], NEW c
  PROVE  /\ Moved(l, c) \in [line : Nat \ {0}, col : Nat]
         /\ Moved(l, c).col <= l.col + 1
         /\ c = EOF => Moved(l, c) = l
  BY DEF Moved

\* The i-th character was read, or there is none.
ReadTo(i) ==
  /\ text' \in Seq(source.chars) /\ Len(text') <= source.most
  /\ ended' \in BOOLEAN /\ (ended => ended' /\ text' = text)
  /\ Extends(text, text')
  /\ i <= Len(text') \/ ended'

\* Reading on to the next character.
LEMMA ReachFacts ==
  ASSUME FileOK, NEW i \in 1..(Len(text) + 1), Reach(i)
  PROVE  ReadTo(i)
<1>1. CASE Known(i)
  BY <1>1 DEF FileOK, Reach, Known, Extends, ReadTo
<1>2. CASE ~Known(i) /\ ended' = TRUE /\ UNCHANGED text
  BY <1>2 DEF FileOK, Reach, Known, Extends, ReadTo
<1>3. ASSUME ~Known(i), Len(text) < source.most, UNCHANGED ended,
             NEW c \in source.chars, text' = Append(text, c)
      PROVE  ReadTo(i)
  <2>1. text' \in Seq(source.chars) /\ Len(text') = Len(text) + 1
        /\ \A j \in 1..Len(text) : text'[j] = text[j]
    BY <1>3 DEF FileOK
  <2> QED
    BY <1>3, <2>1, SourceAssumption DEF FileOK, Known, Extends, ReadTo
<1> QED
  BY <1>1, <1>2, <1>3 DEF Reach

\* lx->ch is the next one.
LEMMA AdvanceFacts ==
  ASSUME FileOK, at # 0, Advance
  PROVE  /\ FileOK' /\ source' = source /\ Extends(text, text')
         /\ at' = IF Ch = EOF THEN at ELSE at + 1
         /\ Ch = EOF => text' = text
<1>1. CASE Ch = EOF
  <2>1. at = Len(text) + 1 /\ ended
    BY <1>1, ChFacts
  <2>2. text' = text /\ ended' = ended
    BY <2>1 DEF Advance, Reach, Known
  <2>3. Char(text', at + 1) = EOF
    BY <2>1, <2>2 DEF Char, FileOK
  <2>4. loc' = loc
    BY <2>3, MovedFacts DEF Advance, FileOK
  <2> QED
    BY <1>1, <2>2, <2>4 DEF Advance, FileOK, Extends
<1>2. CASE Ch # EOF
  <2>1. at \in 1..Len(text)
    BY <1>2, ChFacts
  <2>2. /\ text' \in Seq(source.chars) /\ Len(text') <= source.most
        /\ ended' \in BOOLEAN /\ Extends(text, text')
        /\ at + 1 <= Len(text') \/ ended'
    BY <2>1, ReachFacts DEF Advance, FileOK, ReadTo
  <2>3. loc' \in [line : Nat \ {0}, col : Nat] /\ loc'.col <= loc.col + 1
        /\ (Char(text', at + 1) = EOF => loc' = loc)
    BY MovedFacts DEF Advance, FileOK
  <2>4. at + 1 \in 1..Len(text') \/ Char(text', at + 1) = EOF
    BY <2>1, <2>2 DEF Char, FileOK
  <2>5. Len(text) \in Nat /\ Len(text') \in Nat /\ Len(text) <= Len(text')
    BY <2>2 DEF FileOK, Extends
  <2>6. loc'.col <= Len(text') /\ loc'.col <= at + 1
    BY <2>1, <2>3, <2>4, <2>5 DEF FileOK
  <2> QED
    BY <1>2, <2>1, <2>2, <2>3, <2>5, <2>6 DEF Advance, FileOK
<1> QED
  BY <1>1, <1>2

\* And the one behind it.
LEMMA AdvanceTwiceFacts ==
  ASSUME FileOK, at \in 1..(Len(text) - 1), AdvanceTwice
  PROVE  FileOK' /\ source' = source /\ Extends(text, text') /\ at' = at + 2
<1> DEFINE l == Moved(loc, text[at + 1])
<1>1. Len(text) \in Nat /\ at + 2 \in 1..(Len(text) + 1)
  BY DEF FileOK
<1>2. ReadTo(at + 2)
  BY <1>1, ReachFacts DEF AdvanceTwice
<1>3. l \in [line : Nat \ {0}, col : Nat] /\ l.col <= loc.col + 1
  BY MovedFacts DEF FileOK
<1>4. /\ loc' \in [line : Nat \ {0}, col : Nat] /\ loc'.col <= l.col + 1
      /\ (Char(text', at + 2) = EOF => loc' = l)
  BY <1>3, MovedFacts DEF AdvanceTwice
<1>5. Len(text') \in Nat /\ Len(text) <= Len(text')
  BY <1>2 DEF ReadTo, Extends
<1>6. at + 2 \in 1..Len(text') \/ Char(text', at + 2) = EOF
  BY <1>1, <1>2, <1>5 DEF Char, ReadTo
<1>7. loc.col <= at /\ loc.col \in Nat /\ l.col \in Nat /\ loc'.col \in Nat
  BY <1>3, <1>4 DEF FileOK
<1>8. loc'.col <= Len(text') /\ loc'.col <= at + 2
  BY <1>1, <1>3, <1>4, <1>5, <1>6, <1>7
<1> QED
  BY <1>1, <1>2, <1>4, <1>5, <1>8 DEF AdvanceTwice, FileOK, ReadTo

-----------------------------------------------------------------------------
(* The invariant *)

\* A token is a part of the text s.
TokenOK(t, s) == t.k \in Kinds /\ t.from \in 1..(Len(s) + 1) /\ t.to \in 0..Len(s)

\* Its address in the pool p, if it is a name, is that of its spelling.
NameOK(t, s, p, e) ==
  e \/ (t.k \in {"name", "keyword"} =>
           t.from <= t.to + 1 /\ t.val \in 1..Len(p) /\ p[t.val] = SubSeq(s, t.from, t.to))

TokensOK(ts, s, p, e) ==
  IsSeq(ts) /\ \A i \in 1..Len(ts) : TokenOK(ts[i], s) /\ NameOK(ts[i], s, p, e)

PoolOK(p) ==
  /\ IsSeq(p)
  /\ \A i \in 1..Len(p) : Len(p[i]) + 1 < BufSize
  /\ \A i, j \in 1..Len(p) : p[i] = p[j] => i = j

\* Where a token is being read, it starts before lx->ch; a name that fits is in
\* the buffer.
Reading == {"name", "number", "string", "strescape", "char", "charescape", "charend", "op"}
ReadingOK ==
  /\ mode \in Modes /\ (mode = "init" <=> at = 0)
  /\ \E S : tok \in [from : Nat, line : Nat, col : Nat, c : S]
  /\ tok.from <= Len(text) + 1
  /\ mode \in Reading => tok.from \in 1..at
  /\ mode = "name" => overflow \/ buf = SubSeq(text, tok.from, at - 1)

BufferOK == IsSeq(buf) /\ Len(buf) + 1 < BufSize /\ overflow \in BOOLEAN

LInv ==
  /\ FileOK /\ ReadingOK /\ BufferOK
  /\ TokensOK(toks, text, pool, err) /\ PoolOK(pool) /\ err \in BOOLEAN

\* A token stays right when more is read and more names are known.
LEMMA TokenStays ==
  ASSUME NEW S, NEW s \in Seq(S), NEW u \in Seq(S), Extends(s, u),
         NEW p, NEW q, IsSeq(p), IsSeq(q), Extends(p, q),
         NEW e \in BOOLEAN, NEW f \in BOOLEAN, e => f,
         NEW t, TokenOK(t, s), NameOK(t, s, p, e)
  PROVE  TokenOK(t, u) /\ NameOK(t, u, q, f)
<1>1. Len(s) \in Nat /\ Len(u) \in Nat /\ Len(s) <= Len(u)
  BY DEF Extends
<1>2. TokenOK(t, u)
  BY <1>1 DEF TokenOK
<1>3. CASE ~e /\ t.k \in {"name", "keyword"}
  <2>1. /\ t.from \in Nat \ {0} /\ t.to \in Nat /\ t.to <= Len(s) /\ t.from <= t.to + 1
        /\ t.val \in 1..Len(p) /\ p[t.val] = SubSeq(s, t.from, t.to)
    BY <1>1, <1>3 DEF TokenOK, NameOK
  <2>2. \A m \in Nat \ {0}, n \in Nat :
          m <= n + 1 /\ n <= Len(s) => SubSeq(u, m, n) = SubSeq(s, m, n)
    BY PartStays
  <2>3. t.val \in 1..Len(q) /\ q[t.val] = p[t.val]
    BY <2>1, SeqFacts DEF Extends
  <2>4. SubSeq(u, t.from, t.to) = SubSeq(s, t.from, t.to)
    BY <2>1, <2>2
  <2> QED
    BY <1>2, <2>1, <2>3, <2>4 DEF NameOK
<1> QED
  BY <1>2, <1>3 DEF NameOK

\* So do all of them, and one more if it is right.
LEMMA TokensStay ==
  ASSUME NEW S, NEW s \in Seq(S), NEW u \in Seq(S), Extends(s, u),
         NEW p, NEW q, IsSeq(p), IsSeq(q), Extends(p, q),
         NEW e \in BOOLEAN, NEW f \in BOOLEAN, e => f,
         NEW ts, TokensOK(ts, s, p, e)
  PROVE  /\ TokensOK(ts, u, q, f)
         /\ \A t : TokenOK(t, u) /\ NameOK(t, u, q, f) => TokensOK(Append(ts, t), u, q, f)
<1>1. TokensOK(ts, u, q, f)
  BY TokenStays DEF TokensOK
<1> SUFFICES ASSUME NEW t, TokenOK(t, u), NameOK(t, u, q, f)
             PROVE  TokensOK(Append(ts, t), u, q, f)
  BY <1>1
<1>2. /\ IsSeq(Append(ts, t)) /\ Len(ts) \in Nat /\ Len(Append(ts, t)) = Len(ts) + 1
      /\ \A i \in 1..Len(ts) : Append(ts, t)[i] = ts[i]
      /\ Append(ts, t)[Len(ts) + 1] = t
  BY AppendFacts DEF TokensOK
<1>3. ASSUME NEW i \in 1..Len(Append(ts, t))
      PROVE  TokenOK(Append(ts, t)[i], u) /\ NameOK(Append(ts, t)[i], u, q, f)
  <2>1. CASE i \in 1..Len(ts)
    BY <1>1, <1>2, <2>1 DEF TokensOK
  <2>2. CASE i = Len(ts) + 1
    BY <1>2, <2>2
  <2> QED
    BY <1>2, <1>3, <2>1, <2>2
<1> QED
  BY <1>2, <1>3 DEF TokensOK

\* The invariant says what the properties say.
LEMMA LInvNames == LInv => SameName
<1> SUFFICES ASSUME LInv, ~err, NEW i \in DOMAIN toks, NEW j \in DOMAIN toks,
                    toks[i].k \in {"name", "keyword"}, toks[j].k \in {"name", "keyword"}
             PROVE  toks[i].val = toks[j].val <=> Spelled(toks[i]) = Spelled(toks[j])
  BY DEF SameName
<1>1. i \in 1..Len(toks) /\ j \in 1..Len(toks)
  BY SeqFacts DEF LInv, TokensOK
<1>2. /\ toks[i].val \in 1..Len(pool) /\ pool[toks[i].val] = Spelled(toks[i])
      /\ toks[j].val \in 1..Len(pool) /\ pool[toks[j].val] = Spelled(toks[j])
  BY <1>1 DEF LInv, TokensOK, NameOK, Spelled
<1> QED
  BY <1>2 DEF LInv, PoolOK

\* And that the buffer is never written past its end.
LEMMA LInvTypes == LInv => TypeOK
<1> SUFFICES ASSUME LInv PROVE TypeOK
  OBVIOUS
<1>1. /\ DOMAIN toks = 1..Len(toks) /\ DOMAIN pool = 1..Len(pool)
  BY SeqFacts DEF LInv, TokensOK, PoolOK
<1>2. /\ tok.from \in Nat /\ tok.line \in Nat /\ tok.col \in Nat
      /\ tok.from <= Len(text) + 1 /\ mode \in Modes
  BY DEF LInv, ReadingOK
<1>3. /\ loc.line \in Nat \ {0} /\ loc.col \in Nat /\ loc.col <= Len(text) /\ Len(text) \in Nat
  BY DEF LInv, FileOK
<1>4. \A i \in DOMAIN toks : /\ toks[i].k \in Kinds
                            /\ toks[i].from \in 1..(Len(text) + 1) /\ toks[i].to \in 0..Len(text)
  BY <1>1 DEF LInv, TokensOK, TokenOK
<1>5. \A i \in DOMAIN pool : Len(pool[i]) + 1 < BufSize
  BY <1>1 DEF LInv, PoolOK
<1> QED
  BY <1>2, <1>3, <1>4, <1>5 DEF LInv, FileOK, BufferOK, TypeOK

-----------------------------------------------------------------------------
(* What the steps have in common *)

\* The lexer went on in the file, or stood still.
Onward ==
  /\ FileOK' /\ source' = source /\ Extends(text, text')
  /\ at \in Nat \ {0} /\ at' \in Nat /\ at <= at' /\ Len(text) <= Len(text')

\* So it does when it takes the next character, or none.
LEMMA OnwardFacts ==
  ASSUME LInv, mode # "init", Advance \/ Hold
  PROVE  Onward
<1>1. FileOK /\ at # 0 /\ at \in Nat \ {0} /\ Len(text) \in Nat
  BY DEF LInv, ReadingOK, FileOK
<1>2. CASE Advance
  <2>1. FileOK' /\ source' = source /\ Extends(text, text')
        /\ at' = IF Ch = EOF THEN at ELSE at + 1
    BY <1>1, <1>2, AdvanceFacts
  <2> QED
    BY <1>1, <2>1 DEF Onward, Extends
<1>3. CASE Hold
  BY <1>1, <1>3 DEF Onward, Extends, FileOK, Hold, file
<1> QED
  BY <1>2, <1>3

\* A step that makes no token and starts none.
LEMMA GoesOn ==
  ASSUME LInv, Onward, UNCHANGED <<toks, pool, err>>,
         tok'.from = tok.from, \E S : tok' \in [from : Nat, line : Nat, col : Nat, c : S],
         BufferOK', mode' \in Modes \ {"name", "init"}, mode' \in Reading => mode \in Reading
  PROVE  LInv'
<1>1. TokensOK(toks, text', pool, err)
  <2>1. text \in Seq(source.chars) /\ text' \in Seq(source.chars) /\ IsSeq(pool)
        /\ Extends(pool, pool) /\ Extends(text, text') /\ err \in BOOLEAN
    BY SeqFacts DEF LInv, FileOK, Onward, PoolOK, Extends
  <2> QED
    BY <2>1, TokensStay DEF LInv
<1>2. ReadingOK'
  <2>1. tok.from \in Nat /\ tok.from <= Len(text) + 1 /\ Len(text) \in Nat
        /\ Len(text') \in Nat /\ (mode \in Reading => tok.from \in 1..at)
    BY DEF LInv, ReadingOK, Onward, FileOK
  <2>2. tok'.from <= Len(text') + 1 /\ (mode' \in Reading => tok'.from \in 1..at')
    BY <2>1 DEF Onward
  <2>3. at' # 0
    BY DEF Onward
  <2> QED
    BY <2>2, <2>3 DEF ReadingOK
<1> QED
  BY <1>1, <1>2 DEF LInv, Onward

\* A step that starts a token.
LEMMA Starts ==
  ASSUME LInv, mode # "init", NEW m \in Reading, m \in Modes, Start(m), Advance \/ Hold,
         m = "name" => Hold
  PROVE  LInv'
<1>1. Onward
  BY OnwardFacts
<1>2. TokensOK(toks, text', pool, err)
  <2>1. text \in Seq(source.chars) /\ text' \in Seq(source.chars) /\ IsSeq(pool)
        /\ Extends(pool, pool) /\ Extends(text, text') /\ err \in BOOLEAN
    BY <1>1, SeqFacts DEF LInv, FileOK, Onward, PoolOK, Extends
  <2> QED
    BY <2>1, TokensStay DEF LInv
<1>3. BufferOK'
  <2>1. IsSeq(<<>>) /\ Len(<<>>) = 0
    BY DEF IsSeq
  <2>2. IsSeq(buf') /\ Len(buf') = 0 /\ overflow' \in BOOLEAN
    BY <2>1 DEF Start
  <2> QED
    BY <2>2, BufAssumption DEF BufferOK
<1>4. m = "name" => buf' = SubSeq(text', tok'.from, at' - 1)
  <2>1. ASSUME m = "name" PROVE buf' = SubSeq(text', tok'.from, at' - 1)
    <3>1. text' = text /\ at' = at /\ tok'.from = at /\ buf' = <<>>
      BY <2>1 DEF Start, Hold, file
    <3>2. text \in Seq(source.chars) /\ at \in Nat \ {0}
      BY <1>1 DEF LInv, FileOK, Onward
    <3>3. SubSeq(text, at, at - 1) = <<>>
      BY <3>2
    <3> QED
      BY <3>1, <3>3
  <2> QED
    BY <2>1
<1>5. ReadingOK'
  <2>1. loc.line \in Nat /\ loc.col \in Nat /\ at \in Nat /\ at <= Len(text) + 1
        /\ Len(text) \in Nat /\ Len(text') \in Nat
    BY <1>1 DEF LInv, FileOK, Onward
  <2>2. tok' \in [from : Nat, line : Nat, col : Nat, c : {Ch}] /\ tok'.from = at
    BY <2>1 DEF Start
  <2>3. tok'.from <= Len(text') + 1 /\ tok'.from \in 1..at' /\ at' # 0
    BY <1>1, <2>1, <2>2 DEF Onward
  <2> QED
    BY <1>4, <2>2, <2>3 DEF Start, ReadingOK, Reading
<1> QED
  BY <1>1, <1>2, <1>3, <1>5 DEF LInv, Onward, Start

\* A step that ends a token.
LEMMA Finishes ==
  ASSUME LInv, Onward, mode \in Reading, NEW k \in Kinds, NEW v, Emit(k, v),
         PoolOK(pool'), Extends(pool, pool'), err' \in BOOLEAN, err => err',
         ~err' /\ k \in {"name", "keyword"} =>
           /\ v \in 1..Len(pool') /\ pool'[v] = SubSeq(text', tok.from, at' - 1)
  PROVE  LInv'
<1>1. /\ tok.from \in 1..at /\ Len(text) \in Nat /\ Len(text') \in Nat
      /\ at' <= Len(text') + 1 /\ tok.from \in Nat /\ tok.from <= Len(text) + 1
  BY DEF LInv, ReadingOK, Onward, FileOK
<1> DEFINE t == [k |-> k, val |-> v, from |-> tok.from, to |-> at' - 1,
                 line |-> tok.line, col |-> tok.col]
<1>2. TokenOK(t, text')
  <2>1. at \in Nat \ {0} /\ at' \in Nat /\ at <= at' /\ Len(text) <= Len(text')
    BY DEF Onward
  <2>2. /\ tok.from \in Int /\ tok.from >= 1 /\ tok.from <= Len(text) + 1
        /\ Len(text) \in Int /\ Len(text') \in Int /\ at \in Int /\ at >= 1 /\ at' \in Int
        /\ at <= at' /\ at' <= Len(text') + 1 /\ Len(text) <= Len(text')
    BY <1>1, <2>1
  <2>3. \A f, a, b, l, m \in Int :
          f >= 1 /\ f <= l + 1 /\ l <= m /\ a >= 1 /\ a <= b /\ b <= m + 1
            => f \in 1..(m + 1) /\ b - 1 \in 0..m
    OBVIOUS
  <2>4. tok.from \in 1..(Len(text') + 1) /\ at' - 1 \in 0..Len(text')
    BY <2>2, <2>3
  <2>5. t.k = k /\ t.from = tok.from /\ t.to = at' - 1
    OBVIOUS
  <2> HIDE DEF t
  <2> QED
    BY <2>4, <2>5 DEF TokenOK
<1>3. NameOK(t, text', pool', err')
  <2>1. tok.from <= at' - 1 + 1
    BY <1>1 DEF Onward
  <2>2. t.k = k /\ t.val = v /\ t.from = tok.from /\ t.to = at' - 1
    OBVIOUS
  <2> HIDE DEF t
  <2> QED
    BY <2>1, <2>2 DEF NameOK
<1>4. TokensOK(Append(toks, t), text', pool', err')
  <2>1. text \in Seq(source.chars) /\ text' \in Seq(source.chars) /\ IsSeq(pool)
        /\ IsSeq(pool') /\ Extends(text, text') /\ err \in BOOLEAN
    BY DEF LInv, FileOK, Onward, PoolOK
  <2> HIDE DEF t
  <2> QED
    BY <1>2, <1>3, <2>1, TokensStay DEF LInv
<1>5. ReadingOK'
  <2>1. mode' \in Modes \ Reading /\ tok' = tok /\ mode' \notin {"name", "init"}
    BY DEF Emit, Modes, Reading
  <2>2. tok.from <= Len(text') + 1 /\ at' # 0
    BY <1>1 DEF Onward
  <2>3. \E S : tok \in [from : Nat, line : Nat, col : Nat, c : S]
    BY DEF LInv, ReadingOK
  <2> QED
    BY <2>1, <2>2, <2>3 DEF ReadingOK
<1>6. BufferOK' /\ toks' = Append(toks, t)
  BY DEF Emit, LInv, BufferOK
<1> QED
  BY <1>4, <1>5, <1>6 DEF LInv, Onward

\* The buffer keeps its bound.
LEMMA PushFacts ==
  ASSUME BufferOK, NEW c, Push(c)
  PROVE  BufferOK' /\ (~overflow' => ~overflow /\ buf' = Append(buf, c))
<1>1. CASE Len(buf) + 2 >= BufSize
  BY <1>1 DEF Push, BufferOK
<1>2. CASE ~(Len(buf) + 2 >= BufSize)
  <2>1. buf' = Append(buf, c) /\ overflow' = overflow
    BY <1>2 DEF Push
  <2>2. IsSeq(buf') /\ Len(buf) \in Nat /\ Len(buf') = Len(buf) + 1
    BY <2>1, AppendFacts DEF BufferOK
  <2> QED
    BY <1>2, <2>1, <2>2, BufAssumption DEF BufferOK
<1> QED
  BY <1>1, <1>2

\* An address is that of one spelling, and a spelling has one.
LEMMA InternFacts ==
  ASSUME PoolOK(pool), BufferOK, NEW v, v = Intern(buf),
         v > Len(pool) => pool' = Append(pool, buf), ~(v > Len(pool)) => pool' = pool
  PROVE  /\ PoolOK(pool') /\ Extends(pool, pool')
         /\ v \in 1..Len(pool') /\ pool'[v] = buf
<1>1. Len(pool) \in Nat /\ DOMAIN pool = 1..Len(pool) /\ IsSeq(pool)
  BY SeqFacts DEF PoolOK
<1>2. CASE \E i \in 1..Len(pool) : pool[i] = buf
  <2>1. v \in 1..Len(pool) /\ pool[v] = buf
    BY <1>1, <1>2 DEF Intern
  <2>2. pool' = pool
    BY <1>1, <2>1
  <2>3. PoolOK(pool')
    BY <2>2, Zenon
  <2>4. Extends(pool, pool)
    BY <1>1 DEF Extends
  <2>5. Extends(pool, pool')
    BY <2>2, <2>4, Zenon
  <2> QED
    BY <2>1, <2>2, <2>3, <2>5
<1>3. CASE ~\E i \in 1..Len(pool) : pool[i] = buf
  <2>1. v = Len(pool) + 1
    BY <1>1, <1>3 DEF Intern
  <2>2. pool' = Append(pool, buf)
    BY <1>1, <2>1
  <2>3. /\ IsSeq(pool') /\ Len(pool') = Len(pool) + 1
        /\ \A i \in 1..Len(pool) : pool'[i] = pool[i]
        /\ pool'[Len(pool) + 1] = buf
    <3>1. LET q == Append(pool, buf) IN
          /\ IsSeq(q) /\ Len(q) = Len(pool) + 1
          /\ \A i \in 1..Len(pool) : q[i] = pool[i]
          /\ q[Len(pool) + 1] = buf
      BY <1>1, AppendFacts
    <3> QED
      BY <2>2, <3>1, Zenon
  <2>4. PoolOK(pool')
    <3>1. \A i \in 1..Len(pool') : i \in 1..Len(pool) \/ i = Len(pool) + 1
      BY <1>1, <2>3
    <3>2. \A i \in 1..Len(pool') : Len(pool'[i]) + 1 < BufSize
      BY <2>3, <3>1 DEF PoolOK, BufferOK
    <3>3. \A i, j \in 1..Len(pool') : pool'[i] = pool'[j] => i = j
      BY <1>3, <2>3, <3>1 DEF PoolOK
    <3> QED
      BY <2>3, <3>2, <3>3 DEF PoolOK
  <2> QED
    BY <1>1, <2>1, <2>3, <2>4 DEF Extends
<1> QED
  BY <1>2, <1>3

-----------------------------------------------------------------------------
(* The steps *)

\* White space and comments.
LEMMA SkipKeeps == ASSUME LInv, Skip PROVE LInv'
<1>1. /\ LInv /\ tok.from = tok.from
      /\ \E S : tok \in [from : Nat, line : Nat, col : Nat, c : S]
  BY DEF LInv, ReadingOK
<1>2. ASSUME Onward, NEW m \in {"skip", "block", "star", "line"}, SkipTo(m) PROVE LInv'
  <2>1. BufferOK' /\ tok' = tok /\ mode' = m /\ UNCHANGED <<toks, pool, err>>
    BY <1>2 DEF SkipTo, LInv, BufferOK
  <2>2. m \in Modes \ {"name", "init"} /\ m \notin Reading
    BY DEF Modes, Reading
  <2>3. \E S : tok' \in [from : Nat, line : Nat, col : Nat, c : S]
    BY <1>1, <2>1
  <2> QED
    BY <1>2, <2>1, <2>2, <2>3, GoesOn
<1>3. CASE SkipSpace
  BY <1>2, <1>3, OnwardFacts DEF SkipSpace
<1>4. CASE Peek
  <2>1. FileOK /\ at \in 1..(Len(text) + 1) /\ at \in Nat /\ Len(text) \in Nat
    BY <1>4 DEF LInv, FileOK, ReadingOK, Peek
  <2>2. at \in 1..Len(text)
    BY <1>4, <2>1, ChFacts DEF Peek, EOF
  <2>3. ReadTo(at + 1) /\ UNCHANGED <<source, at, loc>>
    BY <1>4, <2>1, <2>2, ReachFacts DEF Peek
  <2>4. Onward
    BY <2>1, <2>2, <2>3 DEF ReadTo, Extends, Onward, FileOK
  <2> QED
    BY <1>2, <1>4, <2>4 DEF Peek
<1>5. CASE OpenComment
  <2>1. FileOK /\ at \in 1..(Len(text) - 1) /\ Len(text) \in Nat
    BY <1>5 DEF LInv, FileOK, ReadingOK, OpenComment
  <2>2. FileOK' /\ source' = source /\ Extends(text, text') /\ at' = at + 2
    BY <1>5, <2>1, AdvanceTwiceFacts DEF OpenComment
  <2>3. Onward
    BY <2>1, <2>2 DEF Extends, Onward
  <2> QED
    BY <1>2, <1>5, <2>3 DEF OpenComment
<1>6. CASE BlockComment
  BY <1>2, <1>6, OnwardFacts DEF BlockComment
<1>7. CASE AfterStar
  BY <1>2, <1>7, OnwardFacts DEF AfterStar
<1>8. CASE LineComment
  BY <1>2, <1>8, OnwardFacts DEF LineComment
<1>9. CASE LineOver
  BY <1>2, <1>9, OnwardFacts DEF LineOver
<1> QED
  BY <1>3, <1>4, <1>5, <1>6, <1>7, <1>8, <1>9 DEF Skip

\* Names and numbers.
LEMMA WordKeeps == ASSUME LInv, LexWord PROVE LInv'
<1>1. CASE StartWord
  BY <1>1, Starts DEF StartWord, WordMode, Reading, Modes, Start, AtToken
<1>2. CASE WordChar
  <2>1. Onward /\ mode \in {"name", "number"} /\ UNCHANGED <<mode, tok, toks, pool, err>>
    BY <1>2, OnwardFacts DEF WordChar
  <2>2. BufferOK' /\ (~overflow' => ~overflow /\ buf' = Append(buf, Ch))
    BY <1>2, PushFacts DEF WordChar, LInv
  <2>3. \E S : tok' \in [from : Nat, line : Nat, col : Nat, c : S]
    BY <2>1 DEF LInv, ReadingOK
  <2>4. CASE mode = "number"
    <3>1. mode' \in Modes \ {"name", "init"} /\ mode \in Reading
      BY <2>1, <2>4 DEF Modes, Reading
    <3> QED
      BY <2>1, <2>2, <2>3, <3>1, GoesOn
  <2>5. CASE mode = "name"
    <3>1. Ch # EOF
      BY <1>2, <2>5 DEF WordChar, WordChars, Ident, IdentStart, Letters, Figures, EOF
    <3>2. at \in 1..Len(text) /\ Ch = text[at] /\ FileOK /\ at' = at + 1
      BY <1>2, <3>1, ChFacts, AdvanceFacts DEF WordChar, LInv, ReadingOK
    <3>3. /\ text \in Seq(source.chars) /\ text' \in Seq(source.chars)
          /\ Len(text) \in Nat /\ Len(text') \in Nat /\ Extends(text, text')
      BY <2>1, <3>2 DEF Onward, FileOK
    <3>4. tok.from \in 1..at
      BY <2>5 DEF LInv, ReadingOK, Reading
    <3>5. ~overflow' => buf' = SubSeq(text', tok'.from, at' - 1)
      <4>1. ASSUME ~overflow' PROVE buf' = SubSeq(text, tok.from, at)
        <5>1. buf = SubSeq(text, tok.from, at - 1)
          BY <2>2, <2>5, <4>1 DEF LInv, ReadingOK
        <5>2. \A m, n \in Nat \ {0} : m <= n /\ n <= Len(text) =>
                Append(SubSeq(text, m, n - 1), text[n]) = SubSeq(text, m, n)
          BY <3>3, PartGrows
        <5>3. buf' = Append(SubSeq(text, tok.from, at - 1), text[at])
          BY <2>2, <3>2, <4>1, <5>1
        <5>4. tok.from \in Nat \ {0} /\ at \in Nat \ {0} /\ tok.from <= at /\ at <= Len(text)
          BY <3>2, <3>3, <3>4
        <5> QED
          BY <5>2, <5>3, <5>4
      <4>2. SubSeq(text', tok.from, at) = SubSeq(text, tok.from, at)
        <5>1. \A m \in Nat \ {0}, n \in Nat : m <= n + 1 /\ n <= Len(text) =>
                SubSeq(text', m, n) = SubSeq(text, m, n)
          BY <3>3, PartStays
        <5>2. tok.from \in Nat \ {0} /\ at \in Nat /\ tok.from <= at + 1 /\ at <= Len(text)
          BY <3>2, <3>3, <3>4
        <5> QED
          BY <5>1, <5>2
      <4>3. at' - 1 = at /\ tok' = tok
        BY <2>1, <3>2
      <4> QED
        BY <4>1, <4>2, <4>3
    <3>6. ReadingOK'
      <4>1. mode' \in Modes /\ mode' = "name" /\ at' # 0
        BY <2>1, <2>5, <3>2 DEF Modes
      <4>2. tok'.from <= Len(text') + 1 /\ tok'.from \in 1..at'
        BY <2>1, <3>2, <3>3, <3>4 DEF Onward
      <4> QED
        BY <2>3, <3>5, <4>1, <4>2 DEF ReadingOK
    <3>7. TokensOK(toks, text', pool, err)
      <4>1. IsSeq(pool) /\ Extends(pool, pool) /\ err \in BOOLEAN
        BY SeqFacts DEF LInv, PoolOK, Extends
      <4> QED
        BY <3>3, <4>1, TokensStay DEF LInv
    <3> QED
      BY <2>1, <2>2, <3>6, <3>7 DEF LInv, Onward
  <2> QED
    BY <2>1, <2>4, <2>5
<1>3. CASE NameEnd
  <2>1. Onward /\ mode \in Reading /\ mode = "name" /\ text' = text /\ at' = at
    BY <1>3, OnwardFacts DEF NameEnd, Reading, Hold, file
  <2> DEFINE v == Intern(buf)
  <2>2. /\ PoolOK(pool') /\ Extends(pool, pool')
        /\ v \in 1..Len(pool') /\ pool'[v] = buf
    <3>1. PoolOK(pool) /\ BufferOK /\ v = Intern(buf)
      BY DEF LInv
    <3>2. /\ v > Len(pool) => pool' = Append(pool, buf)
          /\ ~(v > Len(pool)) => pool' = pool
      BY <1>3 DEF NameEnd
    <3> HIDE DEF v
    <3> QED
      BY <3>1, <3>2, InternFacts
  <2>3. ~err' => buf = SubSeq(text', tok.from, at' - 1)
    BY <1>3, <2>1 DEF NameEnd, LInv, ReadingOK
  <2>4. err' \in BOOLEAN /\ (err => err')
    BY <1>3 DEF NameEnd, LInv, BufferOK
  <2>5. PICK k \in Kinds : Emit(k, v)
    BY <1>3 DEF NameEnd, Kinds
  <2> QED
    BY <2>1, <2>2, <2>3, <2>4, <2>5, Finishes
<1>4. CASE NumberEnd
  <2>1. Onward /\ mode \in Reading /\ "int" \in Kinds \ {"name", "keyword"}
    BY <1>4, OnwardFacts DEF NumberEnd, Reading, Kinds
  <2>2. PoolOK(pool') /\ Extends(pool, pool')
    BY <1>4, SeqFacts DEF NumberEnd, LInv, PoolOK, Extends
  <2>3. err' \in BOOLEAN /\ (err => err')
    BY <1>4 DEF NumberEnd, LInv, BufferOK
  <2> QED
    BY <1>4, <2>1, <2>2, <2>3, Finishes DEF NumberEnd
<1> QED
  BY <1>1, <1>2, <1>3, <1>4 DEF LexWord

\* Strings and character constants.
LEMMA QuotedKeeps == ASSUME LInv, LexQuoted PROVE LInv'
<1>1. /\ PoolOK(pool) /\ Extends(pool, pool) /\ err \in BOOLEAN /\ overflow \in BOOLEAN
      /\ BufferOK /\ \E S : tok \in [from : Nat, line : Nat, col : Nat, c : S]
  BY SeqFacts DEF LInv, PoolOK, Extends, BufferOK, ReadingOK
<1>2. CASE StartQuoted
  BY <1>2, Starts DEF StartQuoted, Reading, Modes, Start, AtToken
<1>3. CASE StringChar
  <2>1. Onward /\ BufferOK' /\ mode = "string" /\ UNCHANGED <<mode, tok, toks, pool, err>>
    BY <1>1, <1>3, OnwardFacts, PushFacts DEF StringChar
  <2>2. mode' \in Modes \ {"name", "init"} /\ mode \in Reading
    BY <2>1 DEF Modes, Reading
  <2> QED
    BY <1>1, <2>1, <2>2, GoesOn
<1>4. CASE Backslash
  <2>1. Onward /\ mode \in Reading /\ UNCHANGED <<tok, buf, overflow, toks, pool, err>>
    BY <1>4, OnwardFacts DEF Backslash, Reading
  <2>2. mode' \in Modes \ {"name", "init"} /\ BufferOK'
    BY <1>1, <1>4, <2>1 DEF Backslash, Modes, BufferOK
  <2> QED
    BY <1>1, <2>1, <2>2, GoesOn
<1>5. CASE StringEscape
  <2>1. Onward /\ BufferOK' /\ mode \in Reading /\ UNCHANGED <<tok, toks, pool, err>>
    BY <1>1, <1>5, OnwardFacts, PushFacts DEF StringEscape, Reading
  <2>2. mode' \in Modes \ {"name", "init"}
    BY <1>5 DEF StringEscape, Modes
  <2> QED
    BY <1>1, <2>1, <2>2, GoesOn
<1>6. CASE StringEnd
  <2>1. Onward /\ mode \in Reading /\ "string" \in Kinds \ {"name", "keyword"}
    BY <1>6, OnwardFacts DEF StringEnd, Reading, Kinds
  <2>2. PoolOK(pool') /\ Extends(pool, pool') /\ err' \in BOOLEAN /\ (err => err')
    BY <1>1, <1>6 DEF StringEnd
  <2> QED
    BY <1>6, <2>1, <2>2, Finishes DEF StringEnd
<1>7. CASE CharValue
  <2>1. Onward /\ mode \in Reading /\ UNCHANGED <<buf, overflow, toks, pool, err>>
    BY <1>7, OnwardFacts DEF CharValue, Reading
  <2>2. mode' \in Modes \ {"name", "init"} /\ BufferOK'
    BY <1>1, <1>7, <2>1 DEF CharValue, Modes, BufferOK
  <2>3. tok'.from = tok.from /\ \E S : tok' \in [from : Nat, line : Nat, col : Nat, c : S]
    <3>1. PICK S : tok \in [from : Nat, line : Nat, col : Nat, c : S]
      BY <1>1
    <3>2. tok' \in [from : Nat, line : Nat, col : Nat, c : S \cup {Ch, Escape(Ch)}]
      BY <1>7, <3>1 DEF CharValue
    <3> QED
      BY <1>7, <3>1, <3>2 DEF CharValue
  <2> QED
    BY <2>1, <2>2, <2>3, GoesOn
<1>8. CASE CharEnd
  <2>1. Onward /\ mode \in Reading /\ "char" \in Kinds \ {"name", "keyword"}
    BY <1>8, OnwardFacts DEF CharEnd, Reading, Kinds
  <2>2. PoolOK(pool') /\ Extends(pool, pool') /\ err' \in BOOLEAN /\ (err => err')
    BY <1>1, <1>8 DEF CharEnd
  <2> QED
    BY <1>8, <2>1, <2>2, Finishes DEF CharEnd
<1> QED
  BY <1>2, <1>3, <1>4, <1>5, <1>6, <1>7, <1>8 DEF LexQuoted

\* Operators and the end of the file.
LEMMA OtherKeeps == ASSUME LInv, LexOther PROVE LInv'
<1>1. CASE EndOfFile
  <2> DEFINE t == [k |-> "eof", val |-> 0, from |-> at, to |-> at - 1,
                   line |-> loc.line, col |-> IF loc.col = 0 THEN 1 ELSE loc.col]
  <2>1. /\ mode # "init" /\ Hold /\ mode' = "done" /\ toks' = Append(toks, t)
        /\ UNCHANGED <<tok, buf, overflow, pool, err>>
    BY <1>1 DEF EndOfFile, AtToken, CommentCut
  <2>2. Onward /\ text' = text /\ at' = at
    BY <2>1, OnwardFacts DEF Hold, file
  <2>3. at \in Nat \ {0} /\ at <= Len(text) + 1 /\ Len(text) \in Nat
    BY <2>2 DEF LInv, FileOK, Onward
  <2>4. TokenOK(t, text)
    BY <2>3 DEF TokenOK, Kinds
  <2>5. NameOK(t, text, pool, err)
    BY DEF NameOK
  <2>6. TokensOK(Append(toks, t), text, pool, err)
    <3>1. /\ text \in Seq(source.chars) /\ IsSeq(pool) /\ Extends(pool, pool)
          /\ Extends(text, text) /\ err \in BOOLEAN
      BY <2>3, SeqFacts DEF LInv, FileOK, PoolOK, Extends
    <3> HIDE DEF t
    <3> QED
      BY <2>4, <2>5, <3>1, TokensStay DEF LInv
  <2>7. ReadingOK' /\ BufferOK'
    BY <2>1, <2>2, <2>3 DEF LInv, ReadingOK, BufferOK, Modes, Reading
  <2> QED
    BY <2>1, <2>2, <2>6, <2>7 DEF LInv, Onward
<1>2. CASE StartOperator
  BY <1>2, Starts DEF StartOperator, Reading, Modes, Start, AtToken
<1>3. CASE Operator
  <2>1. Onward /\ mode \in Reading /\ UNCHANGED <<pool, err>>
    BY <1>3, OnwardFacts DEF Operator, Reading
  <2>2. PICK k \in Kinds \ {"name", "keyword"} : Emit(k, 0)
    BY <1>3 DEF Operator, Kinds
  <2>3. PoolOK(pool') /\ Extends(pool, pool') /\ err' \in BOOLEAN /\ (err => err')
    BY <2>1, SeqFacts DEF LInv, PoolOK, Extends
  <2> QED
    BY <2>1, <2>2, <2>3, Finishes
<1> QED
  BY <1>1, <1>2, <1>3 DEF LexOther

-----------------------------------------------------------------------------
(* The theorems *)

\* The invariant holds before the file is opened.
LEMMA LInvInit == Init => LInv
<1> SUFFICES ASSUME Init PROVE LInv
  OBVIOUS
<1>1. IsSeq(<<>>) /\ Len(<<>>) = 0 /\ <<>> \in Seq(source.chars)
  BY DEF IsSeq
<1>2. text = <<>> /\ buf = <<>> /\ toks = <<>> /\ pool = <<>>
  BY DEF Init
<1>3. /\ text \in Seq(source.chars) /\ Len(text) = 0 /\ IsSeq(buf) /\ Len(buf) = 0
      /\ IsSeq(toks) /\ Len(toks) = 0 /\ IsSeq(pool) /\ Len(pool) = 0
  BY <1>1, <1>2, Zenon
<1>4. FileOK
  <2>1. source \in Sources /\ ended \in BOOLEAN /\ at = 0 /\ loc = [line |-> 1, col |-> 0]
    BY DEF Init
  <2>2. source.most \in Nat
    BY <2>1, SourceAssumption
  <2> QED
    BY <1>3, <2>1, <2>2 DEF FileOK
<1>5. ReadingOK
  <2>1. tok \in [from : Nat, line : Nat, col : Nat, c : {EOF}] /\ tok.from = 0
    BY DEF Init
  <2>2. mode = "init" /\ at = 0
    BY DEF Init
  <2>3. \E S : tok \in [from : Nat, line : Nat, col : Nat, c : S]
    BY <2>1, Zenon
  <2> QED
    BY <1>3, <2>1, <2>2, <2>3 DEF ReadingOK, Modes, Reading
<1>6. BufferOK
  <2>1. overflow \in BOOLEAN
    BY DEF Init
  <2> QED
    BY <1>3, <2>1, BufAssumption DEF BufferOK
<1>7. TokensOK(toks, text, pool, err) /\ PoolOK(pool) /\ err \in BOOLEAN
  <2>1. err \in BOOLEAN
    BY DEF Init
  <2> QED
    BY <1>3, <2>1 DEF TokensOK, PoolOK
<1> QED
  BY <1>4, <1>5, <1>6, <1>7 DEF LInv

\* Every step keeps it.
LEMMA LInvNext == LInv /\ [Next]_vars => LInv'
<1> SUFFICES ASSUME LInv, [Next]_vars PROVE LInv'
  OBVIOUS
<1>1. CASE LexInit
  <2>1. /\ ReadTo(1) /\ source' = source /\ at' = 1 /\ mode' = "skip"
        /\ loc' = Moved(loc, Char(text', 1)) /\ UNCHANGED <<tok, buf, overflow, toks, pool, err>>
    <3>1. FileOK /\ 1 \in 1..(Len(text) + 1)
      BY DEF LInv, FileOK
    <3> QED
      BY <1>1, <3>1, ReachFacts DEF LexInit
  <2>2. /\ at = 0 /\ loc.col = 0 /\ loc \in [line : Nat \ {0}, col : Nat]
        /\ Len(text) \in Nat /\ Len(text') \in Nat
    BY <1>1, <2>1 DEF LexInit, LInv, FileOK, ReadingOK, ReadTo
  <2>3. FileOK'
    <3>1. /\ loc' \in [line : Nat \ {0}, col : Nat] /\ loc'.col <= 1
          /\ Char(text', 1) = EOF => loc' = loc
      BY <2>1, <2>2, MovedFacts
    <3>2. 1 <= Len(text') \/ Char(text', 1) = EOF
      BY <2>2 DEF Char
    <3> QED
      BY <2>1, <2>2, <3>1, <3>2 DEF FileOK, ReadTo, LInv
  <2>4. TokensOK(toks, text', pool, err)
    <3>1. /\ text \in Seq(source.chars) /\ text' \in Seq(source.chars) /\ IsSeq(pool)
          /\ Extends(pool, pool) /\ Extends(text, text') /\ err \in BOOLEAN
      BY <2>1, SeqFacts DEF LInv, FileOK, ReadTo, PoolOK, Extends
    <3> QED
      BY <3>1, TokensStay DEF LInv
  <2>5. ReadingOK'
    BY <2>1, <2>2 DEF LInv, ReadingOK, ReadTo, Extends, Modes, Reading
  <2>6. BufferOK' /\ PoolOK(pool') /\ err' \in BOOLEAN /\ TokensOK(toks', text', pool', err')
    BY <2>1, <2>4 DEF LInv, BufferOK
  <2> QED
    BY <2>3, <2>5, <2>6 DEF LInv
<1>2. CASE Skip
  BY <1>2, SkipKeeps
<1>3. CASE LexWord
  BY <1>3, WordKeeps
<1>4. CASE LexQuoted
  BY <1>4, QuotedKeeps
<1>5. CASE LexOther
  BY <1>5, OtherKeeps
<1>6. CASE Done \/ UNCHANGED vars
  BY <1>6 DEF Done, vars, file, LInv, FileOK, ReadingOK, BufferOK
<1> QED
  BY <1>1, <1>2, <1>3, <1>4, <1>5, <1>6 DEF Next

\* Whatever the file, the reserved words and the size of the buffer: two names
\* of which neither was reported as too long have one address in the string
\* pool exactly if they are spelled alike, so sym_lookup's comparison of
\* addresses is one of names (lexer.c:243, strpool.c:36).
THEOREM NamesByAddress == Spec => []SameName
<1>1. Init => LInv
  BY LInvInit
<1>2. LInv /\ [Next]_vars => LInv'
  BY LInvNext
<1>3. LInv => SameName
  BY LInvNames
<1> QED
  BY <1>1, <1>2, <1>3, PTL DEF Spec

\* And cc1_tokbuf_push never writes past the end of the token buffer, with the
\* final zero cc1_tokbuf_end adds (lexer.c:44).
THEOREM LexerTypes == Spec => []TypeOK
<1>1. Init => LInv
  BY LInvInit
<1>2. LInv /\ [Next]_vars => LInv'
  BY LInvNext
<1>3. LInv => TypeOK
  BY LInvTypes
<1> QED
  BY <1>1, <1>2, <1>3, PTL DEF Spec
-----------------------------------------------------------------------------
(* Lines and columns *)

Newlines(s, q) == {i \in 1..q : s[i] = "\n"}
LastNewline(s, q) == IF Newlines(s, q) = {} THEN 0 ELSE Max(Newlines(s, q))
\* The line and the column of the q-th character.
IsAt(l, s, q) == l.line = 1 + Cardinality(Newlines(s, q)) /\ l.col = q - LastNewline(s, q)

\* lx->line and lx->col are those of lx->ch, or of the last character.
LocOK == IsAt(loc, text, IF at <= Len(text) THEN at ELSE Len(text))

\* A token keeps those of its first character.
Begins(t, s) ==
  /\ t.line = 1 + Cardinality(Newlines(s, t.from - 1))
  /\ t.col = t.from - LastNewline(s, t.from - 1)
Placed(t, s) ==
  /\ t.line = 1 + Cardinality(Newlines(s, t.from - 1))
  /\ t.from <= t.to => t.col = t.from - LastNewline(s, t.from - 1)

PlaceInv ==
  /\ LocOK
  /\ mode \in Reading => Begins(tok, text)
  /\ \A i \in 1..Len(toks) : Placed(toks[i], text)

\* There are finitely many newlines, and the last is the greatest.
LEMMA NewlineFacts ==
  ASSUME NEW s, NEW q \in Nat
  PROVE  /\ IsFiniteSet(Newlines(s, q)) /\ Cardinality(Newlines(s, q)) \in Nat
         /\ LastNewline(s, q) \in 0..q
<1> DEFINE N == Newlines(s, q)
<1>1. N \in SUBSET Nat /\ \A i \in N : i <= q /\ i > 0
  BY DEF Newlines
<1>2. IsFiniteSet(N)
  BY <1>1, FS_BoundedSetOfNaturals
<1>3. Cardinality(N) \in Nat
  BY <1>2, FS_CardinalityType
<1>4. N # {} => \E x \in N : \A y \in N : x >= y
  <2> SUFFICES ASSUME N # {} PROVE \E x \in N : \A y \in N : x >= y
    OBVIOUS
  <2> DEFINE T == {q - i : i \in N}
  <2>1. T \in SUBSET Nat /\ T # {}
    BY <1>1
  <2>2. PICK m \in T : \A k \in T : m <= k
    BY <2>1, LeastNat
  <2>3. PICK x \in N : m = q - x
    BY <2>2
  <2>4. ASSUME NEW y \in N PROVE x >= y
    <3>1. m <= q - y
      BY <2>2
    <3> QED
      BY <1>1, <2>3, <3>1
  <2> QED
    BY <2>4
<1>5. N # {} => Max(N) \in N
  BY <1>4 DEF Max
<1> QED
  BY <1>1, <1>2, <1>3, <1>5 DEF LastNewline

\* The q-th character is a newline, or not.
LEMMA NewlineStep ==
  ASSUME NEW s, NEW q \in Nat \ {0}
  PROVE  /\ s[q] = "\n" =>
              /\ Cardinality(Newlines(s, q)) = Cardinality(Newlines(s, q - 1)) + 1
              /\ LastNewline(s, q) = q
         /\ s[q] # "\n" => Newlines(s, q) = Newlines(s, q - 1)
<1> DEFINE N == Newlines(s, q)
           M == Newlines(s, q - 1)
<1>1. CASE s[q] # "\n"
  <2>1. ASSUME NEW i \in 1..q, s[i] = "\n" PROVE i \in 1..(q - 1)
    BY <1>1, <2>1
  <2>2. 1..(q - 1) \subseteq 1..q
    OBVIOUS
  <2> QED
    BY <1>1, <2>1, <2>2 DEF Newlines
<1>2. CASE s[q] = "\n"
  <2>1. N = M \cup {q} /\ q \notin M
    BY <1>2 DEF Newlines
  <2>2. Cardinality(N) = Cardinality(M) + 1
    <3>1. IsFiniteSet(M)
      <4>1. q - 1 \in Nat
        OBVIOUS
      <4> QED
        BY <4>1, NewlineFacts
    <3> HIDE DEF M, N
    <3> QED
      BY <2>1, <3>1, FS_AddElement
  <2>3. Max(N) = q
    <3>1. q \in N /\ \A y \in N : y \in Nat /\ q >= y
      BY <1>2 DEF Newlines
    <3>2. \A x \in N : (\A y \in N : x >= y) => x = q
      BY <3>1
    <3> QED
      BY <3>1, <3>2 DEF Max
  <2> QED
    BY <1>2, <2>1, <2>2, <2>3 DEF LastNewline
<1> QED
  BY <1>1, <1>2

\* Reading on changes no newline.
LEMMA NewlinesStay ==
  ASSUME NEW s, NEW u, Extends(s, u), Len(s) \in Nat, NEW q \in Int, q <= Len(s)
  PROVE  Newlines(u, q) = Newlines(s, q) /\ LastNewline(u, q) = LastNewline(s, q)
<1>1. \A i \in 1..q : u[i] = s[i]
  BY DEF Extends
<1> QED
  BY <1>1 DEF Newlines, LastNewline

\* cc1_lex_getc keeps count.
LEMMA MovedRight ==
  ASSUME NEW l \in [line : Nat \ {0}, col : Nat], NEW s, NEW q \in Nat \ {0}, NEW c,
         IsAt(l, s, q - 1), c = s[q], c # EOF
  PROVE  IsAt(Moved(l, c), s, q)
<1>1. LastNewline(s, q - 1) \in Int /\ Cardinality(Newlines(s, q - 1)) \in Nat
  BY NewlineFacts
<1>2. CASE c = "\n"
  <2>1. Moved(l, c).line = l.line + 1 /\ Moved(l, c).col = 0
    BY <1>2 DEF Moved
  <2>2. Cardinality(Newlines(s, q)) = Cardinality(Newlines(s, q - 1)) + 1 /\ LastNewline(s, q) = q
    BY <1>2, NewlineStep
  <2> QED
    BY <1>1, <2>1, <2>2 DEF IsAt
<1>3. CASE c # "\n"
  <2>1. Moved(l, c).line = l.line /\ Moved(l, c).col = l.col + 1
    BY <1>3 DEF Moved
  <2>2. Newlines(s, q) = Newlines(s, q - 1) /\ LastNewline(s, q) = LastNewline(s, q - 1)
    BY <1>3, NewlineStep DEF LastNewline
  <2> QED
    BY <1>1, <2>1, <2>2 DEF IsAt
<1> QED
  BY <1>2, <1>3

\* The lexer is where it was, whatever was read behind it.
LEMMA LocStands ==
  ASSUME FileOK, LocOK, ReadTo(at), at' = at, loc' = loc
  PROVE  LocOK'
<1>1. Len(text) \in Nat /\ Len(text') \in Nat /\ Extends(text, text') /\ at \in Nat
      /\ at <= Len(text) + 1 /\ (at = Len(text) + 1 => text' = text)
  BY DEF ReadTo, FileOK
<1>2. CASE at <= Len(text)
  <2>1. at <= Len(text')
    BY <1>1, <1>2 DEF Extends
  <2> QED
    BY <1>1, <1>2, <2>1, NewlinesStay DEF LocOK, IsAt
<1>3. CASE ~(at <= Len(text))
  BY <1>1, <1>3 DEF LocOK
<1> QED
  BY <1>2, <1>3

\* It is at the character after q, of which the line and the column were known.
LEMMA LocMoves ==
  ASSUME NEW q \in Nat, FileOK, text' \in Seq(source.chars), source \in Sources, at' = q + 1,
         q <= Len(text'), q + 1 <= Len(text') \/ Char(text', q + 1) = EOF,
         NEW l \in [line : Nat \ {0}, col : Nat], IsAt(l, text', q), loc' = Moved(l, Char(text', q + 1))
  PROVE  LocOK'
<1>1. Len(text') \in Nat /\ DOMAIN text' = 1..Len(text')
  OBVIOUS
<1>2. CASE q + 1 <= Len(text')
  <2>1. Char(text', q + 1) = text'[q + 1] /\ text'[q + 1] \in source.chars
    BY <1>1, <1>2 DEF Char
  <2>2. text'[q + 1] # EOF
    BY <2>1, SourceAssumption DEF EOF
  <2>3. IsAt(l, text', (q + 1) - 1) /\ q + 1 \in Nat \ {0}
    OBVIOUS
  <2>4. IsAt(loc', text', q + 1)
    BY <2>1, <2>2, <2>3, MovedRight
  <2> QED
    BY <1>2, <2>4 DEF LocOK
<1>3. CASE ~(q + 1 <= Len(text'))
  <2>1. q = Len(text') /\ loc' = l
    BY <1>1, <1>3 DEF Moved
  <2> QED
    BY <1>1, <1>3, <2>1 DEF LocOK
<1> QED
  BY <1>2, <1>3

\* In any step the lexer takes the next character, or none.
LEMMA LocOnward ==
  ASSUME LInv, LocOK, mode # "init", Advance \/ Hold
  PROVE  LocOK'
<1>1. FileOK /\ at # 0 /\ at \in Nat \ {0} /\ Len(text) \in Nat
  BY DEF LInv, ReadingOK, FileOK
<1>2. CASE Hold
  <2>1. text' = text /\ at' = at /\ loc' = loc
    BY <1>2 DEF Hold, file
  <2> QED
    BY <2>1 DEF LocOK
<1>3. CASE Advance
  <2>1. FileOK' /\ source' = source /\ Extends(text, text')
        /\ at' = (IF Ch = EOF THEN at ELSE at + 1) /\ (Ch = EOF => text' = text)
    BY <1>1, <1>3, AdvanceFacts
  <2>2. loc' = Moved(loc, Char(text', at + 1))
    BY <1>3 DEF Advance
  <2>3. CASE Ch = EOF
    <3>1. at = Len(text) + 1
      BY <1>1, <2>3, ChFacts
    <3>2. loc' = loc
      BY <1>1, <2>1, <2>2, <2>3, <3>1 DEF Char, Moved, FileOK
    <3> QED
      BY <2>1, <2>3, <3>2 DEF LocOK
  <2>4. CASE Ch # EOF
    <3>1. at \in 1..Len(text) /\ Len(text') \in Nat
      BY <1>1, <2>1, <2>4, ChFacts DEF FileOK
    <3>2. IsAt(loc, text, at)
      BY <3>1 DEF LocOK
    <3>3. IsAt(loc, text', at)
      BY <2>1, <3>1, <3>2, NewlinesStay DEF IsAt
    <3>4. ReadTo(at + 1)
      BY <1>1, <1>3, <3>1, ReachFacts DEF Advance
    <3>5. at <= Len(text') /\ (at + 1 <= Len(text') \/ Char(text', at + 1) = EOF)
      BY <2>1, <3>1, <3>4 DEF ReadTo, Extends, Char
    <3>6. loc \in [line : Nat \ {0}, col : Nat]
      BY <1>1 DEF FileOK
    <3>7. at' = at + 1 /\ text' \in Seq(source.chars) /\ source \in Sources
      BY <1>1, <2>1, <2>4 DEF FileOK
    <3> QED
      BY <1>1, <2>2, <3>3, <3>5, <3>6, <3>7, LocMoves
  <2> QED
    BY <2>3, <2>4
<1> QED
  BY <1>2, <1>3

\* What was made keeps its place.
LEMMA PlacesStay ==
  ASSUME LInv, PlaceInv, Extends(text, text')
  PROVE  /\ mode \in Reading => Begins(tok, text')
         /\ \A i \in 1..Len(toks) : Placed(toks[i], text')
<1>1. Len(text) \in Nat
  BY DEF LInv, FileOK
<1>2. ASSUME NEW q \in Int, q <= Len(text)
      PROVE  Newlines(text', q) = Newlines(text, q) /\ LastNewline(text', q) = LastNewline(text, q)
  BY <1>1, <1>2, NewlinesStay
<1>3. mode \in Reading => Begins(tok, text')
  <2> SUFFICES ASSUME mode \in Reading PROVE Begins(tok, text')
    OBVIOUS
  <2>1. tok.from - 1 \in Int /\ tok.from - 1 <= Len(text)
    BY <1>1 DEF LInv, ReadingOK
  <2> QED
    BY <1>2, <2>1 DEF PlaceInv, Begins
<1>4. ASSUME NEW i \in 1..Len(toks) PROVE Placed(toks[i], text')
  <2>1. toks[i].from - 1 \in Int /\ toks[i].from - 1 <= Len(text)
    BY <1>1 DEF LInv, TokensOK, TokenOK
  <2> QED
    BY <1>2, <2>1 DEF PlaceInv, Placed
<1> QED
  BY <1>3, <1>4

\* A step that makes no token and starts none.
LEMMA PlaceGoesOn ==
  ASSUME LInv, PlaceInv, Extends(text, text'), LocOK', toks' = toks,
         mode' \in Reading => /\ mode \in Reading
                              /\ tok'.from = tok.from /\ tok'.line = tok.line /\ tok'.col = tok.col
  PROVE  PlaceInv'
BY PlacesStay DEF PlaceInv, Begins

\* A step that starts one: lx->ch is no newline.
LEMMA PlaceStarts ==
  ASSUME LInv, PlaceInv, NEW m, Start(m), Ch # EOF, Advance \/ Hold
  PROVE  PlaceInv'
<1>1. mode # "init" /\ toks' = toks /\ tok'.from = at /\ tok'.line = loc.line
      /\ tok'.col = IF loc.col = 0 THEN 1 ELSE loc.col
  BY DEF Start, AtToken
<1>2. LocOK' /\ Onward
  BY <1>1, LocOnward, OnwardFacts DEF PlaceInv
<1>3. at \in 1..Len(text) /\ Ch = text[at] /\ Len(text) \in Nat
  <2>1. FileOK /\ at # 0
    BY <1>1 DEF LInv, ReadingOK
  <2> QED
    BY <2>1, ChFacts DEF FileOK
<1>4. text[at] # "\n"
  BY <1>3 DEF Start, AtToken, Spaces
<1>5. IsAt(loc, text, at) /\ at \in Nat \ {0} /\ at - 1 \in Nat
  BY <1>3 DEF PlaceInv, LocOK
<1>6. Newlines(text, at) = Newlines(text, at - 1) /\ LastNewline(text, at) = LastNewline(text, at - 1)
  BY <1>4, <1>5, NewlineStep DEF LastNewline
<1>7. LastNewline(text, at - 1) \in 0..(at - 1)
  BY <1>5, NewlineFacts
<1>8. loc.line = 1 + Cardinality(Newlines(text, at - 1)) /\ loc.col = at - LastNewline(text, at - 1)
  BY <1>5, <1>6 DEF IsAt
<1>9. tok'.col = at - LastNewline(text, at - 1)
  BY <1>1, <1>5, <1>7, <1>8
<1>10. /\ Newlines(text', at - 1) = Newlines(text, at - 1)
       /\ LastNewline(text', at - 1) = LastNewline(text, at - 1)
  BY <1>2, <1>3, NewlinesStay DEF Onward
<1>11. Begins(tok', text')
  BY <1>1, <1>8, <1>9, <1>10 DEF Begins
<1>12. \A i \in 1..Len(toks) : Placed(toks[i], text')
  BY <1>2, PlacesStay DEF Onward
<1> QED
  BY <1>1, <1>2, <1>11, <1>12 DEF PlaceInv

\* One more token in its place.
LEMMA PlaceAdded ==
  ASSUME LInv, PlaceInv, Extends(text, text'), LocOK', NEW t, toks' = Append(toks, t),
         Placed(t, text'), mode' \notin Reading
  PROVE  PlaceInv'
<1>1. \A i \in 1..Len(toks) : Placed(toks[i], text')
  BY PlacesStay
<1>2. IsSeq(toks)
  BY DEF LInv, TokensOK
<1>3. /\ Len(toks) \in Nat /\ Len(toks') = Len(toks) + 1 /\ toks'[Len(toks) + 1] = t
      /\ \A i \in 1..Len(toks) : toks'[i] = toks[i]
  BY <1>2, AppendFacts
<1>4. \A i \in 1..Len(toks') : Placed(toks'[i], text')
  BY <1>1, <1>3
<1> QED
  BY <1>4 DEF PlaceInv

\* A step that ends one.
LEMMA PlaceFinishes ==
  ASSUME LInv, PlaceInv, mode \in Reading, NEW k, NEW v, Emit(k, v), Advance \/ Hold
  PROVE  PlaceInv'
<1> DEFINE t == [k |-> k, val |-> v, from |-> tok.from, to |-> at' - 1,
                 line |-> tok.line, col |-> tok.col]
<1>1. toks' = Append(toks, t) /\ mode' \in {"done", "skip"}
  BY DEF Emit
<1>2. mode # "init"
  BY DEF Reading
<1>3. LocOK' /\ Extends(text, text')
  BY <1>2, LocOnward, OnwardFacts DEF PlaceInv, Onward
<1>4. Begins(tok, text')
  BY <1>3, PlacesStay
<1>5. Placed(t, text')
  BY <1>4 DEF Begins, Placed
<1>6. mode' \notin Reading
  BY <1>1 DEF Reading
<1> HIDE DEF t
<1> QED
  BY <1>1, <1>3, <1>5, <1>6, PlaceAdded

\* White space and comments.
LEMMA PlaceSkip == ASSUME LInv, PlaceInv, Skip PROVE PlaceInv'
<1>1. ASSUME LocOK', Extends(text, text'), NEW m \in {"skip", "block", "star", "line"}, SkipTo(m)
      PROVE  PlaceInv'
  <2>1. toks' = toks /\ mode' \notin Reading
    BY <1>1 DEF SkipTo, Reading
  <2> QED
    BY <1>1, <2>1, PlaceGoesOn
<1>2. ASSUME mode # "init", Advance \/ Hold PROVE LocOK' /\ Extends(text, text')
  BY <1>2, LocOnward, OnwardFacts DEF PlaceInv, Onward
<1>3. CASE SkipSpace \/ BlockComment \/ AfterStar \/ LineComment \/ LineOver
  BY <1>1, <1>2, <1>3 DEF SkipSpace, BlockComment, AfterStar, LineComment, LineOver
<1>4. CASE Peek
  <2>1. FileOK /\ at \in 1..(Len(text) + 1) /\ at \in Nat /\ Len(text) \in Nat
    BY <1>4 DEF LInv, FileOK, ReadingOK, Peek
  <2>2. at \in 1..Len(text)
    BY <1>4, <2>1, ChFacts DEF Peek, EOF
  <2>3. ReadTo(at + 1) /\ UNCHANGED <<source, at, loc>>
    BY <1>4, <2>1, <2>2, ReachFacts DEF Peek
  <2>4. ReadTo(at)
    BY <2>1, <2>2, <2>3 DEF ReadTo, Extends, FileOK
  <2>5. LocOK' /\ Extends(text, text')
    BY <2>1, <2>3, <2>4, LocStands DEF PlaceInv, ReadTo
  <2> QED
    BY <1>1, <1>4, <2>5 DEF Peek
<1>5. CASE OpenComment
  <2>1. FileOK /\ at \in 1..(Len(text) - 1) /\ Len(text) \in Nat
    BY <1>5 DEF LInv, FileOK, ReadingOK, OpenComment
  <2>2. FileOK' /\ source' = source /\ Extends(text, text') /\ at' = at + 2
    BY <1>5, <2>1, AdvanceTwiceFacts DEF OpenComment
  <2> DEFINE l == Moved(loc, text[at + 1])
  <2>3. IsAt(loc, text, at) /\ loc \in [line : Nat \ {0}, col : Nat] /\ text[at + 1] # EOF
    BY <1>5, <2>1 DEF PlaceInv, LocOK, FileOK, OpenComment, EOF
  <2>4. l \in [line : Nat \ {0}, col : Nat] /\ IsAt(l, text, at + 1)
    <3>1. (at + 1) - 1 = at /\ at + 1 \in Nat \ {0}
      BY <2>1
    <3> QED
      BY <2>3, <3>1, MovedFacts, MovedRight
  <2>5. IsAt(l, text', at + 1)
    <3> HIDE DEF l
    <3> QED
      BY <2>1, <2>2, <2>4, NewlinesStay DEF IsAt
  <2>6. loc' = Moved(l, Char(text', at + 2)) /\ ReadTo(at + 2)
    BY <1>5, <2>1, ReachFacts DEF OpenComment, AdvanceTwice
  <2> HIDE DEF l
  <2>7. LocOK'
    <3>1. PICK q \in Nat : q = at + 1
      BY <2>1
    <3>2. at' = q + 1 /\ at + 2 = q + 1 /\ q <= Len(text')
      BY <2>1, <2>2, <3>1 DEF Extends, FileOK
    <3>3. q + 1 <= Len(text') \/ Char(text', q + 1) = EOF
      BY <2>2, <2>6, <3>2 DEF ReadTo, Char, FileOK
    <3>4. text' \in Seq(source.chars) /\ source \in Sources
      BY <2>2 DEF FileOK
    <3>5. IsAt(l, text', q) /\ loc' = Moved(l, Char(text', q + 1))
      BY <2>5, <2>6, <3>1, <3>2
    <3> QED
      BY <2>1, <2>4, <3>2, <3>3, <3>4, <3>5, LocMoves
  <2> QED
    BY <1>1, <1>5, <2>2, <2>7 DEF OpenComment
<1> QED
  BY <1>3, <1>4, <1>5 DEF Skip

\* Tokens.
LEMMA PlaceTokens == ASSUME LInv, PlaceInv, LexWord \/ LexQuoted \/ LexOther PROVE PlaceInv'
<1>1. ASSUME mode # "init", Advance \/ Hold PROVE LocOK' /\ Extends(text, text')
  BY <1>1, LocOnward, OnwardFacts DEF PlaceInv, Onward
<1>2. CASE StartWord \/ StartQuoted \/ StartOperator
  <2>1. Ch # EOF
    BY <1>2 DEF StartWord, StartQuoted, StartOperator, Ident, IdentStart, Letters, Figures, EOF
  <2> QED
    BY <1>2, <2>1, PlaceStarts DEF StartWord, StartQuoted, StartOperator
<1>3. CASE WordChar \/ StringChar \/ StringEscape \/ Backslash \/ CharValue
  <2>1. mode \in Reading /\ mode # "init" /\ (Advance \/ Hold) /\ toks' = toks
        /\ tok'.from = tok.from /\ tok'.line = tok.line /\ tok'.col = tok.col
    <3>1. mode \in Reading /\ (Advance \/ Hold) /\ toks' = toks
      BY <1>3 DEF WordChar, StringChar, StringEscape, Backslash, CharValue, Reading
    <3>2. tok' = tok \/ \E c : tok' = [tok EXCEPT !.c = c]
      BY <1>3 DEF WordChar, StringChar, StringEscape, Backslash, CharValue
    <3>3. PICK S : tok \in [from : Nat, line : Nat, col : Nat, c : S]
      BY DEF LInv, ReadingOK
    <3>4. tok'.from = tok.from /\ tok'.line = tok.line /\ tok'.col = tok.col
      BY <3>2, <3>3
    <3> QED
      BY <3>1, <3>4 DEF Reading
  <2> QED
    BY <1>1, <2>1, PlaceGoesOn
<1>4. CASE NameEnd \/ NumberEnd \/ StringEnd \/ CharEnd \/ Operator
  <2>1. mode \in Reading /\ (Advance \/ Hold) /\ \E k, v : Emit(k, v)
    BY <1>4 DEF NameEnd, NumberEnd, StringEnd, CharEnd, Operator, Reading
  <2> QED
    BY <2>1, PlaceFinishes
<1>5. CASE EndOfFile
  <2> DEFINE t == [k |-> "eof", val |-> 0, from |-> at, to |-> at - 1,
                   line |-> loc.line, col |-> IF loc.col = 0 THEN 1 ELSE loc.col]
  <2>1. mode # "init" /\ Hold /\ mode' = "done" /\ toks' = Append(toks, t)
    BY <1>5 DEF EndOfFile, AtToken, CommentCut
  <2>2. LocOK' /\ Extends(text, text') /\ text' = text
    BY <1>1, <2>1 DEF Hold, file
  <2>3. at = Len(text) + 1 /\ Len(text) \in Nat
    BY <1>5, <2>1, ChFacts DEF EndOfFile, LInv, ReadingOK, FileOK
  <2>4. Placed(t, text')
    <3>1. IsAt(loc, text, Len(text))
      BY <2>3 DEF PlaceInv, LocOK
    <3>2. at - 1 = Len(text) /\ ~(at <= at - 1)
      BY <2>3
    <3> QED
      BY <2>2, <3>1, <3>2 DEF Placed, IsAt
  <2>5. mode' \notin Reading
    BY <2>1 DEF Reading
  <2> HIDE DEF t
  <2> QED
    BY <2>1, <2>2, <2>4, <2>5, PlaceAdded
<1> QED
  BY <1>2, <1>3, <1>4, <1>5 DEF LexWord, LexQuoted, LexOther

\* Every step keeps the places.
LEMMA PlaceNext == LInv /\ PlaceInv /\ [Next]_vars => PlaceInv'
<1> SUFFICES ASSUME LInv, PlaceInv, [Next]_vars PROVE PlaceInv'
  OBVIOUS
<1>1. CASE LexInit
  <2>1. at = 0 /\ at' = 1 /\ mode' = "skip" /\ toks' = toks /\ loc' = Moved(loc, Char(text', 1))
    BY <1>1 DEF LexInit, LInv, ReadingOK
  <2>2. FileOK /\ ReadTo(1) /\ source' = source
    BY <1>1, ReachFacts DEF LexInit, LInv, FileOK
  <2>3. IsAt(loc, text, 0) /\ Len(text) \in Nat
    BY <2>1 DEF PlaceInv, LocOK, LInv, FileOK
  <2>4. IsAt(loc, text', 0)
    BY <2>2, <2>3, NewlinesStay DEF IsAt, ReadTo
  <2>5. LocOK'
    <3>1. loc \in [line : Nat \ {0}, col : Nat] /\ text' \in Seq(source.chars) /\ source \in Sources
      BY <2>2 DEF FileOK, ReadTo
    <3>2. 0 + 1 <= Len(text') \/ Char(text', 0 + 1) = EOF
      BY <2>2, <3>1 DEF ReadTo, Char
    <3>3. 0 \in Nat /\ 0 <= Len(text') /\ at' = 0 + 1 /\ loc' = Moved(loc, Char(text', 0 + 1))
      BY <2>1, <3>1
    <3> QED
      BY <2>2, <2>4, <3>1, <3>2, <3>3, LocMoves
  <2>6. mode' \notin Reading
    BY <2>1 DEF Reading
  <2> QED
    BY <2>1, <2>2, <2>5, <2>6, PlaceGoesOn DEF ReadTo
<1>2. CASE Skip
  BY <1>2, PlaceSkip
<1>3. CASE LexWord \/ LexQuoted \/ LexOther
  BY <1>3, PlaceTokens
<1>4. CASE Done \/ UNCHANGED vars
  BY <1>4 DEF Done, vars, file, PlaceInv, LocOK, Begins, Placed
<1> QED
  BY <1>1, <1>2, <1>3, <1>4 DEF Next

\* The first character is the first of the first line.
LEMMA PlaceInit == Init => PlaceInv
<1> SUFFICES ASSUME Init PROVE PlaceInv
  OBVIOUS
<1>1. text = <<>> /\ at = 0 /\ loc = [line |-> 1, col |-> 0] /\ mode = "init" /\ toks = <<>>
  BY DEF Init
<1>2. Len(<<>>) = 0
  OBVIOUS
<1>3. Newlines(text, 0) = {}
  BY DEF Newlines
<1>4. LocOK
  BY <1>1, <1>2, <1>3, FS_EmptySet DEF LocOK, IsAt, LastNewline
<1> QED
  BY <1>1, <1>2, <1>4 DEF PlaceInv, Reading

\* The invariant says what the property says.
LEMMA PlaceLocation == LInv /\ PlaceInv => LocationRight
<1> SUFFICES ASSUME LInv, PlaceInv, NEW i \in DOMAIN toks
             PROVE  LET t == toks[i]
                        newlines == {j \in 1..(t.from - 1) : text[j] = "\n"}
                    IN /\ t.line = 1 + Cardinality(newlines)
                       /\ t.from <= t.to => t.col = t.from - (IF newlines = {} THEN 0 ELSE Max(newlines))
  BY DEF LocationRight
<1>1. i \in 1..Len(toks)
  BY SeqFacts DEF LInv, TokensOK
<1> QED
  BY <1>1 DEF PlaceInv, Placed, Newlines, LastNewline

\* Whatever the file: every token carries the line and the column of its first
\* character, however many comments, strings and newlines lie before it
\* (lexer.c:20, lexer.c:232).
THEOREM LocationsAreRight == Spec => []LocationRight
<1>1. Spec => []LInv
  BY LInvInit, LInvNext, PTL DEF Spec
<1>2. Spec => []PlaceInv
  BY <1>1, PlaceInit, PlaceNext, PTL DEF Spec
<1> QED
  BY <1>1, <1>2, PlaceLocation, PTL

-----------------------------------------------------------------------------
(* White space and comments *)

\* Up to the n-th character there are white space and whole comments.
Bound(s, gap, n) ==
  \/ n = 0
  \/ s[n] \in Spaces /\ gap[n - 1]
  \/ \E m \in 0..(n - 1) : IsComment(SubSeq(s, m + 1, n)) /\ gap[m]
Gaps(gap, s, k) == gap = [n \in 0..k |-> Bound(s, gap, n)]
GapOf(s) ==
  CHOOSE gap : gap = [n \in 0..Len(s) |->
                        \/ n = 0
                        \/ s[n] \in Spaces /\ gap[n - 1]
                        \/ \E m \in 0..(n - 1) : IsComment(SubSeq(s, m + 1, n)) /\ gap[m]]

\* What Bound says of n depends on the characters and the places before it.
LEMMA BoundAgrees ==
  ASSUME NEW S, NEW s \in Seq(S), NEW t \in Seq(S), NEW n \in Nat, n <= Len(s), Extends(s, t),
         NEW u, NEW v, \A k \in 0..(n - 1) : v[k] = u[k]
  PROVE  Bound(t, v, n) <=> Bound(s, u, n)
<1>1. n # 0 => t[n] = s[n] /\ v[n - 1] = u[n - 1]
  BY DEF Extends
<1>2. ASSUME NEW m \in 0..(n - 1)
      PROVE  SubSeq(t, m + 1, n) = SubSeq(s, m + 1, n) /\ v[m] = u[m]
  BY PartStays
<1> QED
  BY <1>1, <1>2, Zenon DEF Bound

\* There is such a function for every text.
LEMMA GapExists ==
  ASSUME NEW S, NEW s \in Seq(S)
  PROVE  Gaps(GapOf(s), s, Len(s))
<1> DEFINE T == {k \in Nat : k <= Len(s) => \E gap : Gaps(gap, s, k)}
<1>0. Len(s) \in Nat /\ Extends(s, s)
  BY DEF Extends
<1>1. 0 \in T
  <2> DEFINE z == [n \in 0..0 |-> TRUE]
  <2>1. \A n \in 0..0 : Bound(s, z, n)
    BY DEF Bound
  <2>2. Gaps(z, s, 0)
    BY <2>1 DEF Gaps, Bound
  <2> HIDE DEF z
  <2> QED
    BY <2>2
<1>2. ASSUME NEW k \in Nat, k \in T PROVE k + 1 \in T
  <2> SUFFICES ASSUME k + 1 <= Len(s) PROVE \E gap : Gaps(gap, s, k + 1)
    OBVIOUS
  <2>1. PICK gap : Gaps(gap, s, k)
    BY <1>0, <1>2
  <2> DEFINE on == [n \in 0..(k + 1) |-> IF n = k + 1 THEN Bound(s, gap, k + 1) ELSE gap[n]]
  <2>2. \A n \in 0..k : on[n] = gap[n] /\ gap[n] = Bound(s, gap, n)
    <3>1. \A n \in 0..k : gap[n] = Bound(s, gap, n)
      BY <2>1, Zenon DEF Gaps
    <3>2. \A n \in 0..k : n \in 0..(k + 1) /\ n # k + 1
      OBVIOUS
    <3>3. \A n \in 0..k : on[n] = gap[n]
      BY <3>2, Zenon
    <3> QED
      BY <3>1, <3>3, Zenon
  <2>3. on[k + 1] = Bound(s, gap, k + 1)
    OBVIOUS
  <2>4. DOMAIN on = 0..(k + 1) /\ on = [n \in 0..(k + 1) |-> on[n]]
    OBVIOUS
  <2> HIDE DEF on
  <2>5. ASSUME NEW n \in 0..(k + 1)
        PROVE  on[n] = Bound(s, on, n)
    <3>1. n \in Nat /\ n <= Len(s) /\ \A j \in 0..(n - 1) : on[j] = gap[j]
      BY <1>0, <2>2
    <3>2. Bound(s, on, n) <=> Bound(s, gap, n)
      BY <1>0, <3>1, BoundAgrees
    <3>3. on[n] = Bound(s, gap, n)
      BY <2>2, <2>3
    <3>4. Bound(s, on, n) \in BOOLEAN /\ Bound(s, gap, n) \in BOOLEAN
      BY DEF Bound
    <3>5. Bound(s, on, n) = Bound(s, gap, n)
      BY <3>2, <3>4
    <3> QED
      BY <3>3, <3>5, Zenon
  <2>6. Gaps(on, s, k + 1)
    BY <2>4, <2>5, Zenon DEF Gaps
  <2> QED
    BY <2>6
<1>3. Len(s) \in T
  <2> HIDE DEF T
  <2> QED
    BY <1>0, <1>1, <1>2, SetInduction
<1>4. \E gap : Gaps(gap, s, Len(s))
  BY <1>0, <1>3
<1> QED
  BY <1>4, Zenon DEF GapOf, Gaps, Bound

\* A longer text has the same gaps as far as the shorter one.
LEMMA GapsAgree ==
  ASSUME NEW S, NEW s \in Seq(S), NEW t \in Seq(S), Extends(s, t),
         NEW u, NEW v, Gaps(u, s, Len(s)), Gaps(v, t, Len(t))
  PROVE  \A i \in 0..Len(s) : v[i] = u[i]
<1> DEFINE T == {i \in Nat : \A k \in 0..i : k <= Len(s) => v[k] = u[k]}
<1>0. Len(s) \in Nat /\ Len(t) \in Nat /\ Len(s) <= Len(t)
  BY DEF Extends
<1>1. ASSUME NEW i \in Nat, i <= Len(s), \A k \in 0..(i - 1) : v[k] = u[k] PROVE v[i] = u[i]
  <2>1. Bound(t, v, i) <=> Bound(s, u, i)
    BY <1>1, BoundAgrees
  <2>2. i \in 0..Len(s) /\ i \in 0..Len(t)
    BY <1>0, <1>1
  <2>3. u[i] = Bound(s, u, i) /\ v[i] = Bound(t, v, i)
    BY <2>2, Zenon DEF Gaps
  <2>4. Bound(t, v, i) \in BOOLEAN /\ Bound(s, u, i) \in BOOLEAN
    BY DEF Bound
  <2>5. Bound(t, v, i) = Bound(s, u, i)
    BY <2>1, <2>4
  <2> QED
    BY <2>3, <2>5, Zenon
<1>2. 0 \in T
  <2>1. v[0] = u[0]
    <3>1. \A k \in 0..(0 - 1) : FALSE
      OBVIOUS
    <3> QED
      BY <1>0, <1>1, <3>1
  <2> QED
    BY <2>1
<1>3. ASSUME NEW i \in Nat, i \in T PROVE i + 1 \in T
  <2> SUFFICES ASSUME i + 1 <= Len(s) PROVE v[i + 1] = u[i + 1]
    BY <1>3
  <2>1. \A k \in 0..((i + 1) - 1) : v[k] = u[k]
    BY <1>0, <1>3
  <2> QED
    BY <1>1, <2>1
<1>4. \A i \in Nat : i \in T
  <2> HIDE DEF T
  <2> QED
    BY <1>2, <1>3, SetInduction
<1> QED
  BY <1>0, <1>4

\* A gap, and behind it white space or a whole comment, is a gap.
LEMMA GapGrows ==
  ASSUME NEW S, NEW s \in Seq(S), NEW a \in Nat \ {0}, NEW b \in Nat, NEW c \in Nat,
         a <= b + 1, b < c, c <= Len(s), IsGap(SubSeq(s, a, b)),
         (c = b + 1 /\ s[c] \in Spaces) \/ IsComment(SubSeq(s, b + 1, c))
  PROVE  IsGap(SubSeq(s, a, c))
<1> DEFINE p == SubSeq(s, a, b)
           w == SubSeq(s, a, c)
           n == c - a + 1
           m == b - a + 1
<1>0. n \in Nat /\ m \in Nat /\ m < n /\ m \in 0..(n - 1) /\ n # 0
  OBVIOUS
<1>1. /\ w \in Seq(S) /\ Len(w) = n /\ \A i \in 1..n : w[i] = s[a + i - 1]
      /\ p \in Seq(S) /\ Len(p) = m /\ \A i \in 1..m : p[i] = s[a + i - 1]
  BY SubSeqProperties
<1>2. Extends(p, w)
  BY <1>0, <1>1 DEF Extends
<1>3. SubSeq(w, m + 1, n) = SubSeq(s, b + 1, c)
  <2>1. /\ SubSeq(w, m + 1, n) \in Seq(S) /\ Len(SubSeq(w, m + 1, n)) = n - m
        /\ \A i \in 1..(n - m) : SubSeq(w, m + 1, n)[i] = w[m + i]
    BY <1>0, <1>1, SubSeqProperties
  <2>2. /\ SubSeq(s, b + 1, c) \in Seq(S) /\ Len(SubSeq(s, b + 1, c)) = n - m
        /\ \A i \in 1..(n - m) : SubSeq(s, b + 1, c)[i] = s[b + i]
    <3> DEFINE d == b + 1
    <3>1. d \in Nat \ {0} /\ d <= c + 1 /\ c - d + 1 = n - m /\ \A i \in Int : d + i - 1 = b + i
      OBVIOUS
    <3> HIDE DEF d
    <3>2. /\ SubSeq(s, d, c) \in Seq(S) /\ Len(SubSeq(s, d, c)) = c - d + 1
          /\ \A i \in 1..(c - d + 1) : SubSeq(s, d, c)[i] = s[d + i - 1]
      BY <3>1, SubSeqProperties
    <3>3. \A i \in 1..(n - m) : i \in Int
      OBVIOUS
    <3> HIDE DEF m, n
    <3> QED
      BY <3>1, <3>2, <3>3 DEF d
  <2>3. \A i \in 1..(n - m) : w[m + i] = s[b + i]
    <3> SUFFICES ASSUME NEW i \in 1..(n - m) PROVE w[m + i] = s[b + i]
      OBVIOUS
    <3>1. m + i \in 1..n /\ a + (m + i) - 1 = b + i
      BY <1>0
    <3> QED
      BY <1>1, <3>1
  <2> QED
    BY <2>1, <2>2, <2>3, SeqEqual
<1>4. w[n] = s[c]
  BY <1>0, <1>1
<1> DEFINE u == GapOf(p)
           v == GapOf(w)
<1>5. Gaps(u, p, m) /\ Gaps(v, w, n)
  BY <1>1, GapExists
<1>6. (IsGap(p) <=> u[m]) /\ (IsGap(w) <=> v[n])
  BY <1>1, Zenon DEF IsGap, GapOf
<1> HIDE DEF u, v, p, w, m, n
<1>7. v[m] = u[m]
  <2>1. \A i \in 0..Len(p) : v[i] = u[i]
    BY <1>1, <1>2, <1>5, GapsAgree
  <2> QED
    BY <1>0, <1>1, <2>1
<1>8. v[m]
  BY <1>6, <1>7, Zenon DEF p
<1>9. v[n] = Bound(w, v, n)
  <2>1. n \in 0..n
    BY <1>0
  <2> QED
    BY <1>5, <2>1, Zenon DEF Gaps
<1>10. Bound(w, v, n)
  <2>1. CASE c = b + 1 /\ s[c] \in Spaces
    <3>1. m = n - 1
      BY <2>1 DEF m, n
    <3> QED
      BY <1>4, <1>8, <2>1, <3>1, Zenon DEF Bound
  <2>2. CASE IsComment(SubSeq(s, b + 1, c))
    BY <1>0, <1>3, <1>8, <2>2, Zenon DEF Bound
  <2> QED
    BY <2>1, <2>2
<1> QED
  BY <1>6, <1>9, <1>10, Zenon DEF w

\* Nothing is a gap.
LEMMA GapEmpty == IsGap(<<>>)
<1> DEFINE v == GapOf(<<>>)
<1>1. <<>> \in Seq({}) /\ Len(<<>>) = 0
  OBVIOUS
<1>2. Gaps(v, <<>>, Len(<<>>))
  BY <1>1, GapExists
<1>3. IsGap(<<>>) <=> v[Len(<<>>)]
  BY Zenon DEF IsGap, GapOf
<1> HIDE DEF v
<1>4. v[0] = Bound(<<>>, v, 0)
  <2>1. 0 \in 0..0
    OBVIOUS
  <2> QED
    BY <1>1, <1>2, <2>1, Zenon DEF Gaps
<1> QED
  BY <1>1, <1>3, <1>4, Zenon DEF Bound

\* The characters of a part of the text.
LEMMA PartChars ==
  ASSUME NEW S, NEW s \in Seq(S), NEW p \in Nat \ {0}, NEW q \in Nat, p <= q + 1, q <= Len(s)
  PROVE  LET u == SubSeq(s, p, q) IN
         /\ u \in Seq(S) /\ Len(u) = q - p + 1 /\ DOMAIN u = 1..(q - p + 1)
         /\ \A i \in 1..(q - p + 1) : u[i] = s[p + i - 1] /\ Char(u, i) = s[p + i - 1]
         /\ \A i \in p..q : u[i - p + 1] = s[i]
<1> DEFINE u == SubSeq(s, p, q)
<1>1. /\ u \in Seq(S) /\ Len(u) = q - p + 1 /\ DOMAIN u = 1..(q - p + 1)
      /\ \A i \in 1..(q - p + 1) : u[i] = s[p + i - 1]
  BY SubSeqProperties
<1> HIDE DEF u
<1>2. \A i \in 1..(q - p + 1) : Char(u, i) = s[p + i - 1]
  BY <1>1 DEF Char
<1>3. ASSUME NEW i \in p..q PROVE u[i - p + 1] = s[i]
  <2> DEFINE k == i - p + 1
  <2>1. k \in 1..(q - p + 1) /\ p + k - 1 = i
    OBVIOUS
  <2> HIDE DEF k
  <2>2. u[k] = s[i]
    BY <1>1, <2>1
  <2> QED
    BY <2>2 DEF k
<1> QED
  BY <1>1, <1>2, <1>3 DEF u

\* Two characters one after the other.
LEMMA OccursTwo ==
  ASSUME NEW s, NEW i \in Int, NEW x, NEW y
  PROVE  Occurs(s, i, <<x, y>>) <=> Char(s, i) = x /\ Char(s, i + 1) = y
<1> DEFINE w == <<x, y>>
<1>1. DOMAIN w = {1, 2} /\ w[1] = x /\ w[2] = y
  OBVIOUS
<1>2. i + 1 - 1 = i /\ i + 2 - 1 = i + 1
  OBVIOUS
<1> HIDE DEF w
<1>3. Occurs(s, i, w) <=> Char(s, i + 1 - 1) = w[1] /\ Char(s, i + 2 - 1) = w[2]
  BY <1>1, Zenon DEF Occurs
<1> QED
  BY <1>1, <1>2, <1>3 DEF w

\* From /* to the first */ behind it.
LEMMA BlockIsComment ==
  ASSUME NEW S, NEW s \in Seq(S), NEW p \in Nat \ {0}, NEW q \in Nat, p + 3 <= q, q <= Len(s),
         s[p] = "/", s[p + 1] = "*", s[q - 1] = "*", s[q] = "/",
         \A j \in (p + 2)..(q - 2) : ~(s[j] = "*" /\ s[j + 1] = "/")
  PROVE  IsComment(SubSeq(s, p, q))
<1> DEFINE u == SubSeq(s, p, q)
           n == q - p + 1
<1>1. /\ Len(u) = n /\ \A i \in 1..n : Char(u, i) = s[p + i - 1]
  BY PartChars
<1>2. n \in Nat /\ n > 3 /\ p + n - 1 = q
  OBVIOUS
<1> HIDE DEF u
<1>3. Char(u, 1) = "/" /\ Char(u, 2) = "*"
  <2>1. 1 \in 1..n /\ 2 \in 1..n /\ p + 1 - 1 = p /\ p + 2 - 1 = p + 1
    OBVIOUS
  <2> QED
    BY <1>1, <2>1
<1>4. Occurs(u, 1, <<"/", "*">>)
  BY <1>3, OccursTwo
<1>5. ASSUME NEW i \in 3..(n - 1)
      PROVE  Occurs(u, i, <<"*", "/">>) <=> i = n - 1
  <2>1. Occurs(u, i, <<"*", "/">>) <=> Char(u, i) = "*" /\ Char(u, i + 1) = "/"
    BY OccursTwo
  <2>2. Char(u, i) = s[p + i - 1] /\ Char(u, i + 1) = s[(p + i - 1) + 1]
    <3>1. i \in 1..n /\ i + 1 \in 1..n /\ p + (i + 1) - 1 = (p + i - 1) + 1
      OBVIOUS
    <3> HIDE DEF n
    <3> QED
      BY <1>1, <3>1
  <2>3. CASE i = n - 1
    <3>1. p + i - 1 = q - 1 /\ (p + i - 1) + 1 = q
      BY <2>3
    <3> QED
      BY <2>1, <2>2, <2>3, <3>1
  <2>4. CASE i # n - 1
    <3>1. p + i - 1 \in (p + 2)..(q - 2)
      BY <2>4
    <3> QED
      BY <2>1, <2>2, <2>4, <3>1
  <2> QED
    BY <2>3, <2>4
<1>6. {i \in 3..(Len(u) - 1) : Occurs(u, i, <<"*", "/">>)} = {Len(u) - 1}
  <2>1. n - 1 \in 3..(n - 1)
    BY <1>2
  <2> HIDE DEF n
  <2> QED
    BY <1>1, <1>5, <2>1
<1> HIDE DEF n
<1> QED
  BY <1>1, <1>2, <1>4, <1>6 DEF IsComment, u

\* From // to the first newline behind it.
LEMMA LineIsComment ==
  ASSUME NEW S, NEW s \in Seq(S), NEW p \in Nat \ {0}, NEW q \in Nat, p + 2 <= q, q <= Len(s),
         s[p] = "/", s[p + 1] = "/", s[q] = "\n", \A j \in p..(q - 1) : s[j] # "\n"
  PROVE  IsComment(SubSeq(s, p, q))
<1> DEFINE u == SubSeq(s, p, q)
           n == q - p + 1
<1>1. /\ Len(u) = n /\ DOMAIN u = 1..n
      /\ \A i \in 1..n : u[i] = s[p + i - 1] /\ Char(u, i) = s[p + i - 1]
  BY PartChars
<1>2. n \in Nat /\ n > 2 /\ p + n - 1 = q
  OBVIOUS
<1> HIDE DEF u
<1>3. Char(u, 1) = "/" /\ Char(u, 2) = "/"
  <2>1. 1 \in 1..n /\ 2 \in 1..n /\ p + 1 - 1 = p /\ p + 2 - 1 = p + 1
    OBVIOUS
  <2> QED
    BY <1>1, <2>1
<1>4. Occurs(u, 1, <<"/", "/">>)
  BY <1>3, OccursTwo
<1>5. ASSUME NEW i \in 1..n PROVE u[i] = "\n" <=> i = n
  <2>1. u[i] = s[p + i - 1]
    BY <1>1
  <2>2. CASE i = n
    BY <1>2, <2>1, <2>2
  <2>3. CASE i # n
    <3>1. p + i - 1 \in p..(q - 1)
      BY <2>3
    <3> QED
      BY <2>1, <2>3, <3>1
  <2> QED
    BY <2>2, <2>3
<1>6. {i \in DOMAIN u : u[i] = "\n"} = {Len(u)}
  <2>1. n \in 1..n
    BY <1>2
  <2> HIDE DEF n
  <2> QED
    BY <1>1, <1>5, <2>1
<1> QED
  BY <1>4, <1>6 DEF IsComment, u

-----------------------------------------------------------------------------
(* Literals *)

\* The backslashes right before i.
Run(s, i) == {j \in 2..(i - 1) : \A h \in j..(i - 1) : s[h] = "\\"}

\* There are finitely many, and as many as in another text that has the same.
LEMMA RunFacts ==
  ASSUME NEW s, NEW i \in Nat
  PROVE  /\ IsFiniteSet(Run(s, i)) /\ Cardinality(Run(s, i)) \in Nat
         /\ Escaped(s, i) <=> Cardinality(Run(s, i)) % 2 = 1
<1>1. Run(s, i) \in SUBSET Nat /\ \A j \in Run(s, i) : j <= i
  BY DEF Run
<1>2. IsFiniteSet(Run(s, i))
  BY <1>1, FS_BoundedSetOfNaturals
<1> QED
  BY <1>2, FS_CardinalityType, Zenon DEF Escaped, Run

\* It depends on the characters before i alone.
LEMMA EscapedAgrees ==
  ASSUME NEW s, NEW t, NEW i \in Nat, \A h \in 2..(i - 1) : t[h] = s[h]
  PROVE  Escaped(t, i) <=> Escaped(s, i)
<1>1. Run(t, i) = Run(s, i)
  BY DEF Run
<1> QED
  BY <1>1, RunFacts, Zenon

\* What follows a backslash is escaped, unless the backslash is.
LEMMA EscapedStep ==
  ASSUME NEW s, NEW i \in Nat, 2 <= i
  PROVE  Escaped(s, i + 1) <=> s[i] = "\\" /\ ~Escaped(s, i)
<1> DEFINE c == Cardinality(Run(s, i))
           d == Cardinality(Run(s, i + 1))
<1>1. c \in Nat /\ IsFiniteSet(Run(s, i)) /\ (Escaped(s, i) <=> c % 2 = 1)
      /\ (Escaped(s, i + 1) <=> d % 2 = 1)
  <2>1. i + 1 \in Nat
    OBVIOUS
  <2> QED
    BY <2>1, RunFacts, Zenon
<1>2. CASE s[i] = "\\"
  <2>1. Run(s, i + 1) = Run(s, i) \cup {i} /\ i \notin Run(s, i)
    <3>1. (i + 1) - 1 = i
      OBVIOUS
    <3>2. i \notin Run(s, i)
      BY DEF Run
    <3>3. ASSUME NEW j PROVE j \in Run(s, i + 1) <=> j \in Run(s, i) \cup {i}
      <4>1. j \in 2..i /\ j # i => j \in 2..(i - 1) /\ \A h \in j..i : h = i \/ h \in j..(i - 1)
        OBVIOUS
      <4>2. j \in 2..(i - 1) => j \in 2..i /\ \A h \in j..(i - 1) : h \in j..i
        OBVIOUS
      <4>3. i \in 2..i /\ \A h \in i..i : h = i
        OBVIOUS
      <4> QED
        BY <1>2, <3>1, <4>1, <4>2, <4>3, Zenon DEF Run
    <3> QED
      BY <3>2, <3>3
  <2>2. d = c + 1
    BY <1>1, <2>1, FS_AddElement
  <2>3. (c + 1) % 2 = 1 <=> ~(c % 2 = 1)
    <3> HIDE DEF c
    <3> QED
      BY <1>1
  <2> HIDE DEF c, d
  <2> QED
    BY <1>1, <1>2, <2>2, <2>3
<1>3. CASE s[i] # "\\"
  <2>1. Run(s, i + 1) = {}
    <3> SUFFICES ASSUME NEW j \in Run(s, i + 1) PROVE FALSE
      OBVIOUS
    <3>1. j \in 2..i /\ \A h \in j..i : s[h] = "\\"
      BY DEF Run
    <3> QED
      BY <1>3, <3>1
  <2>2. d = 0
    BY <2>1, FS_EmptySet
  <2> HIDE DEF d
  <2> QED
    BY <1>1, <1>3, <2>2
<1> QED
  BY <1>2, <1>3

\* The i-th character of the text is escaped in the literal that starts at f.
Esc(s, f, i) == Escaped(SubSeq(s, f, i - 1), i - f + 1)

\* So it is in any part of the text that has the characters before it.
LEMMA EscIn ==
  ASSUME NEW S, NEW s \in Seq(S), NEW f \in Nat \ {0}, NEW i \in Nat, f < i, NEW q \in Nat,
         i <= q + 1, q <= Len(s)
  PROVE  Escaped(SubSeq(s, f, q), i - f + 1) <=> Esc(s, f, i)
<1> DEFINE u == SubSeq(s, f, q)
           v == SubSeq(s, f, i - 1)
           k == i - f + 1
<1>1. \A h \in 1..(q - f + 1) : u[h] = s[f + h - 1]
  <2>1. f <= q + 1
    OBVIOUS
  <2> QED
    BY <2>1, PartChars
<1>2. \A h \in 1..(i - f) : v[h] = s[f + h - 1]
  <2> DEFINE e == i - 1
  <2>1. e \in Nat /\ f <= e + 1 /\ e <= Len(s) /\ e - f + 1 = i - f
    OBVIOUS
  <2> HIDE DEF e
  <2>2. \A h \in 1..(e - f + 1) : SubSeq(s, f, e)[h] = s[f + h - 1]
    BY <2>1, PartChars
  <2> QED
    BY <2>1, <2>2 DEF e
<1>3. k \in Nat /\ \A h \in 2..(k - 1) : h \in 1..(q - f + 1) /\ h \in 1..(i - f)
  OBVIOUS
<1> HIDE DEF u, v, k
<1>4. \A h \in 2..(k - 1) : u[h] = v[h]
  BY <1>1, <1>2, <1>3
<1>5. Escaped(u, k) <=> Escaped(v, k)
  BY <1>3, <1>4, EscapedAgrees
<1> QED
  BY <1>5 DEF u, v, k, Esc

\* The first character of a literal is not escaped; what follows a backslash
\* that is not escaped is.
LEMMA EscStep ==
  ASSUME NEW S, NEW s \in Seq(S), NEW f \in Nat \ {0}, NEW i \in Nat, f <= i, i <= Len(s)
  PROVE  /\ i = f => ~Esc(s, f, i + 1)
         /\ i # f => (Esc(s, f, i + 1) <=> s[i] = "\\" /\ ~Esc(s, f, i))
<1>1. CASE i = f
  <2>1. (i + 1) - f + 1 = 2
    BY <1>1
  <2>2. Run(SubSeq(s, f, (i + 1) - 1), 2) = {}
    BY DEF Run
  <2>3. ~Escaped(SubSeq(s, f, (i + 1) - 1), 2)
    <3>1. 0 % 2 = 0 /\ 2 \in Nat
      OBVIOUS
    <3> QED
      BY <2>2, <3>1, RunFacts, FS_EmptySet
  <2> QED
    BY <1>1, <2>1, <2>3 DEF Esc
<1>2. CASE i # f
  <2> DEFINE u == SubSeq(s, f, i)
             k == i - f + 1
  <2>1. k \in Nat /\ 2 <= k /\ (i + 1) - f + 1 = k + 1 /\ (i + 1) - 1 = i
    BY <1>2
  <2>2. u[k] = s[i]
    <3>1. i \in f..i /\ f <= i + 1
      OBVIOUS
    <3> QED
      BY <3>1, PartChars
  <2>3. Escaped(u, k) <=> Esc(s, f, i)
    BY <1>2, EscIn
  <2>4. Esc(s, f, i + 1) <=> Escaped(u, k + 1)
    BY <2>1 DEF Esc
  <2> HIDE DEF u, k
  <2>5. Escaped(u, k + 1) <=> u[k] = "\\" /\ ~Escaped(u, k)
    BY <2>1, EscapedStep
  <2> QED
    BY <1>2, <2>2, <2>3, <2>4, <2>5
<1> QED
  BY <1>1, <1>2

\* Nothing of that changes when more is read.
LEMMA EscStays ==
  ASSUME NEW S, NEW s \in Seq(S), NEW t \in Seq(S), Extends(s, t),
         NEW f \in Nat \ {0}, NEW i \in Nat, f < i, i <= Len(s) + 1
  PROVE  Esc(t, f, i) <=> Esc(s, f, i)
<1>1. i - 1 \in Nat /\ f <= (i - 1) + 1 /\ i - 1 <= Len(s)
  OBVIOUS
<1>2. SubSeq(t, f, i - 1) = SubSeq(s, f, i - 1)
  BY <1>1, PartStays
<1> QED
  BY <1>2 DEF Esc

\* A literal ends at the first quote that is not escaped.
LEMMA QuotedHere ==
  ASSUME NEW S, NEW s \in Seq(S), NEW f \in Nat \ {0}, NEW e \in Nat, f <= e, e <= Len(s), NEW q
  PROVE  IsQuoted(q, SubSeq(s, f, e)) <=>
           /\ f < e /\ s[f] = q /\ s[e] = q /\ ~Esc(s, f, e)
           /\ \A i \in (f + 1)..(e - 1) : s[i] = q => Esc(s, f, i)
<1> DEFINE u == SubSeq(s, f, e)
           n == e - f + 1
           Ending(i) == u[i] = q /\ ~Escaped(u, i)
           Closes(i) == s[i] = q /\ ~Esc(s, f, i)
<1>1. Len(u) = n /\ n \in Nat \ {0} /\ u[1] = s[f]
  <2>1. 1 \in 1..n /\ f + 1 - 1 = f /\ n \in Nat \ {0}
    OBVIOUS
  <2> QED
    BY <2>1, PartChars
<1>2. ASSUME NEW i \in (f + 1)..e PROVE Ending(i - f + 1) <=> Closes(i)
  <2>1. u[i - f + 1] = s[i]
    <3>1. i \in f..e /\ f <= e + 1
      OBVIOUS
    <3> QED
      BY <3>1, PartChars
  <2>2. Escaped(u, i - f + 1) <=> Esc(s, f, i)
    <3>1. i \in Nat /\ f < i /\ i <= e + 1
      OBVIOUS
    <3> QED
      BY <3>1, EscIn
  <2> QED
    BY <2>1, <2>2
<1>3. IsQuoted(q, u) <=> n > 1 /\ s[f] = q /\ {i \in 2..n : Ending(i)} = {n}
  <2> HIDE DEF u
  <2> QED
    BY <1>1, Zenon DEF IsQuoted
<1> HIDE DEF Ending, Closes
<1>4. n > 1 => ({i \in 2..n : Ending(i)} = {n} <=> Closes(e) /\ \A i \in (f + 1)..(e - 1) : ~Closes(i))
  <2> SUFFICES ASSUME n > 1
               PROVE  {i \in 2..n : Ending(i)} = {n} <=> Closes(e) /\ \A i \in (f + 1)..(e - 1) : ~Closes(i)
    OBVIOUS
  <2>1. Ending(n) <=> Closes(e)
    <3>1. e \in (f + 1)..e
      OBVIOUS
    <3> QED
      BY <1>2, <3>1
  <2>2. ASSUME NEW i \in 2..n PROVE i = n \/ (i + f - 1 \in (f + 1)..(e - 1) /\ (Ending(i) <=> Closes(i + f - 1)))
    <3> DEFINE j == i + f - 1
    <3>1. j \in (f + 1)..e /\ j - f + 1 = i /\ (j = e => i = n)
      OBVIOUS
    <3> HIDE DEF j, n
    <3>2. Ending(i) <=> Closes(j)
      BY <1>2, <3>1
    <3>3. j = e \/ j \in (f + 1)..(e - 1)
      BY <3>1
    <3> QED
      BY <3>1, <3>2, <3>3 DEF j
  <2>3. ASSUME NEW j \in (f + 1)..(e - 1)
        PROVE  j - f + 1 \in 2..n /\ j - f + 1 # n /\ (Ending(j - f + 1) <=> Closes(j))
    <3>1. j \in (f + 1)..e
      OBVIOUS
    <3> QED
      BY <1>2, <3>1
  <2>4. n \in 2..n
    OBVIOUS
  <2> HIDE DEF n
  <2> QED
    BY <2>1, <2>2, <2>3, <2>4
<1>5. n > 1 <=> f < e
  OBVIOUS
<1> HIDE DEF n, u
<1> QED
  BY <1>3, <1>4, <1>5, Zenon DEF Closes, u

-----------------------------------------------------------------------------
(* Tokens *)

\* No operator starts with a character of a word, a quote or an apostrophe.
LEMMA OperatorChars ==
  /\ \A c \in Single : c \notin Ident /\ c # "\"" /\ c # "'" /\ c # "\\"
  /\ \A d \in Double : Len(d) = 2 /\ d = <<d[1], d[2]>> /\ d[1] \in Single
  /\ "\"" \notin Ident /\ "'" \notin Ident
<1>1. \A c \in Single : c \notin Letters
  <2> DEFINE Lower == {"a", "b", "c", "d", "e", "f", "g", "h", "i", "j", "k", "l", "m", "n",
                       "o", "p", "q", "r", "s", "t", "u", "v", "w", "x", "y", "z"}
             Upper == {"A", "B", "C", "D", "E", "F", "G", "H", "I", "J", "K", "L", "M", "N",
                       "O", "P", "Q", "R", "S", "T", "U", "V", "W", "X", "Y", "Z"}
  <2>1. \A c \in Letters : c \in Lower \/ c \in Upper
    BY Zenon DEF Letters
  <2>2. \A c \in Single : c \notin Lower
    BY ZenonT(60) DEF Single
  <2>3. \A c \in Single : c \notin Upper
    BY ZenonT(60) DEF Single
  <2> HIDE DEF Lower, Upper
  <2> QED
    BY <2>1, <2>2, <2>3, Zenon
<1>2. \A c \in Single : c \notin Figures /\ c # "_"
  BY Zenon DEF Single, Figures
<1>3. \A c \in Single : c # "\"" /\ c # "'" /\ c # "\\"
  BY Zenon DEF Single
<1>4. \A c \in Single : c \notin Ident
  BY <1>1, <1>2, Zenon DEF Ident, IdentStart
<1>5. \A d \in Double : Len(d) = 2 /\ d = <<d[1], d[2]>> /\ d[1] \in {"!", "=", "<", ">", "&", "|", "-"}
  BY DEF Double
<1>6. \A c \in {"!", "=", "<", ">", "&", "|", "-"} : c \in Single
  BY Zenon DEF Single
<1>7. "\"" \notin Ident /\ "'" \notin Ident
  BY DEF Ident, IdentStart, Letters, Figures
<1> QED
  BY <1>3, <1>4, <1>5, <1>6, <1>7, Zenon

Quote == "\""
\* The characters of the word that starts with c.
Class(c) == IF c \in Figures THEN Ident \ {"_"} ELSE Ident

\* What the first character says of a token.
LEMMA TokenHere ==
  ASSUME NEW S, NEW s \in Seq(S), NEW f \in Nat \ {0}, NEW i \in Nat, f <= i, i <= Len(s)
  PROVE  LET u == SubSeq(s, f, i) IN
         /\ s[f] \in Ident => (IsToken(u) <=> \A j \in f..i : s[j] \in Class(s[f]))
         /\ s[f] = Quote => (IsToken(u) <=> IsQuoted(Quote, u))
         /\ s[f] = "'" => (IsToken(u) <=> IsCharConst(u))
         /\ s[f] \notin Ident \cup {Quote, "'"} =>
              (IsToken(u) <=> \/ i = f /\ s[f] \in Single
                              \/ i = f + 1 /\ <<s[f], s[f + 1]>> \in Double)
<1> DEFINE u == SubSeq(s, f, i)
           n == i - f + 1
<1>1. /\ u \in Seq(S) /\ Len(u) = n /\ DOMAIN u = 1..n /\ n \in Nat \ {0}
      /\ \A j \in 1..n : u[j] = s[f + j - 1]
      /\ \A j \in f..i : u[j - f + 1] = s[j]
  <2>1. f <= i + 1 /\ n \in Nat \ {0}
    OBVIOUS
  <2> QED
    BY <2>1, PartChars
<1>2. u[1] = s[f]
  <2>1. 1 \in 1..n /\ f + 1 - 1 = f
    OBVIOUS
  <2> HIDE DEF u, n
  <2> QED
    BY <1>1, <2>1
<1>3. IsWord(u) <=> s[f] \in Ident /\ \A j \in f..i : s[j] \in Class(s[f])
  <2>1. u # <<>>
    <3> HIDE DEF u, n
    <3> QED
      BY <1>1
  <2>2. ASSUME NEW j \in 1..n PROVE f + j - 1 \in f..i /\ u[j] = s[f + j - 1]
    <3>1. f + j - 1 \in f..i
      OBVIOUS
    <3> HIDE DEF u, n
    <3> QED
      BY <1>1, <3>1
  <2>3. ASSUME NEW j \in f..i PROVE j - f + 1 \in 1..n /\ u[j - f + 1] = s[j]
    <3>1. j - f + 1 \in 1..n
      OBVIOUS
    <3> HIDE DEF u, n
    <3> QED
      BY <1>1, <3>1
  <2>4. IsWord(u) <=> s[f] \in Ident /\ \A j \in 1..n : u[j] \in Class(s[f])
    <3> HIDE DEF u, n
    <3> QED
      BY <1>1, <1>2, <2>1, Zenon DEF IsWord, Class
  <2> HIDE DEF u, n
  <2> QED
    BY <2>2, <2>3, <2>4
<1>4. u \in {<<c>> : c \in Single} <=> i = f /\ s[f] \in Single
  <2>1. ASSUME NEW c \in Single, u = <<c>> PROVE i = f /\ s[f] = c
    <3>1. Len(<<c>>) = 1 /\ <<c>>[1] = c
      OBVIOUS
    <3>2. Len(u) = 1 /\ u[1] = c
      BY <2>1, <3>1, Zenon
    <3>3. n = 1 => i = f
      OBVIOUS
    <3> HIDE DEF u, n
    <3> QED
      BY <1>1, <1>2, <3>2, <3>3
  <2>2. ASSUME i = f PROVE u = <<s[f]>>
    <3>1. n = 1 /\ s[f] \in S
      BY <2>2
    <3>2. <<s[f]>> \in Seq(S) /\ Len(<<s[f]>>) = 1 /\ <<s[f]>>[1] = s[f]
      BY <3>1
    <3>3. \A j \in 1..1 : j = 1
      OBVIOUS
    <3> DEFINE w == <<s[f]>>
    <3>4. w \in Seq(S) /\ Len(w) = 1 /\ w[1] = s[f]
      BY <3>2
    <3> HIDE DEF u, n, w
    <3>5. \A j \in 1..1 : u[j] = w[j]
      BY <1>2, <3>3, <3>4
    <3>6. u = w
      BY <1>1, <3>1, <3>4, <3>5, SeqEqual
    <3> QED
      BY <3>6 DEF w
  <2> QED
    BY <2>1, <2>2
<1>5. u \in Double <=> i = f + 1 /\ <<s[f], s[f + 1]>> \in Double
  <2>1. ASSUME i = f + 1 PROVE u = <<s[f], s[f + 1]>>
    <3> DEFINE w == <<s[f], s[f + 1]>>
    <3>1. n = 2 /\ s[f] \in S /\ s[f + 1] \in S
      BY <2>1
    <3>2. w \in Seq(S) /\ Len(w) = 2 /\ w[1] = s[f] /\ w[2] = s[f + 1]
      BY <3>1
    <3>3. 2 \in 1..n /\ f + 2 - 1 = f + 1
      BY <2>1
    <3>4. u[2] = s[f + 1]
      <4> HIDE DEF u, n
      <4> QED
        BY <1>1, <3>3
    <3>5. \A j \in 1..2 : j = 1 \/ j = 2
      OBVIOUS
    <3> HIDE DEF u, n, w
    <3>6. \A j \in 1..2 : u[j] = w[j]
      BY <1>2, <3>2, <3>4, <3>5
    <3>7. u = w
      BY <1>1, <3>1, <3>2, <3>6, SeqEqual
    <3> QED
      BY <3>7 DEF w
  <2>2. ASSUME u \in Double PROVE i = f + 1
    <3>1. Len(u) = 2
      BY <2>2, OperatorChars, Zenon
    <3>2. n = 2 => i = f + 1
      OBVIOUS
    <3> HIDE DEF u, n
    <3> QED
      BY <1>1, <3>1, <3>2
  <2> QED
    BY <2>1, <2>2, Zenon
<1>6. /\ IsQuoted(Quote, u) => s[f] = Quote
      /\ IsCharConst(u) => s[f] = "'"
  BY <1>2, Zenon DEF IsQuoted, IsCharConst, Quote
<1>7. s[f] \in Single => s[f] \notin Ident /\ s[f] # Quote /\ s[f] # "'"
  BY OperatorChars, Zenon DEF Quote
<1>8. <<s[f], s[f + 1]>> \in Double => s[f] \in Single
  <2>1. <<s[f], s[f + 1]>>[1] = s[f]
    OBVIOUS
  <2> QED
    BY <2>1, OperatorChars, Zenon
<1>9. IsToken(u) <=> IsWord(u) \/ IsQuoted(Quote, u) \/ IsCharConst(u)
                     \/ u \in Double \/ u \in {<<c>> : c \in Single}
  BY Zenon DEF IsToken, Quote
<1>10. Quote \notin Ident /\ "'" \notin Ident /\ "'" # Quote
  BY OperatorChars, Zenon DEF Quote
<1> HIDE DEF u, n
<1> QED
  BY <1>3, <1>4, <1>5, <1>6, <1>7, <1>8, <1>9, <1>10, Zenon DEF u

\* A character constant is one character, or a backslash and one.
LEMMA CharConstHere ==
  ASSUME NEW S, NEW s \in Seq(S), NEW f \in Nat \ {0}, NEW i \in Nat, f <= i, i <= Len(s),
         s[f] = "'"
  PROVE  IsCharConst(SubSeq(s, f, i)) <=>
           \/ s[f + 1] # "\\" /\ i = f + 2 /\ s[f + 1] # "'" /\ s[f + 2] = "'"
           \/ s[f + 1] = "\\" /\ i = f + 3 /\ s[f + 3] = "'"
<1> DEFINE u == SubSeq(s, f, i)
           n == i - f + 1
<1>1. Len(u) = n /\ n \in Nat /\ \A j \in 1..n : Char(u, j) = s[f + j - 1]
  <2>1. f <= i + 1
    OBVIOUS
  <2> QED
    BY <2>1, PartChars
<1>2. /\ f < i => Char(u, 2) = s[f + 1]
      /\ (n = 3 <=> i = f + 2) /\ (n = 4 <=> i = f + 3)
  <2>1. f < i => 2 \in 1..n /\ f + 2 - 1 = f + 1
    OBVIOUS
  <2>2. (n = 3 <=> i = f + 2) /\ (n = 4 <=> i = f + 3)
    OBVIOUS
  <2> HIDE DEF u, n
  <2> QED
    BY <1>1, <2>1, <2>2
<1>3. IsCharConst(u) => i = f + 2 \/ i = f + 3
  <2>1. IsCharConst(u) => Len(u) = 4 \/ Len(u) = 3
    BY Zenon DEF IsCharConst
  <2> HIDE DEF u, n
  <2> QED
    BY <1>1, <1>2, <2>1
<1>4. IsQuoted("'", u) <=> /\ f < i /\ s[i] = "'" /\ ~Esc(s, f, i)
                           /\ \A j \in (f + 1)..(i - 1) : s[j] = "'" => Esc(s, f, j)
  BY QuotedHere
<1>5. ~Esc(s, f, f + 1)
  BY EscStep
<1>6. f < i => (Esc(s, f, f + 2) <=> s[f + 1] = "\\")
  <2> SUFFICES ASSUME f < i PROVE Esc(s, f, f + 2) <=> s[f + 1] = "\\"
    OBVIOUS
  <2> DEFINE k == f + 1
  <2>1. k \in Nat /\ f <= k /\ k <= Len(s) /\ k # f /\ k + 1 = f + 2
    OBVIOUS
  <2> HIDE DEF k
  <2>2. Esc(s, f, k + 1) <=> s[k] = "\\" /\ ~Esc(s, f, k)
    BY <2>1, EscStep
  <2> QED
    BY <1>5, <2>1, <2>2 DEF k
<1>7. CASE i = f + 2
  <2>1. \A j \in (f + 1)..(i - 1) : j = f + 1
    BY <1>7
  <2>2. f + 1 \in (f + 1)..(i - 1) /\ f < i
    BY <1>7
  <2>3. IsQuoted("'", u) <=> s[i] = "'" /\ s[f + 1] # "\\" /\ s[f + 1] # "'"
    <3> HIDE DEF u, n
    <3> QED
      BY <1>4, <1>5, <1>6, <1>7, <2>1, <2>2, Zenon
  <2>4. IsCharConst(u) <=> IsQuoted("'", u) /\ s[f + 1] # "\\"
    <3>1. IsCharConst(u) <=> IsQuoted("'", u) /\ n = (IF s[f + 1] = "\\" THEN 4 ELSE 3)
      <4> HIDE DEF u, n
      <4> QED
        BY <1>1, <1>2, <2>2, Zenon DEF IsCharConst
    <3>2. n = 3 /\ 3 # 4
      BY <1>7
    <3> HIDE DEF u, n
    <3> QED
      BY <3>1, <3>2
  <2>5. i # f + 3
    BY <1>7
  <2> HIDE DEF u, n
  <2> QED
    BY <1>7, <2>3, <2>4, <2>5 DEF u
<1>8. CASE i = f + 3
  <2>1. f < i /\ i # f + 2 /\ (\A j \in (f + 1)..(i - 1) : j = f + 1 \/ j = f + 2)
        /\ f + 1 \in (f + 1)..(i - 1)
    BY <1>8
  <2>2. Esc(s, f, f + 3) <=> s[f + 2] = "\\" /\ ~Esc(s, f, f + 2)
    <3> DEFINE k == f + 2
    <3>1. k \in Nat /\ f <= k /\ k <= Len(s) /\ k # f /\ k + 1 = f + 3
      BY <1>8
    <3> HIDE DEF k
    <3>2. Esc(s, f, k + 1) <=> s[k] = "\\" /\ ~Esc(s, f, k)
      BY <3>1, EscStep
    <3> QED
      BY <3>1, <3>2 DEF k
  <2>3. s[f + 1] = "\\" => (IsQuoted("'", u) <=> s[f + 3] = "'")
    <3> HIDE DEF u, n
    <3> QED
      BY <1>4, <1>6, <1>8, <2>1, <2>2
  <2>4. IsCharConst(u) <=> IsQuoted("'", u) /\ s[f + 1] = "\\"
    <3>1. IsCharConst(u) <=> IsQuoted("'", u) /\ n = (IF s[f + 1] = "\\" THEN 4 ELSE 3)
      <4> HIDE DEF u, n
      <4> QED
        BY <1>1, <1>2, <2>1, Zenon DEF IsCharConst
    <3>2. n = 4 /\ 3 # 4
      BY <1>8
    <3> HIDE DEF u, n
    <3> QED
      BY <3>1, <3>2
  <2> HIDE DEF u, n
  <2> QED
    BY <1>8, <2>1, <2>3, <2>4 DEF u
<1> HIDE DEF u, n
<1> QED
  BY <1>3, <1>7, <1>8 DEF u

-----------------------------------------------------------------------------
(* The longest token *)

Wholes(s, f) == {i \in f..Len(s) : IsToken(SubSeq(s, f, i))}
\* The token at f that ends at to, in a text s that goes on or not.
Right(f, to, s, e) ==
  \/ to \in Wholes(s, f) /\ \A i \in Wholes(s, f) : i <= to
  \/ Wholes(s, f) = {} /\ s[f] = "'"
  \/ Wholes(s, f) = {} /\ s[f] = Quote /\ e /\ to = Len(s)

\* A word ends before the first character that is none of its own.
LEMMA WordRight ==
  ASSUME NEW S, NEW s \in Seq(S), NEW f \in Nat \ {0}, NEW to \in Nat, f <= to, to <= Len(s),
         NEW e, s[f] \in Ident, \A j \in f..to : s[j] \in Class(s[f]),
         Char(s, to + 1) \notin Class(s[f])
  PROVE  Right(f, to, s, e)
<1>1. ASSUME NEW i \in f..Len(s)
      PROVE  IsToken(SubSeq(s, f, i)) <=> \A j \in f..i : s[j] \in Class(s[f])
  <2>1. i \in Nat /\ f <= i /\ i <= Len(s)
    OBVIOUS
  <2> QED
    BY <2>1, TokenHere
<1>2. to \in Wholes(s, f)
  BY <1>1 DEF Wholes
<1>3. ASSUME NEW i \in Wholes(s, f) PROVE i <= to
  <2> SUFFICES ASSUME ~(i <= to) PROVE FALSE
    OBVIOUS
  <2>1. i \in f..Len(s) /\ \A j \in f..i : s[j] \in Class(s[f])
    BY <1>1 DEF Wholes
  <2>2. to + 1 \in f..i /\ to + 1 \in 1..Len(s)
    BY <2>1
  <2>3. Char(s, to + 1) = s[to + 1]
    BY <2>2 DEF Char
  <2> QED
    BY <2>1, <2>2, <2>3
<1> QED
  BY <1>2, <1>3 DEF Right

\* A string ends at the first quote that is not escaped.
LEMMA StringRight ==
  ASSUME NEW S, NEW s \in Seq(S), NEW f \in Nat \ {0}, NEW to \in Nat, f < to, to <= Len(s),
         NEW e, s[f] = Quote, s[to] = Quote, ~Esc(s, f, to),
         \A j \in (f + 1)..(to - 1) : s[j] = Quote => Esc(s, f, j)
  PROVE  Right(f, to, s, e)
<1>1. ASSUME NEW i \in f..Len(s)
      PROVE  IsToken(SubSeq(s, f, i)) <=>
               /\ f < i /\ s[i] = Quote /\ ~Esc(s, f, i)
               /\ \A j \in (f + 1)..(i - 1) : s[j] = Quote => Esc(s, f, j)
  <2>1. i \in Nat /\ f <= i /\ i <= Len(s)
    OBVIOUS
  <2>2. IsToken(SubSeq(s, f, i)) <=> IsQuoted(Quote, SubSeq(s, f, i))
    BY <2>1, TokenHere
  <2> QED
    BY <2>1, <2>2, QuotedHere
<1>2. to \in Wholes(s, f)
  BY <1>1 DEF Wholes
<1>3. ASSUME NEW i \in Wholes(s, f) PROVE i <= to
  <2>1. i \in f..Len(s) /\ \A j \in (f + 1)..(i - 1) : s[j] = Quote => Esc(s, f, j)
    BY <1>1 DEF Wholes
  <2> QED
    BY <2>1
<1> QED
  BY <1>2, <1>3 DEF Right

\* Where there is none, no string is.
LEMMA StringCut ==
  ASSUME NEW S, NEW s \in Seq(S), NEW f \in Nat \ {0}, f <= Len(s), NEW e, e,
         s[f] = Quote, \A j \in (f + 1)..Len(s) : s[j] = Quote => Esc(s, f, j)
  PROVE  Right(f, Len(s), s, e)
<1>1. ASSUME NEW i \in f..Len(s), IsToken(SubSeq(s, f, i)) PROVE FALSE
  <2>1. i \in Nat /\ f <= i /\ i <= Len(s)
    OBVIOUS
  <2>2. IsToken(SubSeq(s, f, i)) <=> IsQuoted(Quote, SubSeq(s, f, i))
    BY <2>1, TokenHere
  <2>3. f < i /\ s[i] = Quote /\ ~Esc(s, f, i)
    BY <1>1, <2>1, <2>2, QuotedHere
  <2> QED
    BY <2>1, <2>3
<1> QED
  BY <1>1 DEF Right, Wholes

\* A character constant ends with an apostrophe behind its character.
LEMMA CharRight ==
  ASSUME NEW S, NEW s \in Seq(S), NEW f \in Nat \ {0}, NEW to \in Nat, f <= Len(s),
         NEW e, s[f] = "'", "EOF" \notin S,
         NEW n \in Nat, n = (IF Char(s, f + 1) = "\\" THEN f + 3 ELSE f + 2),
         Char(s, n) = "'" => to = n
  PROVE  Right(f, to, s, e)
<1>0. Len(s) \in Nat /\ DOMAIN s = 1..Len(s)
  OBVIOUS
<1>1. ASSUME NEW i \in f..Len(s)
      PROVE  IsToken(SubSeq(s, f, i)) <=>
               \/ s[f + 1] # "\\" /\ i = f + 2 /\ s[f + 1] # "'" /\ s[f + 2] = "'"
               \/ s[f + 1] = "\\" /\ i = f + 3 /\ s[f + 3] = "'"
  <2>1. i \in Nat /\ f <= i /\ i <= Len(s)
    OBVIOUS
  <2>2. IsToken(SubSeq(s, f, i)) <=> IsCharConst(SubSeq(s, f, i))
    BY <2>1, TokenHere
  <2> QED
    BY <2>1, <2>2, CharConstHere
<1>2. CASE Wholes(s, f) = {}
  BY <1>2 DEF Right
<1>3. CASE Wholes(s, f) # {}
  <2>1. PICK i \in f..Len(s) : IsToken(SubSeq(s, f, i))
    BY <1>3 DEF Wholes
  <2>2. f + 1 \in 1..Len(s) /\ (i = f + 2 \/ i = f + 3)
    BY <1>0, <1>1, <2>1
  <2>3. Char(s, f + 1) = s[f + 1]
    BY <1>0, <2>2 DEF Char
  <2>4. i = n
    BY <1>1, <2>1, <2>3
  <2>5. Char(s, i) = s[i] /\ s[i] = "'"
    BY <1>0, <1>1, <2>1 DEF Char
  <2>6. to = i
    BY <2>4, <2>5
  <2>7. \A j \in Wholes(s, f) : j = i
    BY <1>1, <2>1, <2>2 DEF Wholes
  <2>8. i \in Wholes(s, f)
    BY <2>1 DEF Wholes
  <2>9. i <= i
    OBVIOUS
  <2> QED
    BY <2>6, <2>7, <2>8, <2>9, Zenon DEF Right
<1> QED
  BY <1>2, <1>3

\* An operator is two characters if those are one, or else one.
LEMMA OperatorRight ==
  ASSUME NEW S, NEW s \in Seq(S), NEW f \in Nat \ {0}, NEW to \in Nat, f <= Len(s),
         NEW e, s[f] \notin Ident \cup {Quote, "'"},
         NEW two \in BOOLEAN, two <=> <<s[f], Char(s, f + 1)>> \in Double,
         to = (IF two THEN f + 1 ELSE f)
  PROVE  /\ two \/ s[f] \in Single => Right(f, to, s, e)
         /\ ~two /\ s[f] \notin Single => Wholes(s, f) = {}
<1>0. Len(s) \in Nat /\ DOMAIN s = 1..Len(s)
  OBVIOUS
<1>1. ASSUME NEW i \in f..Len(s)
      PROVE  IsToken(SubSeq(s, f, i)) <=> \/ i = f /\ s[f] \in Single
                                          \/ i = f + 1 /\ <<s[f], s[f + 1]>> \in Double
  <2>1. i \in Nat /\ f <= i /\ i <= Len(s)
    OBVIOUS
  <2> QED
    BY <2>1, TokenHere
<1>2. two => f + 1 <= Len(s)
  <2> SUFFICES ASSUME two, ~(f + 1 <= Len(s)) PROVE FALSE
    BY <1>0
  <2>1. Char(s, f + 1) = EOF
    BY <1>0 DEF Char
  <2>2. \A a : <<a, EOF>> \notin Double
    <3>1. \A d \in Double : d[2] # "EOF"
      BY DEF Double
    <3>2. \A a : <<a, EOF>>[2] = EOF
      OBVIOUS
    <3> QED
      BY <3>1, <3>2, Zenon DEF EOF
  <2> QED
    BY <2>1, <2>2, Zenon
<1>3. f + 1 <= Len(s) => (two <=> <<s[f], s[f + 1]>> \in Double)
  <2>1. f + 1 <= Len(s) => f + 1 \in DOMAIN s
    BY <1>0
  <2> QED
    BY <2>1, Zenon DEF Char
<1>4. \A i \in f..Len(s) : i = f + 1 => f + 1 <= Len(s)
  OBVIOUS
<1>5. ASSUME NEW i \in f..Len(s)
      PROVE  IsToken(SubSeq(s, f, i)) <=> (i = f /\ s[f] \in Single) \/ (i = f + 1 /\ two)
  BY <1>1, <1>3, <1>4, Zenon
<1>6. ASSUME ~two, s[f] \notin Single PROVE Wholes(s, f) = {}
  BY <1>5, <1>6, Zenon DEF Wholes
<1>7. ASSUME two PROVE Right(f, to, s, e)
  <2>1. to = f + 1 /\ to \in f..Len(s) /\ to <= to /\ f <= to
    BY <1>0, <1>2, <1>7
  <2> QED
    BY <1>5, <1>7, <2>1, Zenon DEF Right, Wholes
<1>8. ASSUME ~two, s[f] \in Single PROVE Right(f, to, s, e)
  <2>1. to = f /\ f \in f..Len(s) /\ f <= f
    BY <1>0, <1>8
  <2> QED
    BY <1>5, <1>8, <2>1, Zenon DEF Right, Wholes
<1> QED
  BY <1>6, <1>7, <1>8, Zenon

-----------------------------------------------------------------------------
(* The invariant of the longest match *)

\* Behind the n-th token.
After(ts, n) == (IF n = 0 THEN 0 ELSE ts[n].to) + 1
\* A token stays right whatever is read after the text s, if that goes on.
Lasting(t, s, e, S) ==
  \A u \in Seq(S), g \in BOOLEAN :
    Extends(s, u) /\ (e => u = s /\ g) => Right(t.from, t.to, u, g)
MatchedAt(ts, n, s, e, S) ==
  \/ ts[n].k = "eof"
  \/ /\ After(ts, n - 1) <= ts[n].from
     /\ IsGap(SubSeq(s, After(ts, n - 1), ts[n].from - 1))
     /\ Lasting(ts[n], s, e, S)

Here == After(toks, Len(toks))
\* White space and whole comments from the last token to p.
Gapped(p) == Here <= p /\ p <= Len(text) + 1 /\ IsGap(SubSeq(text, Here, p - 1))
\* lx->ch is in the comment that starts at p.
InLine(p) ==
  /\ Gapped(p) /\ p + 2 <= at /\ text[p] = "/" /\ text[p + 1] = "/"
  /\ \A j \in p..(at - 1) : text[j] # "\n"
InBlock(p) ==
  /\ Gapped(p) /\ p + 2 <= at /\ text[p] = "/" /\ text[p + 1] = "*"
  /\ \A j \in (p + 2)..(at - 2) : ~(text[j] = "*" /\ text[j + 1] = "/")
StarHere(p) == p + 3 <= at /\ text[at - 1] = "*"

SkipOK ==
  /\ mode = "skip" => Gapped(at) \/ (Ch \in {EOF, "\n"} /\ \E p \in 1..at : InLine(p))
  /\ mode = "line" => \E p \in 1..at : InLine(p)
  /\ mode = "block" => \E p \in 1..at : InBlock(p) /\ (StarHere(p) => Ch # "/")
  /\ mode = "star" => \E p \in 1..at : InBlock(p) /\ StarHere(p)

\* No quote before lx->ch ends the string that starts at f.
Unclosed(f) ==
  /\ text[f] = Quote /\ f < at
  /\ \A j \in (f + 1)..(at - 1) : text[j] = Quote => Esc(text, f, j)
\* Where the apostrophe of the constant that starts at f should be.
Closing(f) == IF Char(text, f + 1) = "\\" THEN f + 3 ELSE f + 2
Inside(f) ==
  /\ mode \in {"name", "number"} =>
       /\ text[f] \in Ident /\ WordChars(mode) = Class(text[f])
       /\ \A j \in f..(at - 1) : text[j] \in Class(text[f])
  /\ mode = "string" => Unclosed(f) /\ (Ch = EOF \/ ~Esc(text, f, at))
  /\ mode = "strescape" => Unclosed(f) /\ Esc(text, f, at)
  /\ mode \in {"char", "charescape", "charend"} => text[f] = "'"
  /\ mode = "char" => at = f + 1
  /\ mode = "charescape" => at = f + 2 /\ text[f + 1] = "\\"
  /\ mode = "charend" => at = Closing(f) \/ (Ch = EOF /\ at < Closing(f))
  /\ mode = "op" => /\ at = f + 1 /\ tok.c = text[f]
                    /\ text[f] \notin Ident \cup {Quote, "'"}

AllMatched == \A n \in 1..Len(toks) : MatchedAt(toks, n, text, ended, source.chars)
ReadOK == mode \in Reading => Gapped(tok.from) /\ tok.from <= Len(text) /\ Inside(tok.from)
WInv ==
  /\ AllMatched /\ SkipOK /\ ReadOK
  /\ mode = "init" => toks = <<>>
  /\ mode = "done" => NothingDropped

-----------------------------------------------------------------------------
(* What is kept by every step *)

\* The lexer read on or stood still; where the file has ended it reads nothing.
ReadsOn ==
  /\ FileOK /\ FileOK' /\ source' = source /\ Extends(text, text')
  /\ text \in Seq(source.chars) /\ text' \in Seq(source.chars)
  /\ Len(text) \in Nat /\ Len(text') \in Nat /\ Len(text) <= Len(text')
  /\ at \in Nat /\ at' \in Nat /\ at <= Len(text) + 1 /\ at' <= Len(text') + 1
  /\ ended => ended' /\ text' = text

\* It stood still.
LEMMA HoldReads ==
  ASSUME LInv, Hold
  PROVE  ReadsOn /\ text' = text /\ ended' = ended /\ at' = at /\ Ch' = Ch
BY DEF LInv, FileOK, Hold, file, ReadsOn, Extends, Ch

\* It took a character.
LEMMA AdvanceReads ==
  ASSUME LInv, mode # "init", Advance
  PROVE  /\ ReadsOn
         /\ Ch # EOF => at \in 1..Len(text) /\ Ch = text[at] /\ at' = at + 1
         /\ Ch = EOF => at = Len(text) + 1 /\ ended /\ text' = text /\ at' = at /\ Ch' = EOF
<1>1. FileOK /\ at # 0 /\ at \in Nat /\ Len(text) \in Nat /\ at <= Len(text) + 1
  BY DEF LInv, ReadingOK, FileOK
<1>2. FileOK' /\ source' = source /\ Extends(text, text')
      /\ at' = (IF Ch = EOF THEN at ELSE at + 1) /\ (Ch = EOF => text' = text)
  BY <1>1, AdvanceFacts
<1>3. ended => ended' /\ text' = text
  <2>1. at + 1 \in 1..(Len(text) + 1) \/ Ch = EOF
    BY <1>1, ChFacts
  <2>2. CASE Ch = EOF
    <3>1. at = Len(text) + 1 /\ ended
      BY <1>1, <2>2, ChFacts
    <3> QED
      BY <3>1 DEF Advance, Reach, Known
  <2>3. CASE at + 1 \in 1..(Len(text) + 1)
    BY <1>1, <2>3, ReachFacts DEF Advance, ReadTo
  <2> QED
    BY <2>1, <2>2, <2>3
<1>4. Ch # EOF => at \in 1..Len(text) /\ Ch = text[at]
  BY <1>1, ChFacts
<1>5. Ch = EOF => at = Len(text) + 1 /\ ended
  BY <1>1, ChFacts
<1>6. Ch = EOF => Ch' = EOF
  <2>1. ASSUME Ch = EOF PROVE Ch' = Ch
    <3>1. text' = text /\ at' = at
      BY <1>2, <2>1
    <3> QED
      BY <3>1 DEF Ch
  <2> QED
    BY <2>1
<1>7. ReadsOn
  BY <1>1, <1>2, <1>3 DEF ReadsOn, FileOK, Extends
<1> QED
  BY <1>2, <1>4, <1>5, <1>6, <1>7

\* A gap stays one.
LEMMA GapStays ==
  ASSUME ReadsOn, toks' = toks, NEW p \in Nat, Gapped(p), Here \in Nat \ {0}
  PROVE  Gapped(p)'
<1>1. p # 0 /\ p - 1 \in Nat /\ Here <= (p - 1) + 1 /\ p - 1 <= Len(text) /\ p <= Len(text') + 1
  BY DEF Gapped, ReadsOn
<1>2. SubSeq(text', Here, p - 1) = SubSeq(text, Here, p - 1)
  BY <1>1, PartStays DEF ReadsOn
<1>3. Here' = Here
  BY DEF Here, After
<1> QED
  BY <1>1, <1>2, <1>3 DEF Gapped

\* And so does what was read.
LEMMA PartReads ==
  ASSUME ReadsOn, NEW a \in Nat \ {0}, NEW b \in Nat, a <= b + 1, b <= Len(text)
  PROVE  SubSeq(text', a, b) = SubSeq(text, a, b)
BY PartStays DEF ReadsOn

\* The place behind the last token.
LEMMA HereFacts ==
  ASSUME LInv
  PROVE  /\ Here \in Nat \ {0} /\ Here <= Len(text) + 1
         /\ \A n \in 0..Len(toks) : After(toks, n) \in Nat \ {0} /\ After(toks, n) <= Len(text) + 1
<1>1. Len(toks) \in Nat /\ Len(text) \in Nat
  BY SeqFacts DEF LInv, TokensOK, FileOK
<1>2. ASSUME NEW n \in 0..Len(toks)
      PROVE  After(toks, n) \in Nat \ {0} /\ After(toks, n) <= Len(text) + 1
  <2>1. CASE n = 0
    BY <1>1, <2>1 DEF After
  <2>2. CASE n # 0
    <3>1. n \in 1..Len(toks)
      BY <1>1, <2>2
    <3>2. toks[n].to \in 0..Len(text)
      BY <3>1 DEF LInv, TokensOK, TokenOK
    <3> QED
      BY <1>1, <2>2, <3>2 DEF After
  <2> QED
    BY <2>1, <2>2
<1> QED
  BY <1>1, <1>2 DEF Here

\* So do the tokens stay right.
LEMMA LastingStays ==
  ASSUME NEW S, NEW s \in Seq(S), NEW w \in Seq(S), Extends(s, w),
         NEW e, NEW h, e => h /\ w = s, NEW t, Lasting(t, s, e, S)
  PROVE  Lasting(t, w, h, S)
<1>1. ASSUME NEW u \in Seq(S), NEW g \in BOOLEAN, Extends(w, u), h => u = w /\ g
      PROVE  Extends(s, u) /\ (e => u = s /\ g)
  <2>1. Len(u) \in Nat /\ Len(w) \in Nat /\ Len(s) \in Nat
    OBVIOUS
  <2> QED
    BY <1>1, <2>1 DEF Extends
<1> QED
  BY <1>1, Zenon DEF Lasting

\* Whether or not one more was made.
LEMMA MatchedStay ==
  ASSUME LInv, ReadsOn, AllMatched, NEW n \in 1..Len(toks),
         \A i \in 1..Len(toks) : toks'[i] = toks[i]
  PROVE  MatchedAt(toks, n, text, ended, source.chars)'
<1>0. Len(toks) \in Nat /\ toks'[n] = toks[n]
  BY SeqFacts DEF LInv, TokensOK
<1>1. CASE toks[n].k = "eof"
  BY <1>0, <1>1, Zenon DEF MatchedAt
<1>2. CASE toks[n].k # "eof"
  <2>1. /\ After(toks, n - 1) <= toks[n].from
        /\ IsGap(SubSeq(text, After(toks, n - 1), toks[n].from - 1))
        /\ Lasting(toks[n], text, ended, source.chars)
    BY <1>2 DEF AllMatched, MatchedAt
  <2>2. After(toks', n - 1) = After(toks, n - 1)
    <3>1. n - 1 # 0 => n - 1 \in 1..Len(toks)
      BY <1>0
    <3> QED
      BY <3>1, Zenon DEF After
  <2>3. Lasting(toks[n], text', ended', source.chars)
    <3>1. /\ text \in Seq(source.chars) /\ text' \in Seq(source.chars) /\ Extends(text, text')
          /\ ended => ended' /\ text' = text
      BY DEF ReadsOn
    <3>2. \A t : Lasting(t, text, ended, source.chars) => Lasting(t, text', ended', source.chars)
      BY <3>1, LastingStays
    <3> QED
      BY <2>1, <3>2
  <2>4. SubSeq(text', After(toks, n - 1), toks[n].from - 1)
          = SubSeq(text, After(toks, n - 1), toks[n].from - 1)
    <3>1. /\ After(toks, n - 1) \in Nat \ {0} /\ toks[n].from - 1 \in Nat
          /\ After(toks, n - 1) <= (toks[n].from - 1) + 1 /\ toks[n].from - 1 <= Len(text)
      <4>1. n - 1 \in 0..Len(toks)
        BY <1>0
      <4>2. toks[n].from \in 1..(Len(text) + 1) /\ Len(text) \in Nat
        BY DEF LInv, TokensOK, TokenOK, FileOK
      <4>3. After(toks, n - 1) \in Nat \ {0}
        BY <4>1, HereFacts
      <4> QED
        BY <2>1, <4>2, <4>3
    <3> QED
      BY <3>1, PartReads
  <2>5. source' = source
    BY DEF ReadsOn
  <2> QED
    BY <1>0, <2>1, <2>2, <2>3, <2>4, <2>5, Zenon DEF MatchedAt
<1> QED
  BY <1>1, <1>2

\* All of them do.
LEMMA AllStay == ASSUME LInv, ReadsOn, AllMatched, toks' = toks PROVE AllMatched'
<1>1. \A n \in 1..Len(toks) : MatchedAt(toks, n, text, ended, source.chars)'
  BY MatchedStay
<1> QED
  BY <1>1, Zenon DEF AllMatched

-----------------------------------------------------------------------------
(* White space and comments *)

\* A gap up to p and then white space or a whole comment up to q.
LEMMA GapTo ==
  ASSUME LInv, ReadsOn, toks' = toks, NEW p \in Nat, NEW q \in Nat, p <= q, q <= Len(text),
         Gapped(p), (q = p /\ text[q] \in Spaces) \/ IsComment(SubSeq(text, p, q))
  PROVE  Gapped(q + 1)'
<1>1. Here \in Nat \ {0} /\ Here' = Here
  BY HereFacts DEF Here, After
<1>2. p # 0 /\ Here <= p /\ text \in Seq(source.chars) /\ IsGap(SubSeq(text, Here, p - 1))
  BY <1>1 DEF Gapped, ReadsOn
<1>3. IsGap(SubSeq(text, Here, q))
  <2> DEFINE b == p - 1
  <2>1. b \in Nat /\ Here <= b + 1 /\ b < q /\ b + 1 = p /\ (q = p => q = b + 1)
    BY <1>1, <1>2
  <2>2. IsGap(SubSeq(text, Here, b))
    BY <1>2
  <2> HIDE DEF b
  <2> QED
    BY <1>1, <1>2, <2>1, <2>2, GapGrows
<1>4. SubSeq(text', Here, q) = SubSeq(text, Here, q)
  <2>1. Here <= q + 1
    BY <1>1, <1>2
  <2> QED
    BY <1>1, <2>1, PartStays DEF ReadsOn
<1>5. Here <= q + 1 /\ q + 1 <= Len(text') + 1 /\ (q + 1) - 1 = q
  BY <1>1, <1>2 DEF ReadsOn
<1> QED
  BY <1>1, <1>3, <1>4, <1>5 DEF Gapped

\* One character more of a comment that goes to the end of the line.
LEMMA InLineOn ==
  ASSUME LInv, ReadsOn, toks' = toks, NEW p \in 1..at, InLine(p),
         at' = at \/ (at' = at + 1 /\ at <= Len(text) /\ text[at] # "\n")
  PROVE  InLine(p)'
<1>1. p \in Nat /\ p + 2 <= at /\ at <= Len(text) + 1 /\ Gapped(p)
      /\ \A j \in 1..Len(text) : text'[j] = text[j]
  BY DEF InLine, ReadsOn, Extends
<1>2. Gapped(p)'
  BY <1>1, HereFacts, GapStays
<1>3. text'[p] = "/" /\ text'[p + 1] = "/"
  BY <1>1 DEF InLine, ReadsOn
<1>4. ASSUME NEW j \in p..(at' - 1) PROVE text'[j] # "\n"
  <2>1. j \in p..(at - 1) \/ (j = at /\ at <= Len(text) /\ text[at] # "\n")
    <3>1. at \in Nat /\ at' \in Nat
      BY DEF ReadsOn
    <3>2. CASE at' = at
      BY <1>4, <3>2
    <3>3. CASE at' = at + 1 /\ at <= Len(text) /\ text[at] # "\n"
      <4>1. j \in p..at
        BY <1>1, <1>4, <3>1, <3>3
      <4> QED
        BY <1>1, <3>1, <3>3, <4>1
    <3> QED
      BY <3>2, <3>3
  <2>2. j \in 1..Len(text)
    BY <1>1, <2>1 DEF ReadsOn
  <2> QED
    BY <1>1, <2>1, <2>2 DEF InLine
<1>5. p + 2 <= at'
  BY <1>1 DEF ReadsOn
<1> QED
  BY <1>2, <1>3, <1>4, <1>5 DEF InLine

\* And of one that goes to the next star and slash.
LEMMA InBlockOn ==
  ASSUME LInv, ReadsOn, toks' = toks, NEW p \in 1..at, InBlock(p),
         at' = at \/ (at' = at + 1 /\ at <= Len(text) /\ (StarHere(p) => text[at] # "/"))
  PROVE  InBlock(p)'
<1>1. p \in Nat /\ p + 2 <= at /\ at <= Len(text) + 1 /\ Gapped(p)
      /\ \A j \in 1..Len(text) : text'[j] = text[j]
  BY DEF InBlock, ReadsOn, Extends
<1>2. Gapped(p)'
  BY <1>1, HereFacts, GapStays
<1>3. text'[p] = "/" /\ text'[p + 1] = "*"
  BY <1>1 DEF InBlock, ReadsOn
<1>4. ASSUME NEW j \in (p + 2)..(at' - 2) PROVE ~(text'[j] = "*" /\ text'[j + 1] = "/")
  <2>1. j \in (p + 2)..(at - 2) \/ (j = at - 1 /\ j + 1 = at /\ p + 3 <= at /\ at <= Len(text)
                                    /\ (StarHere(p) => text[at] # "/"))
    <3>1. at \in Nat /\ at' \in Nat
      BY DEF ReadsOn
    <3>2. CASE at' = at
      BY <1>4, <3>2
    <3>3. CASE at' = at + 1 /\ at <= Len(text) /\ (StarHere(p) => text[at] # "/")
      <4>1. j \in (p + 2)..(at - 1)
        BY <1>1, <1>4, <3>1, <3>3
      <4>2. j \in (p + 2)..(at - 2) \/ (j = at - 1 /\ j + 1 = at /\ p + 3 <= at)
        BY <1>1, <3>1, <4>1
      <4> QED
        BY <3>3, <4>2
    <3> QED
      BY <3>2, <3>3
  <2>2. j \in 1..Len(text) /\ j + 1 \in 1..Len(text)
    BY <1>1, <2>1 DEF ReadsOn
  <2>3. text'[j] = text[j] /\ text'[j + 1] = text[j + 1]
    BY <1>1, <2>2
  <2> QED
    BY <2>1, <2>3 DEF InBlock, StarHere
<1>5. p + 2 <= at'
  BY <1>1 DEF ReadsOn
<1> QED
  BY <1>2, <1>3, <1>4, <1>5 DEF InBlock

\* A step between two tokens.
LEMMA SkipGoesOn ==
  ASSUME LInv, WInv, ReadsOn, SkipOK', NEW m \in {"skip", "block", "star", "line"}, SkipTo(m)
  PROVE  WInv'
<1>1. toks' = toks /\ mode' = m /\ m \notin Reading /\ m # "done" /\ m # "init"
  BY DEF SkipTo, Reading
<1>2. AllMatched'
  BY <1>1, AllStay DEF WInv
<1> QED
  BY <1>1, <1>2 DEF WInv, ReadOK

\* The gap is known to be one up to where lx->ch is now.
LEMMA GapHere == ASSUME NEW q, Gapped(q)', at' = q PROVE Gapped(at)'
BY DEF Gapped

\* White space and comments, character by character (cc1_skip_ws_and_comments).
LEMMA SkipMatches == ASSUME LInv, WInv, Skip PROVE WInv'
<1>0. PICK a \in Nat : a = at
  BY DEF LInv, FileOK
<1>1. CASE SkipSpace
  <2>1. mode = "skip" /\ Ch \in Spaces /\ Advance /\ SkipTo("skip") /\ toks' = toks /\ mode' = "skip"
    BY <1>1 DEF SkipSpace, SkipTo
  <2>2. /\ ReadsOn /\ Ch # EOF /\ at \in 1..Len(text) /\ Ch = text[at] /\ at' = at + 1
        /\ text \in Seq(source.chars) /\ Len(text) \in Nat
    BY <2>1, AdvanceReads DEF Spaces, EOF, ReadsOn
  <2>3. Gapped(a + 1)'
    <3>1. CASE Gapped(at)
      <4>1. a <= a /\ a <= Len(text) /\ text[a] \in Spaces /\ Gapped(a)
        BY <1>0, <2>1, <2>2, <3>1
      <4> QED
        BY <2>1, <2>2, <4>1, GapTo
    <3>2. ASSUME Ch = "\n", NEW p \in 1..at, InLine(p) PROVE Gapped(a + 1)'
      <4>1. /\ p \in Nat \ {0} /\ p + 2 <= a /\ p <= a /\ a <= Len(text)
            /\ text[p] = "/" /\ text[p + 1] = "/" /\ text[a] = "\n" /\ Gapped(p)
            /\ \A j \in p..(a - 1) : text[j] # "\n"
        BY <1>0, <2>2, <3>2 DEF InLine
      <4>2. IsComment(SubSeq(text, p, a))
        BY <2>2, <4>1, LineIsComment
      <4> QED
        BY <2>1, <2>2, <4>1, <4>2, GapTo
    <3> QED
      BY <2>1, <2>2, <3>1, <3>2 DEF WInv, SkipOK
  <2>4. SkipOK'
    BY <1>0, <2>1, <2>2, <2>3, GapHere DEF SkipOK
  <2> QED
    BY <2>1, <2>2, <2>4, SkipGoesOn
<1>2. CASE Peek
  <2>1. mode = "skip" /\ Ch = "/" /\ toks' = toks /\ mode' = "skip" /\ at' = at /\ SkipTo("skip")
    BY <1>2 DEF Peek, SkipTo
  <2>2. FileOK /\ at \in Nat /\ at # 0 /\ Len(text) \in Nat /\ at <= Len(text) + 1
    BY <2>1 DEF LInv, FileOK, ReadingOK
  <2>3. at \in 1..Len(text)
    BY <2>1, <2>2, ChFacts DEF EOF
  <2>4. ReadTo(at + 1) /\ UNCHANGED <<source, at, loc>>
    BY <1>2, <2>2, <2>3, ReachFacts DEF Peek
  <2>5. ReadsOn
    BY <2>2, <2>4 DEF ReadTo, Extends, ReadsOn, FileOK
  <2>6. Gapped(a)
    BY <1>0, <2>1 DEF WInv, SkipOK, EOF
  <2>7. Gapped(a)'
    BY <2>1, <2>5, <2>6, HereFacts, GapStays
  <2>8. SkipOK'
    BY <1>0, <2>1, <2>7, GapHere DEF SkipOK
  <2> QED
    BY <2>1, <2>5, <2>8, SkipGoesOn
<1>3. CASE OpenComment
  <2>1. /\ mode = "skip" /\ Ch = "/" /\ at < Len(text) /\ text[at + 1] \in {"*", "/"} /\ AdvanceTwice
        /\ SkipTo(IF text[at + 1] = "*" THEN "block" ELSE "line") /\ toks' = toks
        /\ mode' = IF text[at + 1] = "*" THEN "block" ELSE "line"
    BY <1>3 DEF OpenComment, SkipTo
  <2>2. FileOK /\ at # 0 /\ at \in Nat /\ at \in 1..(Len(text) - 1) /\ Len(text) \in Nat
    BY <2>1 DEF LInv, FileOK, ReadingOK
  <2>3. FileOK' /\ source' = source /\ Extends(text, text') /\ at' = at + 2
    BY <2>1, <2>2, AdvanceTwiceFacts
  <2>4. ReadsOn
    <3>1. ended => ended' /\ text' = text
      <4>1. at + 2 \in 1..(Len(text) + 1)
        BY <2>2
      <4> QED
        BY <2>1, <2>2, <4>1, ReachFacts DEF AdvanceTwice, ReadTo
    <3> QED
      BY <2>2, <2>3, <3>1 DEF ReadsOn, FileOK, Extends
  <2>5. Gapped(a) /\ text[a] = "/"
    BY <1>0, <2>1, <2>2, ChFacts DEF WInv, SkipOK, EOF
  <2>6. Gapped(a)'
    BY <2>1, <2>4, <2>5, HereFacts, GapStays
  <2>7. text'[a] = "/" /\ text'[a + 1] = text[a + 1] /\ at' = a + 2 /\ a \in 1..at'
    BY <1>0, <2>2, <2>3, <2>5 DEF Extends
  <2>8. CASE text[a + 1] = "*"
    <3>1. InBlock(a)'
      BY <2>6, <2>7, <2>8 DEF InBlock
    <3>2. ~StarHere(a)'
      BY <2>7 DEF StarHere
    <3>3. mode' = "block"
      BY <1>0, <2>1, <2>8
    <3>4. SkipOK'
      BY <2>7, <3>1, <3>2, <3>3 DEF SkipOK
    <3> QED
      BY <1>0, <2>1, <2>4, <2>8, <3>4, SkipGoesOn
  <2>9. CASE text[a + 1] = "/"
    <3>1. \A j \in a..((a + 2) - 1) : j = a \/ j = a + 1
      OBVIOUS
    <3>2. InLine(a)'
      BY <2>6, <2>7, <2>9, <3>1 DEF InLine
    <3>3. mode' = "line"
      BY <1>0, <2>1, <2>9
    <3>4. SkipOK'
      BY <2>7, <3>2, <3>3 DEF SkipOK
    <3> QED
      BY <1>0, <2>1, <2>4, <2>9, <3>4, SkipGoesOn
  <2> QED
    BY <1>0, <2>1, <2>8, <2>9
<1>4. CASE BlockComment
  <2>1. /\ mode = "block" /\ Ch # EOF /\ Advance /\ SkipTo(IF Ch = "*" THEN "star" ELSE "block")
        /\ toks' = toks /\ mode' = IF Ch = "*" THEN "star" ELSE "block"
    BY <1>4 DEF BlockComment, CommentCut, SkipTo
  <2>2. /\ ReadsOn /\ at \in 1..Len(text) /\ Ch = text[at] /\ at' = at + 1 /\ at <= Len(text)
        /\ Len(text) \in Nat /\ Extends(text, text')
    BY <2>1, AdvanceReads DEF ReadsOn
  <2>3. PICK p \in 1..at : InBlock(p) /\ (StarHere(p) => Ch # "/")
    BY <2>1 DEF WInv, SkipOK
  <2>4. InBlock(p)'
    BY <2>1, <2>2, <2>3, InBlockOn
  <2>5. text'[at'- 1] = Ch /\ p + 3 <= at' /\ p \in 1..at'
    BY <2>2, <2>3 DEF Extends, InBlock
  <2>6. StarHere(p)' <=> Ch = "*"
    BY <2>5 DEF StarHere
  <2>7. SkipOK'
    BY <2>1, <2>4, <2>5, <2>6 DEF SkipOK
  <2> QED
    BY <2>1, <2>2, <2>7, SkipGoesOn
<1>5. CASE AfterStar
  <2>1. mode = "star" /\ toks' = toks
    BY <1>5 DEF AfterStar, SkipTo
  <2>2. PICK p \in 1..at : InBlock(p) /\ StarHere(p)
    BY <2>1 DEF WInv, SkipOK
  <2>3. CASE Ch = "/"
    <3>1. Advance /\ SkipTo("skip") /\ mode' = "skip"
      BY <1>5, <2>3 DEF AfterStar, SkipTo
    <3>2. /\ ReadsOn /\ at \in 1..Len(text) /\ Ch = text[at] /\ at' = at + 1
          /\ text \in Seq(source.chars) /\ Len(text) \in Nat
      BY <2>1, <2>3, <3>1, AdvanceReads DEF EOF, ReadsOn
    <3>3. /\ p \in Nat \ {0} /\ p <= a /\ p + 3 <= a /\ a <= Len(text) /\ Gapped(p)
          /\ text[p] = "/" /\ text[p + 1] = "*" /\ text[a - 1] = "*" /\ text[a] = "/"
          /\ \A j \in (p + 2)..(a - 2) : ~(text[j] = "*" /\ text[j + 1] = "/")
      BY <1>0, <2>2, <2>3, <3>2 DEF InBlock, StarHere
    <3>4. IsComment(SubSeq(text, p, a))
      BY <3>2, <3>3, BlockIsComment
    <3>5. Gapped(a + 1)'
      BY <2>1, <3>2, <3>3, <3>4, GapTo
    <3>6. SkipOK'
      BY <1>0, <3>1, <3>2, <3>5, GapHere DEF SkipOK
    <3> QED
      BY <3>1, <3>2, <3>6, SkipGoesOn
  <2>4. CASE Ch # "/"
    <3>1. Hold /\ SkipTo("block") /\ mode' = "block"
      BY <1>5, <2>4 DEF AfterStar, SkipTo
    <3>2. ReadsOn /\ at' = at /\ Ch' = Ch
      BY <3>1, HoldReads
    <3>3. InBlock(p)'
      BY <2>1, <2>2, <3>2, InBlockOn
    <3>4. SkipOK'
      BY <2>4, <3>1, <3>2, <3>3 DEF SkipOK
    <3> QED
      BY <3>1, <3>2, <3>4, SkipGoesOn
  <2> QED
    BY <2>3, <2>4
<1>6. CASE LineComment
  <2>1. /\ mode = "line" /\ Ch # EOF /\ Ch # "\n" /\ Advance /\ SkipTo("line")
        /\ toks' = toks /\ mode' = "line"
    BY <1>6 DEF LineComment, SkipTo
  <2>2. ReadsOn /\ at \in 1..Len(text) /\ Ch = text[at] /\ at' = at + 1 /\ at <= Len(text)
    BY <2>1, AdvanceReads DEF ReadsOn
  <2>3. PICK p \in 1..at : InLine(p)
    BY <2>1 DEF WInv, SkipOK
  <2>4. InLine(p)' /\ p \in 1..at'
    BY <2>1, <2>2, <2>3, InLineOn
  <2>5. SkipOK'
    BY <2>1, <2>4 DEF SkipOK
  <2> QED
    BY <2>1, <2>2, <2>5, SkipGoesOn
<1>7. CASE LineOver
  <2>1. mode = "line" /\ Ch \in {EOF, "\n"} /\ Hold /\ SkipTo("skip") /\ toks' = toks /\ mode' = "skip"
    BY <1>7 DEF LineOver, SkipTo
  <2>2. ReadsOn /\ at' = at /\ Ch' = Ch
    BY <2>1, HoldReads
  <2>3. PICK p \in 1..at : InLine(p)
    BY <2>1 DEF WInv, SkipOK
  <2>4. InLine(p)' /\ p \in 1..at'
    BY <2>1, <2>2, <2>3, InLineOn
  <2>5. SkipOK'
    BY <2>1, <2>2, <2>4 DEF SkipOK
  <2> QED
    BY <2>1, <2>2, <2>5, SkipGoesOn
<1> QED
  BY <1>1, <1>2, <1>3, <1>4, <1>5, <1>6, <1>7 DEF Skip

-----------------------------------------------------------------------------
(* A token is being read *)

\* What is said of the token that starts at f is said of tok.
LEMMA ReadHere ==
  ASSUME NEW f \in Nat, tok'.from = f, Gapped(f)', f <= Len(text'), Inside(f)'
  PROVE  ReadOK'
<1>1. Gapped(tok.from)'
  BY DEF Gapped
<1>2. Inside(tok.from)'
  BY Zenon DEF Inside, Unclosed, Closing
<1> QED
  BY <1>1, <1>2 DEF ReadOK

\* A step that starts one.
LEMMA StartMatches ==
  ASSUME LInv, WInv, NEW m \in Reading, Start(m), Ch # EOF, Advance \/ Hold,
         NEW f \in Nat, f = at, Inside(f)'
  PROVE  WInv'
<1>1. mode = "skip" /\ Ch # "\n" /\ toks' = toks /\ mode' = m /\ tok'.from = f
  BY DEF Start, AtToken, Spaces
<1>2. ReadsOn
  BY <1>1, AdvanceReads, HoldReads
<1>3. FileOK /\ at # 0
  BY <1>1 DEF LInv, ReadingOK
<1>4. f <= Len(text) /\ Gapped(f)
  BY <1>1, <1>3, ChFacts DEF WInv, SkipOK
<1>5. Gapped(f)' /\ f <= Len(text')
  BY <1>1, <1>2, <1>4, HereFacts, GapStays DEF ReadsOn
<1>6. ReadOK'
  BY <1>1, <1>5, ReadHere
<1>7. AllMatched'
  BY <1>1, <1>2, AllStay DEF WInv
<1>8. m # "skip" /\ m # "line" /\ m # "block" /\ m # "star" /\ m # "done" /\ m # "init"
  BY DEF Reading
<1> QED
  BY <1>1, <1>6, <1>7, <1>8 DEF WInv, SkipOK

\* A step in the middle of one.
LEMMA ReadMatches ==
  ASSUME LInv, WInv, ReadsOn, mode \in Reading, mode' \in Reading, toks' = toks,
         tok'.from = tok.from, NEW f \in Nat, f = tok.from, Inside(f)'
  PROVE  WInv'
<1>1. Gapped(f) /\ f <= Len(text)
  BY DEF WInv, ReadOK
<1>2. Gapped(f)' /\ f <= Len(text')
  BY <1>1, HereFacts, GapStays DEF ReadsOn
<1>3. ReadOK'
  BY <1>2, ReadHere
<1>4. AllMatched'
  BY AllStay DEF WInv
<1>5. mode' \notin {"skip", "line", "block", "star", "done", "init"}
  BY DEF Reading
<1> QED
  BY <1>3, <1>4, <1>5 DEF WInv, SkipOK

\* A name or a number goes on as it begins.
LEMMA WordClass ==
  ASSUME NEW c \in Ident
  PROVE  WordMode(c) \in {"name", "number"} /\ WordChars(WordMode(c)) = Class(c)
<1>1. CASE c \in IdentStart
  <2>1. c \notin Figures
    BY <1>1 DEF IdentStart, Letters, Figures
  <2> QED
    BY <1>1, <2>1 DEF WordMode, WordChars, Class
<1>2. CASE c \notin IdentStart
  <2>1. c \in Figures
    BY <1>2 DEF Ident
  <2>2. "_" \notin Letters /\ "_" \notin Figures
    BY DEF Letters, Figures
  <2>3. Letters \cup Figures = Ident \ {"_"}
    BY <2>2, Zenon DEF Ident, IdentStart
  <2> QED
    BY <1>2, <2>1, <2>3 DEF WordMode, WordChars, Class
<1> QED
  BY <1>1, <1>2

\* The first character of a token.
LEMMA StartsMatch == ASSUME LInv, WInv, StartWord \/ StartQuoted \/ StartOperator PROVE WInv'
<1>0. PICK f \in Nat : f = at
  BY DEF LInv, FileOK
<1>1. CASE StartWord
  <2>1. Ch \in Ident /\ Start(WordMode(Ch)) /\ Hold /\ mode' = WordMode(Ch) /\ mode = "skip"
    BY <1>1 DEF StartWord, Start, AtToken
  <2>2. Ch # EOF
    BY <2>1 DEF Ident, IdentStart, Letters, Figures, EOF
  <2>3. FileOK /\ at # 0
    BY <2>1 DEF LInv, ReadingOK
  <2>4. text' = text /\ at' = at /\ text[f] = Ch
    BY <1>0, <2>1, <2>2, <2>3, ChFacts DEF Hold, file
  <2>5. mode' \in {"name", "number"} /\ WordChars(mode') = Class(text'[f])
    BY <2>1, <2>4, WordClass
  <2>6. \A j \in f..(at' - 1) : FALSE
    BY <1>0, <2>4
  <2>7. Inside(f)'
    BY <2>1, <2>4, <2>5, <2>6 DEF Inside
  <2>8. mode' \in Reading
    BY <2>5 DEF Reading
  <2> QED
    BY <1>0, <2>1, <2>2, <2>7, <2>8, StartMatches
<1>2. CASE StartQuoted
  <2>1. Ch = Quote \/ Ch = "'"
    BY <1>2, Zenon DEF StartQuoted, Quote
  <2>2. Start(IF Ch = "'" THEN "char" ELSE "string") /\ Advance /\ mode = "skip"
        /\ mode' = (IF Ch = "'" THEN "char" ELSE "string")
    BY <1>2, Zenon DEF StartQuoted, Start, AtToken
  <2>3. Quote # EOF /\ Quote # "'"
    BY Zenon DEF Quote, EOF
  <2>4. Ch # EOF
    BY <2>1, <2>3 DEF EOF
  <2>5. /\ ReadsOn /\ at \in 1..Len(text) /\ Ch = text[at] /\ at' = at + 1
        /\ text' \in Seq(source.chars) /\ Extends(text, text') /\ Len(text') \in Nat
    BY <2>2, <2>4, AdvanceReads DEF ReadsOn
  <2>6. text'[f] = Ch /\ at' = f + 1 /\ f \in Nat \ {0} /\ f <= Len(text')
    BY <1>0, <2>5 DEF Extends, ReadsOn
  <2>7. Inside(f)'
    <3>1. CASE Ch = "'"
      BY <2>2, <2>6, <3>1 DEF Inside
    <3>2. CASE Ch = Quote
      <4>1. mode' = "string"
        BY <2>2, <2>3, <3>2
      <4>2. ~Esc(text', f, f + 1)
        BY <2>5, <2>6, EscStep
      <4>3. \A j \in (f + 1)..(at' - 1) : FALSE
        BY <2>6
      <4>4. Unclosed(f)'
        BY <2>6, <3>2, <4>3 DEF Unclosed
      <4> QED
        BY <2>6, <4>1, <4>2, <4>4 DEF Inside
    <3> QED
      BY <2>1, <3>1, <3>2
  <2>8. (IF Ch = "'" THEN "char" ELSE "string") \in Reading
    BY DEF Reading
  <2> QED
    BY <1>0, <2>2, <2>4, <2>7, <2>8, StartMatches
<1>3. CASE StartOperator
  <2>1. Ch \notin Ident \cup {Quote, "'"} /\ Ch # EOF
    BY <1>3, Zenon DEF StartOperator, Quote
  <2>2. Start("op") /\ Advance /\ mode = "skip" /\ mode' = "op" /\ tok'.c = Ch
    BY <1>3, Zenon DEF StartOperator, Start, AtToken
  <2>3. ReadsOn /\ at \in 1..Len(text) /\ Ch = text[at] /\ at' = at + 1 /\ Extends(text, text')
    BY <2>1, <2>2, AdvanceReads DEF ReadsOn
  <2>4. text'[f] = Ch /\ at' = f + 1
    BY <1>0, <2>3 DEF Extends
  <2>5. Inside(f)'
    BY <2>1, <2>2, <2>4 DEF Inside
  <2>6. "op" \in Reading
    BY DEF Reading
  <2> QED
    BY <1>0, <2>1, <2>2, <2>5, <2>6, StartMatches
<1> QED
  BY <1>1, <1>2, <1>3

\* One character more of a string.
LEMMA UnclosedOn ==
  ASSUME ReadsOn, NEW f \in Nat \ {0}, Unclosed(f), at \in 1..Len(text), at' = at + 1,
         text[at] = Quote => Esc(text, f, at)
  PROVE  /\ Unclosed(f)'
         /\ Esc(text', f, at + 1) <=> text[at] = "\\" /\ ~Esc(text, f, at)
<1>1. /\ text \in Seq(source.chars) /\ text' \in Seq(source.chars) /\ Extends(text, text')
      /\ at \in Nat /\ f < at /\ Len(text) \in Nat /\ Len(text') \in Nat /\ at <= Len(text)
      /\ f \in Nat /\ \A j \in 1..Len(text) : text'[j] = text[j]
  BY DEF ReadsOn, Unclosed, Extends
<1>2. ASSUME NEW j \in (f + 1)..at PROVE Esc(text', f, j) <=> Esc(text, f, j)
  <2>1. j \in Nat /\ f < j /\ j <= Len(text) + 1
    BY <1>1
  <2> QED
    BY <1>1, <2>1, EscStays
<1>3. Unclosed(f)'
  <2>1. ASSUME NEW j \in (f + 1)..(at' - 1), text'[j] = Quote PROVE Esc(text', f, j)
    <3>1. j \in (f + 1)..at /\ text[j] = Quote
      BY <1>1, <2>1
    <3>2. j \in (f + 1)..(at - 1) \/ j = at
      BY <1>1, <3>1
    <3>3. Esc(text, f, j)
      BY <3>1, <3>2 DEF Unclosed
    <3> QED
      BY <1>2, <3>1, <3>3
  <2>2. text'[f] = Quote /\ f < at'
    BY <1>1 DEF Unclosed
  <2> QED
    BY <2>1, <2>2 DEF Unclosed
<1>4. Esc(text', f, at + 1) <=> text[at] = "\\" /\ ~Esc(text, f, at)
  <2>1. Esc(text', f, at + 1) <=> Esc(text, f, at + 1)
    <3>1. at + 1 \in Nat /\ f < at + 1 /\ at + 1 <= Len(text) + 1
      BY <1>1
    <3> QED
      BY <1>1, <3>1, EscStays
  <2>2. Esc(text, f, at + 1) <=> text[at] = "\\" /\ ~Esc(text, f, at)
    BY <1>1, EscStep
  <2> QED
    BY <2>1, <2>2
<1> QED
  BY <1>3, <1>4

\* A character in the middle of one.
LEMMA ReadsMatch ==
  ASSUME LInv, WInv, WordChar \/ StringChar \/ Backslash \/ StringEscape \/ CharValue
  PROVE  WInv'
<1> PICK f \in Nat : f = tok.from
  BY DEF LInv, ReadingOK
<1>1. /\ mode \in Reading /\ mode # "init" /\ Advance /\ toks' = toks /\ tok'.from = tok.from
  <2>1. mode \in Reading /\ Advance /\ toks' = toks
    BY DEF WordChar, StringChar, StringEscape, Backslash, CharValue, Reading
  <2>2. tok' = tok \/ \E c : tok' = [tok EXCEPT !.c = c]
    BY DEF WordChar, StringChar, StringEscape, Backslash, CharValue
  <2>3. PICK S : tok \in [from : Nat, line : Nat, col : Nat, c : S]
    BY DEF LInv, ReadingOK
  <2> QED
    BY <2>1, <2>2, <2>3 DEF Reading
<1>2. /\ ReadsOn
      /\ Ch # EOF => at \in 1..Len(text) /\ Ch = text[at] /\ at' = at + 1
      /\ Ch = EOF => at = Len(text) + 1 /\ ended /\ text' = text /\ at' = at /\ Ch' = EOF
  BY <1>1, AdvanceReads
<1>3. Inside(f) /\ f \in 1..at /\ f \in Nat \ {0} /\ f <= Len(text)
  BY <1>1 DEF WInv, ReadOK, LInv, ReadingOK
<1>4. /\ at \in Nat /\ Len(text) \in Nat /\ \A j \in 1..Len(text) : text'[j] = text[j]
      /\ Len(text') \in Nat /\ Len(text) <= Len(text') /\ at <= Len(text) + 1
  BY <1>2 DEF ReadsOn, Extends
<1>5. ASSUME mode' \in Reading, Inside(f)' PROVE WInv'
  BY <1>1, <1>2, <1>5, ReadMatches
<1>6. text'[f] = text[f]
  BY <1>3, <1>4
<1>7. CASE WordChar
  <2>1. mode \in {"name", "number"} /\ Ch \in WordChars(mode) /\ mode' = mode
    BY <1>7 DEF WordChar
  <2>2. text[f] \in Ident /\ WordChars(mode) = Class(text[f])
        /\ \A j \in f..(at - 1) : text[j] \in Class(text[f])
    BY <1>3, <2>1 DEF Inside
  <2>3. Ch # EOF
    BY <2>1 DEF WordChars, Ident, IdentStart, Letters, Figures, EOF
  <2>4. ASSUME NEW j \in f..(at' - 1) PROVE text'[j] \in Class(text[f])
    <3>1. j \in f..(at - 1) \/ j = at
      BY <1>2, <1>4, <2>3
    <3>2. text'[j] = text[j]
      BY <1>2, <1>3, <1>4, <2>3
    <3> QED
      BY <1>2, <2>1, <2>2, <2>3, <3>1, <3>2
  <2>5. Inside(f)'
    BY <1>6, <2>1, <2>2, <2>4 DEF Inside
  <2>6. mode' \in Reading
    BY <2>1 DEF Reading
  <2> QED
    BY <1>5, <2>5, <2>6
<1>8. CASE StringChar
  <2>1. mode = "string" /\ mode' = "string" /\ Ch # EOF /\ Ch # Quote /\ Ch # "\\"
    BY <1>8, Zenon DEF StringChar, Quote
  <2>2. Unclosed(f) /\ ~Esc(text, f, at)
    BY <1>3, <2>1 DEF Inside
  <2>3. Unclosed(f)' /\ ~Esc(text', f, at + 1)
    BY <1>2, <1>3, <2>1, <2>2, UnclosedOn
  <2>4. Inside(f)' /\ mode' \in Reading
    BY <1>2, <2>1, <2>3 DEF Inside, Reading
  <2> QED
    BY <1>5, <2>4
<1>9. CASE Backslash
  <2>1. mode \in {"string", "char"} /\ Ch = "\\"
        /\ mode' = IF mode = "string" THEN "strescape" ELSE "charescape"
    BY <1>9 DEF Backslash
  <2>2. Ch # EOF /\ Ch # Quote
    BY <2>1, Zenon DEF EOF, Quote
  <2>3. CASE mode = "string"
    <3>1. Unclosed(f) /\ ~Esc(text, f, at)
      BY <1>3, <2>2, <2>3 DEF Inside
    <3>2. Unclosed(f)' /\ Esc(text', f, at + 1)
      BY <1>2, <1>3, <2>1, <2>2, <3>1, UnclosedOn
    <3>3. Inside(f)' /\ mode' \in Reading
      BY <1>2, <2>1, <2>2, <2>3, <3>2 DEF Inside, Reading
    <3> QED
      BY <1>5, <3>3
  <2>4. CASE mode = "char"
    <3>1. text[f] = "'" /\ at = f + 1
      BY <1>3, <2>4 DEF Inside
    <3>2. text'[f + 1] = "\\" /\ at' = f + 2
      BY <1>2, <1>4, <2>1, <2>2, <3>1
    <3>3. Inside(f)' /\ mode' \in Reading
      BY <1>6, <2>1, <2>4, <3>1, <3>2 DEF Inside, Reading
    <3> QED
      BY <1>5, <3>3
  <2> QED
    BY <2>1, <2>3, <2>4
<1>10. CASE StringEscape
  <2>1. mode = "strescape" /\ mode' = "string"
    BY <1>10 DEF StringEscape
  <2>2. Unclosed(f) /\ Esc(text, f, at)
    BY <1>3, <2>1 DEF Inside
  <2>3. CASE Ch = EOF
    <3>1. Unclosed(f)'
      BY <1>2, <2>2, <2>3 DEF Unclosed
    <3>2. Inside(f)' /\ mode' \in Reading
      BY <1>2, <2>1, <2>3, <3>1 DEF Inside, Reading
    <3> QED
      BY <1>5, <3>2
  <2>4. CASE Ch # EOF
    <3>1. Unclosed(f)' /\ ~Esc(text', f, at + 1)
      BY <1>2, <1>3, <2>2, <2>4, UnclosedOn
    <3>2. Inside(f)' /\ mode' \in Reading
      BY <1>2, <2>1, <2>4, <3>1 DEF Inside, Reading
    <3> QED
      BY <1>5, <3>2
  <2> QED
    BY <2>3, <2>4
<1>11. CASE CharValue
  <2>1. (mode = "charescape" \/ (mode = "char" /\ Ch # "\\")) /\ mode' = "charend"
    BY <1>11 DEF CharValue
  <2>2. DOMAIN text = 1..Len(text) /\ DOMAIN text' = 1..Len(text')
    BY <1>2 DEF ReadsOn
  <2>3. text[f] = "'" /\ mode' \in Reading
    BY <1>3, <2>1 DEF Inside, Reading
  <2>4. at' = Closing(f)' \/ (Ch' = EOF /\ at' < Closing(f)')
    <3>1. CASE mode = "charescape"
      <4>1. at = f + 2 /\ text[f + 1] = "\\"
        BY <1>3, <3>1 DEF Inside
      <4>2. f + 1 \in 1..Len(text) /\ f + 1 \in 1..Len(text')
        BY <1>3, <1>4, <4>1
      <4>3. Char(text', f + 1) = "\\"
        BY <1>4, <2>2, <4>1, <4>2 DEF Char
      <4>4. Closing(f)' = f + 3
        BY <4>3 DEF Closing
      <4> QED
        BY <1>2, <4>1, <4>4
    <3>2. CASE mode = "char" /\ Ch # "\\"
      <4>1. at = f + 1
        BY <1>3, <3>2 DEF Inside
      <4>2. Char(text', f + 1) = Ch
        <5>1. CASE Ch = EOF
          BY <1>2, <4>1, <5>1 DEF Ch
        <5>2. CASE Ch # EOF
          <6>1. f + 1 \in 1..Len(text') /\ text'[f + 1] = Ch
            BY <1>2, <1>4, <4>1, <5>2
          <6> QED
            BY <2>2, <6>1 DEF Char
        <5> QED
          BY <5>1, <5>2
      <4>3. Closing(f)' = f + 2
        BY <3>2, <4>2 DEF Closing
      <4> QED
        BY <1>2, <4>1, <4>3
    <3> QED
      BY <2>1, <3>1, <3>2
  <2>5. Inside(f)'
    BY <1>6, <2>1, <2>3, <2>4 DEF Inside
  <2> QED
    BY <1>5, <2>3, <2>5
<1> QED
  BY <1>7, <1>8, <1>9, <1>10, <1>11

-----------------------------------------------------------------------------
(* A token is made *)

\* lx->ch is the character there however the text goes on.
LEMMA CharStays ==
  ASSUME LInv, mode # "init", NEW u \in Seq(source.chars), Extends(text, u), ended => u = text
  PROVE  Char(u, at) = Ch
<1>1. FileOK /\ at # 0
  BY DEF LInv, ReadingOK
<1>2. CASE Ch = EOF
  BY <1>1, <1>2, ChFacts DEF Ch
<1>3. CASE Ch # EOF
  <2>1. at \in 1..Len(text) /\ Ch = text[at] /\ Len(text) \in Nat /\ Len(u) \in Nat
    BY <1>1, <1>3, ChFacts DEF FileOK
  <2>2. at \in DOMAIN u /\ u[at] = text[at]
    BY <2>1 DEF Extends
  <2> QED
    BY <2>1, <2>2 DEF Char
<1> QED
  BY <1>2, <1>3

\* Between two places next to each other there is nothing.
LEMMA EmptyPart ==
  ASSUME NEW S, NEW s \in Seq(S), NEW a \in Nat \ {0}, a <= Len(s) + 1
  PROVE  SubSeq(s, a, a - 1) = <<>>
<1>1. a <= (a - 1) + 1 /\ a - 1 \in Nat /\ a - 1 <= Len(s) /\ (a - 1) - a + 1 = 0
  OBVIOUS
<1>2. Len(SubSeq(s, a, a - 1)) = 0 /\ SubSeq(s, a, a - 1) \in Seq(S)
  BY <1>1, PartChars
<1> QED
  BY <1>2

\* A token is added that starts where the gap behind the last one ends, and is
\* right.
LEMMA TokenMatches ==
  ASSUME LInv, WInv, ReadsOn, NEW t, toks' = Append(toks, t), t.k # "eof" => mode \in Reading,
         mode' = (IF t.k = "eof" THEN "done" ELSE "skip"),
         t.k # "eof" => t.from = tok.from /\ at' = t.to + 1 /\ t.to \in Nat,
         t.k # "eof" => Lasting(t, text, ended, source.chars),
         t.k = "eof" => NothingDropped'
  PROVE  WInv'
<1> PICK n \in Nat : n = Len(toks)
  BY SeqFacts DEF LInv, TokensOK
<1>1. /\ IsSeq(toks) /\ n \in Nat /\ Len(toks') = n + 1 /\ toks'[n + 1] = t
      /\ \A i \in 1..n : toks'[i] = toks[i]
  <2>1. IsSeq(toks)
    BY DEF LInv, TokensOK
  <2> QED
    BY <2>1, AppendFacts

<1>2. \A i \in 1..n : MatchedAt(toks, i, text, ended, source.chars)'
  BY <1>1, MatchedStay DEF WInv
<1>3. MatchedAt(toks, n + 1, text, ended, source.chars)'
  <2>1. CASE t.k = "eof"
    <3>1. toks'[n + 1].k = "eof"
      BY <1>1, <2>1
    <3> QED
      BY <3>1, Zenon DEF MatchedAt
  <2>2. CASE t.k # "eof"
    <3> PICK f \in Nat : f = tok.from
      BY DEF LInv, ReadingOK
    <3>1. Gapped(f) /\ f <= Len(text)
      BY <2>2 DEF WInv, ReadOK
    <3>2. After(toks', (n + 1) - 1) = Here
      <4>1. (n + 1) - 1 = n /\ (n # 0 => n \in 1..n)
        BY <1>1
      <4>2. n # 0 => toks'[n] = toks[n]
        BY <1>1, <4>1
      <4> QED
        BY <4>1, <4>2 DEF After, Here
    <3>3. SubSeq(text', Here, f - 1) = SubSeq(text, Here, f - 1)
      <4>1. Here \in Nat \ {0} /\ f - 1 \in Nat /\ Here <= (f - 1) + 1 /\ f - 1 <= Len(text)
        <5>1. Here \in Nat \ {0} /\ Here <= f /\ Len(text) \in Nat
          BY <3>1, HereFacts DEF Gapped, ReadsOn
        <5> QED
          BY <3>1, <5>1
      <4> QED
        BY <4>1, PartReads
    <3>4. Lasting(t, text', ended', source.chars)
      <4>1. /\ text \in Seq(source.chars) /\ text' \in Seq(source.chars) /\ Extends(text, text')
            /\ ended => ended' /\ text' = text
        BY DEF ReadsOn
      <4>2. \A x : Lasting(x, text, ended, source.chars) => Lasting(x, text', ended', source.chars)
        BY <4>1, LastingStays
      <4> QED
        BY <2>2, <4>2
    <3>5. source' = source /\ toks'[n + 1] = t /\ t.from = f
      BY <1>1, <2>2 DEF ReadsOn
    <3>6. Here <= f /\ IsGap(SubSeq(text, Here, f - 1))
      BY <3>1 DEF Gapped
    <3>7. /\ After(toks', (n + 1) - 1) <= toks'[n + 1].from
          /\ IsGap(SubSeq(text', After(toks', (n + 1) - 1), toks'[n + 1].from - 1))
          /\ Lasting(toks'[n + 1], text', ended', source'.chars)
      BY <3>2, <3>3, <3>4, <3>5, <3>6
    <3> QED
      BY <3>7, Zenon DEF MatchedAt
  <2> QED
    BY <2>1, <2>2
<1>4. AllMatched'
  <2>1. \A i \in 1..Len(toks') : i \in 1..n \/ i = n + 1
    BY <1>1
  <2>2. \A i \in 1..Len(toks') : MatchedAt(toks, i, text, ended, source.chars)'
    BY <1>2, <1>3, <2>1, Zenon
  <2> QED
    BY <2>2, Zenon DEF AllMatched
<1>5. mode' \notin Reading /\ mode' # "init" /\ mode' # "line" /\ mode' # "block" /\ mode' # "star"
  BY DEF Reading
<1>6. mode' = "skip" => Gapped(at)'
  <2> SUFFICES ASSUME t.k # "eof" PROVE Gapped(at)'
    OBVIOUS
  <2>1. Here' = at'
    BY <1>1 DEF Here, After
  <2>2. at' \in Nat \ {0} /\ at' <= Len(text') + 1 /\ text' \in Seq(source.chars)
    BY DEF ReadsOn
  <2>3. SubSeq(text', at', at' - 1) = <<>>
    BY <2>2, EmptyPart
  <2>4. IsGap(SubSeq(text', Here', at' - 1))
    BY <2>1, <2>3, GapEmpty
  <2>5. Here' <= at' /\ at' <= Len(text') + 1
    BY <2>1, <2>2
  <2> QED
    BY <2>4, <2>5, Zenon DEF Gapped
<1> QED
  BY <1>4, <1>5, <1>6 DEF WInv, SkipOK, ReadOK

\* It is right if it is, however the text goes on.
LEMMA EmitMatches ==
  ASSUME LInv, WInv, ReadsOn, mode \in Reading, NEW k, NEW v, Emit(k, v),
         NEW f \in Nat, f = tok.from, NEW to \in Nat, at' = to + 1,
         k # "eof" => \A u \in Seq(source.chars), g \in BOOLEAN :
           Extends(text, u) /\ (ended => u = text /\ g) => Right(f, to, u, g),
         k = "eof" => NothingDropped'
  PROVE  WInv'
<1>1. PICK t : /\ toks' = Append(toks, t) /\ t.k = k /\ t.from = f /\ t.to = to
               /\ mode' = (IF k = "eof" THEN "done" ELSE "skip")
  BY DEF Emit
<1>2. at' = t.to + 1
  BY <1>1
<1>3. k # "eof" => Lasting(t, text, ended, source.chars)
  BY <1>1, Zenon DEF Lasting
<1> QED
  BY <1>1, <1>2, <1>3, TokenMatches

\* What is known where a token ends.
LEMMA EndFacts ==
  ASSUME LInv, WInv, mode \in Reading, NEW f, f = tok.from
  PROVE  /\ f \in Nat \ {0} /\ f <= at /\ f <= Len(text) /\ Inside(f)
         /\ at \in Nat /\ at <= Len(text) + 1 /\ Len(text) \in Nat /\ text \in Seq(source.chars)
BY DEF LInv, ReadingOK, FileOK, WInv, ReadOK

\* A name or a number ends before the first character that is none of its.
LEMMA WordsMatch == ASSUME LInv, WInv, NameEnd \/ NumberEnd PROVE WInv'
<1> PICK f \in Nat : f = tok.from
  BY DEF LInv, ReadingOK
<1>1. mode \in {"name", "number"} /\ Ch \notin WordChars(mode) /\ Hold
  BY DEF NameEnd, NumberEnd, WordChars
<1>2. PICK k, v : k # "eof" /\ Emit(k, v)
  BY DEF NameEnd, NumberEnd
<1>3. mode \in Reading /\ mode # "init"
  BY <1>1 DEF Reading
<1>4. /\ f \in Nat \ {0} /\ f <= at /\ f <= Len(text) /\ Inside(f)
      /\ at \in Nat /\ at <= Len(text) + 1 /\ Len(text) \in Nat /\ text \in Seq(source.chars)
  BY <1>3, EndFacts
<1>5. ReadsOn /\ at' = at
  BY <1>1, HoldReads
<1>6. /\ text[f] \in Ident /\ WordChars(mode) = Class(text[f])
      /\ \A j \in f..(at - 1) : text[j] \in Class(text[f])
  BY <1>1, <1>4 DEF Inside
<1>7. f < at
  <2>1. text[f] \in Class(text[f])
    BY <1>6 DEF Class, Figures
  <2>2. f = at => Ch = text[f]
    <3>1. f \in DOMAIN text
      BY <1>4
    <3> QED
      BY <3>1 DEF Ch, Char
  <2> QED
    BY <1>1, <1>4, <1>6, <2>1, <2>2
<1> PICK to \in Nat : to = at - 1
  BY <1>4, <1>7
<1>8. to + 1 = at /\ at' = to + 1 /\ f <= to /\ to <= Len(text)
  BY <1>4, <1>5, <1>7
<1>9. ASSUME NEW u \in Seq(source.chars), NEW g \in BOOLEAN, Extends(text, u), ended => u = text
      PROVE  Right(f, to, u, g)
  <2>1. Char(u, to + 1) \notin Class(text[f])
    <3>1. Char(u, at) = Ch
      BY <1>3, <1>9, CharStays
    <3> QED
      BY <1>1, <1>6, <1>8, <3>1
  <2>2. \A j \in f..to : u[j] = text[j]
    BY <1>4, <1>8, <1>9 DEF Extends
  <2>3. u[f] = text[f] /\ to <= Len(u)
    BY <1>4, <1>8, <1>9, <2>2 DEF Extends
  <2>4. \A j \in f..to : u[j] \in Class(u[f])
    BY <1>6, <2>2, <2>3
  <2> QED
    BY <1>4, <1>6, <1>8, <2>1, <2>3, <2>4, WordRight
<1> QED
  BY <1>2, <1>3, <1>4, <1>5, <1>8, <1>9, EmitMatches

\* A string ends at its closing quote, or where the file ends.
LEMMA StringsMatch == ASSUME LInv, WInv, StringEnd PROVE WInv'
<1> PICK f \in Nat : f = tok.from
  BY DEF LInv, ReadingOK
<1>1. mode = "string" /\ Ch \in {EOF, Quote} /\ Emit("string", buf)
      /\ (IF Ch = EOF THEN Hold ELSE Advance)
  BY Zenon DEF StringEnd, Quote
<1>2. mode \in Reading /\ mode # "init" /\ "string" # "eof"
  BY <1>1 DEF Reading
<1>3. /\ f \in Nat \ {0} /\ f <= at /\ f <= Len(text) /\ Inside(f)
      /\ at \in Nat /\ at <= Len(text) + 1 /\ Len(text) \in Nat /\ text \in Seq(source.chars)
  BY <1>2, EndFacts
<1>4. Unclosed(f) /\ (Ch = EOF \/ ~Esc(text, f, at))
  BY <1>1, <1>3 DEF Inside
<1>5. text[f] = Quote /\ f < at /\ \A j \in (f + 1)..(at - 1) : text[j] = Quote => Esc(text, f, j)
  BY <1>4 DEF Unclosed
<1>6. CASE Ch = EOF
  <2>1. ReadsOn /\ at' = at /\ ended /\ at' = Len(text) + 1
    <3>1. at = Len(text) + 1 /\ ended
      BY <1>2, <1>6, ChFacts DEF LInv, ReadingOK
    <3>2. ReadsOn /\ at' = at
      BY <1>1, <1>6, HoldReads
    <3> QED
      BY <1>3, <3>1, <3>2
  <2>2. \A j \in (f + 1)..Len(text) : text[j] = Quote => Esc(text, f, j)
    BY <1>3, <1>5, <2>1
  <2>3. ASSUME NEW u \in Seq(source.chars), NEW g \in BOOLEAN, ended => u = text /\ g
        PROVE  Right(f, Len(text), u, g)
    BY <1>3, <1>5, <2>1, <2>2, <2>3, StringCut
  <2> QED
    BY <1>1, <1>2, <1>3, <2>1, <2>3, EmitMatches
<1>7. CASE Ch = Quote /\ Ch # EOF
  <2>1. ReadsOn /\ at \in 1..Len(text) /\ text[at] = Quote /\ at' = at + 1
    BY <1>1, <1>2, <1>7, AdvanceReads
  <2> PICK to \in Nat : to = at
    BY <1>3
  <2>2. at' = to + 1 /\ f < to /\ to <= Len(text)
    BY <1>3, <1>5, <2>1
  <2>3. ASSUME NEW u \in Seq(source.chars), NEW g \in BOOLEAN, Extends(text, u)
        PROVE  Right(f, to, u, g)
    <3>1. \A j \in f..to : u[j] = text[j]
      BY <1>3, <2>2, <2>3 DEF Extends
    <3>2. to <= Len(u) /\ u[f] = Quote /\ u[to] = Quote
      BY <1>3, <1>5, <2>1, <2>2, <2>3, <3>1 DEF Extends
    <3>3. ASSUME NEW j \in (f + 1)..to PROVE Esc(u, f, j) <=> Esc(text, f, j)
      <4>1. j \in Nat /\ f < j /\ j <= Len(text) + 1
        BY <1>3, <2>2
      <4> QED
        BY <1>3, <2>3, <4>1, EscStays
    <3>4. ~Esc(u, f, to)
      <4>1. to \in (f + 1)..to
        BY <1>3, <2>2
      <4> QED
        BY <1>4, <1>7, <3>3, <4>1
    <3>5. \A j \in (f + 1)..(to - 1) : u[j] = Quote => Esc(u, f, j)
      <4>1. \A j \in (f + 1)..(to - 1) : j \in f..to /\ j \in (f + 1)..to
        BY <1>3, <2>2
      <4> QED
        BY <1>5, <3>1, <3>3, <4>1
    <3> QED
      BY <1>3, <2>2, <3>2, <3>4, <3>5, StringRight
  <2> QED
    BY <1>1, <1>2, <1>3, <2>1, <2>2, <2>3, EmitMatches
<1> QED
  BY <1>1, <1>6, <1>7

\* A character constant ends at its apostrophe if there is one.
LEMMA CharsMatch == ASSUME LInv, WInv, CharEnd PROVE WInv'
<1> PICK f \in Nat : f = tok.from
  BY DEF LInv, ReadingOK
<1>1. mode = "charend" /\ Emit("char", tok.c) /\ (IF Ch = "'" THEN Advance ELSE Hold)
  BY DEF CharEnd
<1>2. mode \in Reading /\ mode # "init" /\ "char" # "eof" /\ "'" # EOF
  BY <1>1 DEF Reading, EOF
<1>3. /\ f \in Nat \ {0} /\ f <= at /\ f <= Len(text) /\ Inside(f)
      /\ at \in Nat /\ at <= Len(text) + 1 /\ Len(text) \in Nat /\ text \in Seq(source.chars)
      /\ DOMAIN text = 1..Len(text)
  BY <1>2, EndFacts
<1>4. text[f] = "'" /\ (at = Closing(f) \/ (Ch = EOF /\ at < Closing(f)))
  BY <1>1, <1>3 DEF Inside
<1>5. ReadsOn /\ at' = (IF Ch = "'" THEN at + 1 ELSE at)
  BY <1>1, <1>2, HoldReads, AdvanceReads
<1> PICK to \in Nat : at' = to + 1
  BY <1>3, <1>4, <1>5
<1>6. EOF \notin source.chars
  BY SourceAssumption DEF LInv, FileOK, EOF
<1>7. Closing(f) = f + 2 \/ Closing(f) = f + 3
  BY DEF Closing
<1>8. ASSUME NEW u \in Seq(source.chars), NEW g \in BOOLEAN, Extends(text, u), ended => u = text
      PROVE  Right(f, to, u, g)
  <2>1. Char(u, at) = Ch
    BY <1>2, <1>8, CharStays
  <2>2. Char(u, f + 1) = Char(text, f + 1)
    <3>1. CASE at = Closing(f)
      <4>1. f + 1 \in 1..Len(text)
        BY <1>3, <1>7, <3>1
      <4>2. f + 1 \in DOMAIN u /\ u[f + 1] = text[f + 1]
        BY <1>8, <4>1 DEF Extends
      <4> QED
        BY <1>3, <4>1, <4>2 DEF Char
    <3>2. CASE Ch = EOF
      <4>1. ended
        BY <1>2, <3>2, ChFacts DEF LInv, ReadingOK
      <4> QED
        BY <1>8, <4>1
    <3> QED
      BY <1>4, <3>1, <3>2
  <2> PICK n \in Nat : n = Closing(f)
    BY <1>7
  <2>3. n = (IF Char(u, f + 1) = "\\" THEN f + 3 ELSE f + 2)
    BY <2>2 DEF Closing
  <2>4. Char(u, n) = "'" => to = n
    <3>1. CASE at = n
      BY <1>3, <1>5, <2>1, <3>1
    <3>2. CASE Ch = EOF /\ at < n
      <4>1. ended /\ at = Len(text) + 1
        BY <1>2, <3>2, ChFacts DEF LInv, ReadingOK
      <4>2. u = text /\ n \notin DOMAIN text
        BY <1>3, <1>8, <3>2, <4>1
      <4> QED
        BY <1>2, <4>2 DEF Char
    <3> QED
      BY <1>4, <3>1, <3>2
  <2>5. u[f] = "'" /\ f <= Len(u)
    BY <1>3, <1>4, <1>8 DEF Extends
  <2>6. "EOF" \notin source.chars
    BY <1>6 DEF EOF
  <2> QED
    BY <1>3, <2>3, <2>4, <2>5, <2>6, CharRight
<1> QED
  BY <1>1, <1>2, <1>3, <1>5, <1>8, EmitMatches

\* The lexer stopped at a character that no token starts with.
LEMMA NothingHere ==
  ASSUME IsSeq(toks), NEW t, toks' = Append(toks, t), t.from = t.to, Wholes(text', t.from) = {}
  PROVE  NothingDropped'
<1>1. toks'[Len(toks')] = t
  BY AppendFacts
<1>2. ~\E i \in t.from..Len(text') : IsToken(SubSeq(text', t.from, i))
  BY Zenon DEF Wholes
<1> QED
  BY <1>1, <1>2 DEF NothingDropped

\* An operator takes the second character if the two are one.
LEMMA OperatorsMatch == ASSUME LInv, WInv, Operator PROVE WInv'
<1> PICK f \in Nat : f = tok.from
  BY DEF LInv, ReadingOK
<1> PICK two \in BOOLEAN : two <=> <<tok.c, Ch>> \in Double
  OBVIOUS
<1> PICK k : k = (IF two \/ tok.c \in Single THEN "op" ELSE "eof")
  OBVIOUS
<1>1. mode = "op" /\ (IF two THEN Advance ELSE Hold) /\ Emit(k, 0)
  BY DEF Operator
<1>2. mode \in Reading /\ mode # "init" /\ (two => Ch # EOF)
  BY <1>1 DEF Reading, Double, EOF
<1>3. /\ f \in Nat \ {0} /\ f <= Len(text) /\ Inside(f)
      /\ Len(text) \in Nat /\ text \in Seq(source.chars)
  BY <1>2, EndFacts
<1>4. at = f + 1 /\ tok.c = text[f] /\ text[f] \notin Ident \cup {Quote, "'"}
  BY <1>1, <1>3 DEF Inside
<1>5. ReadsOn /\ at' = (IF two THEN at + 1 ELSE at) /\ (~two => text' = text)
  BY <1>1, <1>2, HoldReads, AdvanceReads
<1> PICK to \in Nat : to = (IF two THEN f + 1 ELSE f)
  OBVIOUS
<1>6. at' = to + 1
  BY <1>4, <1>5
<1>7. ASSUME NEW u \in Seq(source.chars), Extends(text, u), ended => u = text
      PROVE  /\ f <= Len(u) /\ u[f] = text[f]
             /\ two <=> <<u[f], Char(u, f + 1)>> \in Double
  <2>1. f <= Len(u) /\ u[f] = text[f]
    BY <1>3, <1>7 DEF Extends
  <2>2. Char(u, f + 1) = Ch
    BY <1>2, <1>4, <1>7, CharStays
  <2> QED
    BY <1>4, <2>1, <2>2
<1>8. ASSUME NEW u \in Seq(source.chars), NEW g \in BOOLEAN, Extends(text, u), ended => u = text,
             k # "eof"
      PROVE  Right(f, to, u, g)
  <2>1. u[f] \notin Ident \cup {Quote, "'"} /\ (two \/ u[f] \in Single)
    BY <1>4, <1>7, <1>8
  <2> QED
    BY <1>3, <1>7, <1>8, <2>1, OperatorRight
<1>9. k = "eof" => NothingDropped'
  <2> SUFFICES ASSUME k = "eof" PROVE NothingDropped'
    OBVIOUS
  <2>1. ~two /\ text[f] \notin Single
    BY <1>4
  <2>2. Extends(text, text)
    BY <1>3 DEF Extends
  <2>3. Wholes(text, f) = {}
    <3>1. two <=> <<text[f], Char(text, f + 1)>> \in Double
      BY <1>3, <1>7, <2>2
    <3> QED
      BY <1>3, <1>4, <2>1, <3>1, OperatorRight
  <2>4. PICK t : toks' = Append(toks, t) /\ t.from = f /\ t.to = to
    BY <1>1, <1>6 DEF Emit
  <2>5. IsSeq(toks) /\ to = f /\ text' = text
    BY <1>5, <2>1 DEF LInv, TokensOK
  <2> QED
    BY <2>3, <2>4, <2>5, NothingHere
<1> QED
  BY <1>1, <1>2, <1>3, <1>5, <1>6, <1>8, <1>9, EmitMatches

-----------------------------------------------------------------------------
(* The end of the file *)

\* The beginning of a part is a part.
LEMMA SubSeqOfPart ==
  ASSUME NEW S, NEW s \in Seq(S), NEW a \in Nat \ {0}, NEW b \in Nat, a <= b + 1, b <= Len(s),
         NEW c \in Nat, a <= c + 1, c <= b
  PROVE  SubSeq(SubSeq(s, a, b), 1, c - a + 1) = SubSeq(s, a, c)
<1> DEFINE u == SubSeq(s, a, b)
           n == c - a + 1
           v == SubSeq(s, a, c)
           w == SubSeq(u, 1, n)
<1>1. u \in Seq(S) /\ Len(u) = b - a + 1 /\ \A i \in 1..(b - a + 1) : u[i] = s[a + i - 1]
  BY PartChars
<1>2. v \in Seq(S) /\ Len(v) = n /\ \A i \in 1..n : v[i] = s[a + i - 1]
  <2>1. c <= Len(s)
    OBVIOUS
  <2> QED
    BY <2>1, PartChars
<1>3. n \in Nat /\ n <= Len(u) /\ 1 <= n + 1 /\ n - 1 + 1 = n /\ \A i \in 1..n : i \in 1..(b - a + 1)
  BY <1>1
<1> HIDE DEF u, v, n
<1>4. w \in Seq(S) /\ Len(w) = n /\ \A i \in 1..n : w[i] = u[i]
  BY <1>1, <1>3, SubSeqProperties
<1> HIDE DEF w
<1>5. \A i \in 1..n : w[i] = v[i]
  BY <1>1, <1>2, <1>3, <1>4
<1>6. w = v
  BY <1>2, <1>4, <1>5, SeqEqual
<1> QED
  BY <1>6 DEF w, v, u, n

\* The characters of the end of a text.
LEMMA RestChars ==
  ASSUME NEW S, NEW s \in Seq(S), NEW h \in Nat \ {0}, h <= Len(s) + 1
  PROVE  LET r == SubSeq(s, h, Len(s)) IN
         /\ Len(r) = Len(s) - h + 1 /\ DOMAIN r = 1..Len(r) /\ r \in Seq(S)
         /\ \A i \in 1..Len(r) : Char(r, i) = s[h + i - 1]
<1> DEFINE q == Len(s)
           u == SubSeq(s, h, q)
<1>1. q \in Nat /\ h <= q + 1 /\ q <= Len(s)
  OBVIOUS
<1> HIDE DEF q
<1>2. /\ u \in Seq(S) /\ Len(u) = q - h + 1 /\ DOMAIN u = 1..(q - h + 1)
      /\ \A i \in 1..(q - h + 1) : Char(u, i) = s[h + i - 1]
  BY <1>1, PartChars
<1> QED
  BY <1>2 DEF q

\* What is behind the last token, and the newline that C wants there.
LEMMA RestFacts ==
  ASSUME LInv, NEW r, r = SubSeq(text, Here, Len(text))
  PROVE  /\ Len(r) = Len(text) - Here + 1 /\ DOMAIN r = 1..Len(r) /\ r \in Seq(source.chars)
         /\ \A i \in 1..Len(r) : Char(r, i) = text[Here + i - 1]
         /\ \E U \in Seq(source.chars \cup {"\n"}) :
              /\ Len(U) = Len(text) + 1 /\ U[Len(U)] = "\n" /\ Extends(text, U)
              /\ \A i \in 0..Len(text) : Here <= i + 1 => SubSeq(U, Here, i) = SubSeq(text, Here, i)
              /\ SubSeq(U, Here, Len(U)) = Append(r, "\n")
<1>1. /\ Here \in Nat \ {0} /\ Here <= Len(text) + 1 /\ Len(text) \in Nat
      /\ text \in Seq(source.chars)
  BY HereFacts DEF LInv, FileOK
<1>2. /\ Len(r) = Len(text) - Here + 1 /\ DOMAIN r = 1..Len(r) /\ r \in Seq(source.chars)
      /\ \A i \in 1..Len(r) : Char(r, i) = text[Here + i - 1]
  BY <1>1, RestChars
<1> DEFINE S == source.chars \cup {"\n"}
           U == Append(text, "\n")
<1>3. text \in Seq(S) /\ "\n" \in S
  BY <1>1
<1>4. /\ U \in Seq(S) /\ Len(U) = Len(text) + 1 /\ U[Len(text) + 1] = "\n"
      /\ \A i \in 1..Len(text) : U[i] = text[i]
  <2> HIDE DEF S
  <2> QED
    BY <1>3
<1> HIDE DEF S, U
<1>5. Extends(text, U)
  BY <1>1, <1>4 DEF Extends
<1>6. ASSUME NEW i \in 0..Len(text), Here <= i + 1 PROVE SubSeq(U, Here, i) = SubSeq(text, Here, i)
  <2>1. i \in Nat /\ i <= Len(text) /\ Here \in Nat \ {0}
    BY <1>1
  <2> QED
    BY <1>3, <1>4, <1>5, <1>6, <2>1, PartStays
<1>7. SubSeq(U, Here, Len(U)) = Append(r, "\n")
  <2> DEFINE n == Len(text) + 1
  <2>1. n \in Nat \ {0} /\ Here <= n /\ n <= Len(U) /\ n - 1 = Len(text) /\ n = Len(U) /\ U[n] = "\n"
    BY <1>1, <1>4
  <2> HIDE DEF n
  <2>2. Append(SubSeq(U, Here, n - 1), U[n]) = SubSeq(U, Here, n)
    BY <1>1, <1>4, <2>1, PartGrows
  <2>3. SubSeq(U, Here, n - 1) = r
    BY <1>1, <1>6, <2>1
  <2> QED
    BY <2>1, <2>2, <2>3
<1>8. U[Len(U)] = "\n"
  BY <1>4
<1> QED
  BY <1>2, <1>4, <1>5, <1>6, <1>7, <1>8 DEF S

\* The file ends behind white space and comments, or in one that goes to the
\* end of the line.
LEMMA EndIsGap ==
  ASSUME LInv, at = Len(text) + 1, Gapped(at) \/ \E p \in 1..at : InLine(p),
         NEW r, r = SubSeq(text, Here, Len(text))
  PROVE  IsGap(Append(r, "\n"))
<1>1. /\ Here \in Nat \ {0} /\ Here <= Len(text) + 1 /\ Len(text) \in Nat
  BY HereFacts DEF LInv, FileOK
<1> DEFINE S == source.chars \cup {"\n"}
<1>2. PICK U \in Seq(S) :
        /\ Len(U) = Len(text) + 1 /\ U[Len(U)] = "\n" /\ Extends(text, U)
        /\ \A i \in 0..Len(text) : Here <= i + 1 => SubSeq(U, Here, i) = SubSeq(text, Here, i)
        /\ SubSeq(U, Here, Len(U)) = Append(r, "\n")
  BY RestFacts
<1> HIDE DEF S
<1> DEFINE q == Len(text) + 1
<1>3. q \in Nat /\ q = Len(U) /\ U[q] = "\n" /\ q - 1 \in 0..Len(text) /\ (q - 1) + 1 = q
  BY <1>1, <1>2
<1>4. "\n" \in Spaces
  BY DEF Spaces
<1> HIDE DEF q
<1>5. CASE Gapped(at)
  <2> DEFINE b == q - 1
  <2>1. b \in Nat /\ Here <= b + 1 /\ b < q /\ q = b + 1 /\ q <= Len(U) /\ b = Len(text)
    BY <1>1, <1>3 DEF q
  <2>2. IsGap(SubSeq(U, Here, b))
    <3>1. at - 1 = b
      BY <2>1
    <3> QED
      BY <1>2, <1>3, <1>5, <2>1, <3>1 DEF Gapped
  <2> HIDE DEF b
  <2>3. IsGap(SubSeq(U, Here, q))
    BY <1>1, <1>3, <1>4, <2>1, <2>2, GapGrows
  <2> QED
    BY <1>2, <1>3, <2>3
<1>6. ASSUME NEW p \in 1..at, InLine(p) PROVE IsGap(Append(r, "\n"))
  <2> DEFINE b == p - 1
  <2>1. /\ p \in Nat \ {0} /\ p + 2 <= q /\ Gapped(p) /\ text[p] = "/" /\ text[p + 1] = "/"
        /\ \A j \in p..(q - 1) : text[j] # "\n"
    BY <1>1, <1>6 DEF InLine, q
  <2>2. /\ b \in Nat /\ b \in 0..Len(text) /\ b < q /\ q <= Len(U) /\ b + 1 = p /\ Here <= b + 1
    BY <1>1, <1>3, <2>1 DEF Gapped, q
  <2>3. IsGap(SubSeq(U, Here, b))
    <3>1. IsGap(SubSeq(text, Here, b))
      BY <2>1 DEF Gapped
    <3> HIDE DEF b
    <3> QED
      BY <1>2, <2>2, <3>1
  <2> HIDE DEF b
  <2>4. \A j \in p..(q - 1) : U[j] = text[j]
    BY <1>1, <1>2, <2>1 DEF Extends, q
  <2>5. U[p] = "/" /\ U[p + 1] = "/" /\ \A j \in p..(q - 1) : U[j] # "\n"
    BY <1>3, <2>1, <2>4
  <2>6. IsComment(SubSeq(U, p, q))
    BY <1>3, <2>1, <2>2, <2>5, LineIsComment
  <2>7. IsGap(SubSeq(U, Here, q))
    BY <1>1, <1>3, <2>2, <2>3, <2>6, GapGrows
  <2> QED
    BY <1>2, <1>3, <2>7
<1> QED
  BY <1>5, <1>6

\* It ends in a comment that is not closed.
LEMMA EndIsOpen ==
  ASSUME LInv, at = Len(text) + 1, NEW p \in 1..at, InBlock(p),
         NEW r, r = SubSeq(text, Here, Len(text))
  PROVE  \E i \in DOMAIN r :
           /\ Occurs(r, i, <<"/", "*">>) /\ IsGap(SubSeq(r, 1, i - 1))
           /\ \A j \in (i + 2)..Len(r) : ~Occurs(r, j, <<"*", "/">>)
<1>1. /\ Here \in Nat \ {0} /\ Here <= Len(text) + 1 /\ Len(text) \in Nat
      /\ text \in Seq(source.chars)
  BY HereFacts DEF LInv, FileOK
<1>2. /\ p \in Nat \ {0} /\ Here <= p /\ p + 1 <= Len(text) /\ text[p] = "/" /\ text[p + 1] = "*"
      /\ IsGap(SubSeq(text, Here, p - 1))
      /\ \A j \in (p + 2)..(Len(text) - 1) : ~(text[j] = "*" /\ text[j + 1] = "/")
  BY <1>1 DEF InBlock, Gapped
<1>3. /\ Len(r) = Len(text) - Here + 1 /\ DOMAIN r = 1..Len(r) /\ r \in Seq(source.chars)
      /\ \A i \in 1..Len(r) : Char(r, i) = text[Here + i - 1]
  BY RestFacts
<1> DEFINE i == p - Here + 1
<1>4. /\ i \in Int /\ i \in 1..Len(r) /\ i + 1 \in 1..Len(r)
      /\ Here + i - 1 = p /\ Here + (i + 1) - 1 = p + 1
  BY <1>1, <1>2, <1>3
<1> HIDE DEF i
<1>5. Occurs(r, i, <<"/", "*">>)
  <2>1. Char(r, i) = "/" /\ Char(r, i + 1) = "*"
    BY <1>2, <1>3, <1>4
  <2> QED
    BY <1>4, <2>1, OccursTwo
<1>6. IsGap(SubSeq(r, 1, i - 1))
  <2>1. SubSeq(r, 1, i - 1) = SubSeq(text, Here, p - 1)
    BY <1>1, <1>2, <1>3, <1>4, SubSeqOfPart DEF i
  <2> QED
    BY <1>2, <2>1
<1>7. ASSUME NEW j \in (i + 2)..Len(r), Occurs(r, j, <<"*", "/">>) PROVE FALSE
  <2>1. j \in Int /\ Char(r, j) = "*" /\ Char(r, j + 1) = "/"
    BY <1>4, <1>7, OccursTwo
  <2>2. j + 1 \in DOMAIN r
    BY <2>1 DEF Char, EOF
  <2>3. j \in 1..Len(r) /\ j + 1 \in 1..Len(r)
    BY <1>3, <1>4, <2>2
  <2> DEFINE k == Here + j - 1
  <2>4. k \in (p + 2)..(Len(text) - 1) /\ Here + (j + 1) - 1 = k + 1
    BY <1>1, <1>3, <1>7, <2>1, <2>3 DEF i
  <2> HIDE DEF k
  <2>5. text[k] = "*" /\ text[k + 1] = "/"
    BY <1>3, <2>1, <2>3, <2>4 DEF k
  <2> QED
    BY <1>2, <2>4, <2>5
<1> QED
  BY <1>3, <1>4, <1>5, <1>6, <1>7

\* The lexer stopped where there is nothing, or in a comment.
LEMMA NothingLeft ==
  ASSUME IsSeq(toks), NEW t, toks' = Append(toks, t), text' = text, ended',
         NEW r, r = SubSeq(text, Here, Len(text)),
         \/ IsGap(Append(r, "\n"))
         \/ \E i \in DOMAIN r :
              /\ Occurs(r, i, <<"/", "*">>) /\ IsGap(SubSeq(r, 1, i - 1))
              /\ \A j \in (i + 2)..Len(r) : ~Occurs(r, j, <<"*", "/">>)
  PROVE  NothingDropped'
<1> DEFINE place == (IF Len(toks') = 1 THEN 0 ELSE toks'[Len(toks') - 1].to) + 1
<1>1. place = Here
  <2>1. /\ Len(toks) \in Nat /\ Len(toks') = Len(toks) + 1
        /\ \A i \in 1..Len(toks) : toks'[i] = toks[i]
    BY AppendFacts
  <2>2. Len(toks) # 0 => toks'[Len(toks')-1] = toks[Len(toks)]
    BY <2>1
  <2> QED
    BY <2>1, <2>2 DEF Here, After
<1> HIDE DEF place
<1>2. r = SubSeq(text', place, Len(text'))
  BY <1>1
<1> QED
  BY <1>2, Zenon DEF NothingDropped, place

\* The file ends where no token is being read.
LEMMA EndMatches == ASSUME LInv, WInv, EndOfFile PROVE WInv'
<1>1. /\ Ch = EOF /\ (AtToken \/ CommentCut)
      /\ Hold /\ mode' = "done"
  BY DEF EndOfFile
<1>2. PICK t : toks' = Append(toks, t) /\ t.k = "eof"
  BY DEF EndOfFile
<1>3. mode = "skip" \/ mode = "block"
  BY <1>1 DEF AtToken, CommentCut
<1>4. FileOK /\ at # 0 /\ IsSeq(toks)
  BY <1>3 DEF LInv, ReadingOK, TokensOK
<1>5. ReadsOn /\ text' = text /\ ended' = ended /\ at = Len(text) + 1 /\ ended
  <2>1. Ch = EOF
    BY DEF EndOfFile
  <2> QED
    BY <1>1, <1>4, <2>1, ChFacts, HoldReads
<1> PICK r : r = SubSeq(text, Here, Len(text))
  OBVIOUS
<1>6. CASE mode = "skip"
  <2>1. Gapped(at) \/ \E p \in 1..at : InLine(p)
    BY <1>6 DEF WInv, SkipOK
  <2>2. IsGap(Append(r, "\n"))
    BY <1>5, <2>1, EndIsGap
  <2>3. NothingDropped'
    BY <1>2, <1>4, <1>5, <2>2, NothingLeft
  <2> QED
    BY <1>1, <1>2, <1>5, <2>3, TokenMatches
<1>7. CASE mode = "block"
  <2>1. PICK p \in 1..at : InBlock(p)
    BY <1>7 DEF WInv, SkipOK
  <2>2. \E i \in DOMAIN r :
          /\ Occurs(r, i, <<"/", "*">>) /\ IsGap(SubSeq(r, 1, i - 1))
          /\ \A j \in (i + 2)..Len(r) : ~Occurs(r, j, <<"*", "/">>)
    BY <1>5, <2>1, EndIsOpen
  <2>3. NothingDropped'
    BY <1>2, <1>4, <1>5, <2>2, NothingLeft
  <2> QED
    BY <1>1, <1>2, <1>5, <2>3, TokenMatches
<1> QED
  BY <1>3, <1>6, <1>7

-----------------------------------------------------------------------------
(* The invariant *)

\* The first character is behind a gap of none.
LEMMA FirstMatches == ASSUME LInv, LInv', WInv, LexInit PROVE WInv'
<1>1. mode = "init" /\ mode' = "skip" /\ toks' = toks /\ at' = 1
  BY DEF LexInit
<1>2. toks = <<>> /\ Len(toks') = 0
  BY <1>1 DEF WInv
<1>3. AllMatched'
  BY <1>2 DEF AllMatched
<1>4. Gapped(at)'
  <2>1. Here' = 1
    BY <1>2 DEF Here, After
  <2>2. text' \in Seq(source'.chars) /\ Len(text') \in Nat
    BY DEF LInv, FileOK
  <2>3. SubSeq(text', 1, 1 - 1) = <<>>
    BY <2>2, EmptyPart
  <2>4. IsGap(SubSeq(text', Here', at' - 1))
    BY <1>1, <2>1, <2>3, GapEmpty
  <2>5. Here' <= at' /\ at' <= Len(text') + 1
    BY <1>1, <2>1, <2>2
  <2> QED
    BY <2>4, <2>5, Zenon DEF Gapped
<1> QED
  BY <1>1, <1>3, <1>4 DEF WInv, SkipOK, ReadOK, Reading

\* The invariant of the longest match holds at first.
LEMMA WInvInit == Init => WInv
BY DEF Init, WInv, AllMatched, SkipOK, ReadOK, Reading

\* Every step keeps it.
LEMMA WInvNext == LInv /\ WInv /\ [Next]_vars => WInv'
<1> SUFFICES ASSUME LInv, WInv, [Next]_vars PROVE WInv'
  OBVIOUS
<1>1. CASE LexInit
  <2>1. LInv'
    BY LInvNext
  <2> QED
    BY <1>1, <2>1, FirstMatches
<1>2. CASE Skip
  BY <1>2, SkipMatches
<1>3. CASE LexWord
  BY <1>3, StartsMatch, ReadsMatch, WordsMatch DEF LexWord
<1>4. CASE LexQuoted
  BY <1>4, StartsMatch, ReadsMatch, StringsMatch, CharsMatch DEF LexQuoted
<1>5. CASE LexOther
  BY <1>5, StartsMatch, OperatorsMatch, EndMatches DEF LexOther
<1>6. CASE UNCHANGED vars
  <2>1. /\ source' = source /\ text' = text /\ ended' = ended /\ at' = at /\ mode' = mode
        /\ tok' = tok /\ toks' = toks
    BY <1>6 DEF vars, file
  <2>2. AllMatched'
    BY <2>1, Zenon DEF WInv, AllMatched, MatchedAt, Lasting
  <2>3. SkipOK'
    BY <2>1 DEF WInv, SkipOK, Gapped, InLine, InBlock, StarHere, Here, Ch
  <2>4. ReadOK'
    BY <2>1 DEF WInv, ReadOK, Gapped, Inside, Unclosed, Closing, Here, Ch
  <2>5. mode = "done" => NothingDropped'
    BY <2>1, Zenon DEF WInv, NothingDropped
  <2> QED
    BY <2>1, <2>2, <2>3, <2>4, <2>5 DEF WInv
<1> QED
  BY <1>1, <1>2, <1>3, <1>4, <1>5, <1>6 DEF Next, Done

\* What lasts is right of what was read.
LEMMA WInvLongest == LInv /\ WInv => LongestMatch
<1> SUFFICES ASSUME LInv, WInv, NEW n \in DOMAIN toks, toks[n].k # "eof"
             PROVE  /\ IsGap(SubSeq(text, (IF n = 1 THEN 0 ELSE toks[n - 1].to) + 1,
                                    toks[n].from - 1))
                    /\ Right(toks[n].from, toks[n].to, text, ended)
  BY Zenon DEF LongestMatch, Right, Wholes, Quote
<1>1. /\ n \in 1..Len(toks) /\ Len(toks) \in Nat /\ text \in Seq(source.chars)
      /\ ended \in BOOLEAN /\ Len(text) \in Nat
  BY SeqFacts DEF LInv, TokensOK, FileOK
<1>2. /\ IsGap(SubSeq(text, After(toks, n - 1), toks[n].from - 1))
      /\ Lasting(toks[n], text, ended, source.chars)
  BY <1>1 DEF WInv, AllMatched, MatchedAt
<1>3. After(toks, n - 1) = (IF n = 1 THEN 0 ELSE toks[n - 1].to) + 1
  <2>1. n - 1 = 0 <=> n = 1
    BY <1>1
  <2> QED
    BY <2>1 DEF After
<1>4. Right(toks[n].from, toks[n].to, text, ended)
  <2>1. Extends(text, text)
    BY <1>1 DEF Extends
  <2> QED
    BY <1>1, <1>2, <2>1 DEF Lasting
<1> QED
  BY <1>2, <1>3, <1>4

\* Where the lexer has come to its end nothing was dropped.
LEMMA WInvDropped == WInv => NothingDropped
BY DEF WInv, NothingDropped

\* Every token is the longest there is at its place and nothing but white space
\* and comments is between two (lexer.c, cc1_lex_next and
\* cc1_skip_ws_and_comments), for every file and every way to read it.
THEOREM TokensAreLongest == Spec => []LongestMatch
<1>1. Spec => []LInv
  BY LInvInit, LInvNext, PTL DEF Spec
<1>2. Spec => []WInv
  BY <1>1, WInvInit, WInvNext, PTL DEF Spec
<1> QED
  BY <1>1, <1>2, WInvLongest, PTL

\* The end of file the parser sees is the end of the file, but for a comment
\* that is not closed and a character no token starts with (lexer.c,
\* cc1_lex_next).
THEOREM NothingIsDropped == Spec => []NothingDropped
<1>1. Spec => []LInv
  BY LInvInit, LInvNext, PTL DEF Spec
<1>2. Spec => []WInv
  BY <1>1, WInvInit, WInvNext, PTL DEF Spec
<1> QED
  BY <1>2, WInvDropped, PTL

-----------------------------------------------------------------------------
(* What a number is worth *)

\* Digits are worth something, and no suffix is one.
LEMMA DigitFacts ==
  /\ \A c : IsDigit(c) => Digit(c) \in Nat
  /\ \A c \in Figures : IsDigit(c)
  /\ ~IsDigit("u") /\ ~IsDigit("l")
<1>1. DOMAIN DigitsInOrder = 1..16
  BY DEF DigitsInOrder
<1>2. ASSUME NEW c, IsDigit(c) PROVE Digit(c) \in Nat
  <2> DEFINE i == CHOOSE i \in DOMAIN DigitsInOrder : c \in DigitsInOrder[i]
  <2>1. i \in DOMAIN DigitsInOrder
    BY <1>2, Zenon DEF IsDigit
  <2>2. Digit(c) = i - 1
    BY Zenon DEF Digit
  <2> HIDE DEF i
  <2> QED
    BY <1>1, <2>1, <2>2
<1>3. /\ DigitsInOrder[1] = {"0"} /\ DigitsInOrder[2] = {"1"} /\ DigitsInOrder[3] = {"2"}
      /\ DigitsInOrder[4] = {"3"} /\ DigitsInOrder[5] = {"4"} /\ DigitsInOrder[6] = {"5"}
      /\ DigitsInOrder[7] = {"6"} /\ DigitsInOrder[8] = {"7"} /\ DigitsInOrder[9] = {"8"}
      /\ DigitsInOrder[10] = {"9"}
  BY DEF DigitsInOrder
<1>4. ASSUME NEW c \in Figures PROVE IsDigit(c)
  <2>1. \E i \in 1..16 : c \in DigitsInOrder[i]
    BY <1>3 DEF Figures
  <2> QED
    BY <1>1, <2>1 DEF IsDigit
<1>5. \A i \in 1..16 : "u" \notin DigitsInOrder[i] /\ "l" \notin DigitsInOrder[i]
  BY DEF DigitsInOrder
<1>6. ~IsDigit("u") /\ ~IsDigit("l")
  BY <1>1, <1>5 DEF IsDigit
<1> QED
  BY <1>2, <1>4, <1>6

\* The digits end at the first character that is none.
LEMMA LeadingFacts ==
  ASSUME NEW S, NEW s \in Seq(S), NEW m \in 0..Len(s), \A i \in 1..m : IsDigit(s[i]),
         m = Len(s) \/ ~IsDigit(s[m + 1])
  PROVE  Leading(s) = SubSeq(s, 1, m)
<1> DEFINE P(n) == (\A i \in 1..n : IsDigit(s[i])) /\ (n = Len(s) \/ ~IsDigit(s[n + 1]))
           n == CHOOSE n \in 0..Len(s) : P(n)
<1>1. P(m)
  OBVIOUS
<1>2. n \in 0..Len(s) /\ P(n)
  <2>1. \E k \in 0..Len(s) : P(k)
    BY <1>1
  <2> HIDE DEF P
  <2> QED
    BY <2>1, Zenon
<1>3. Leading(s) = SubSeq(s, 1, n)
  BY Zenon DEF Leading
<1> HIDE DEF n
<1>4. n = m
  <2>1. n < m => n + 1 \in 1..m
    BY <1>2
  <2>2. m < n => m + 1 \in 1..n
    BY <1>2
  <2>3. Len(s) \in Nat
    OBVIOUS
  <2> QED
    BY <1>1, <1>2, <2>1, <2>2, <2>3
<1> QED
  BY <1>3, <1>4

\* A long within its limit is what it is.
LEMMA LongFacts ==
  /\ \A x \in Int : Long(x) \in Int
  /\ \A x \in Nat : x < LongLimit => Long(x) = x
<1>1. LongLimit \in Nat \ {0}
  BY LongAssumption
<1>2. ASSUME NEW a \in Int, NEW b \in Nat \ {0}
      PROVE  a % b \in Int /\ (0 <= a /\ a < b => a % b = a)
  OBVIOUS
<1> DEFINE M == 2 * LongLimit
<1>3. M \in Nat \ {0} /\ M = LongLimit + LongLimit
  BY <1>1
<1> HIDE DEF M
<1>4. ASSUME NEW x \in Int PROVE Long(x) \in Int
  <2>1. x + LongLimit \in Int
    BY <1>1
  <2>2. (x + LongLimit) % M \in Int
    BY <1>2, <1>3, <2>1
  <2> QED
    BY <1>1, <2>2 DEF Long, M
<1>5. ASSUME NEW x \in Nat, x < LongLimit PROVE Long(x) = x
  <2>1. x + LongLimit \in Int /\ 0 <= x + LongLimit /\ x + LongLimit < M
    BY <1>1, <1>3, <1>5
  <2>2. (x + LongLimit) % M = x + LongLimit
    BY <1>2, <1>3, <2>1
  <2>3. Long(x) = ((x + LongLimit) % M) - LongLimit
    BY Zenon DEF Long, M
  <2>4. Long(x) = (x + LongLimit) - LongLimit
    BY <2>2, <2>3, Zenon
  <2> QED
    BY <1>1, <2>4
<1> QED
  BY <1>4, <1>5

\* The functions of the two definitions.
HornerOf(d, b) ==
  CHOOSE v : v = [n \in 0..Len(d) |-> IF n = 0 THEN 0 ELSE Long(v[n - 1] * b + Digit(d[n]))]
PlaceOf(s, base) ==
  CHOOSE place : place = [n \in 0..Len(s) |-> IF n = 0 THEN 1 ELSE base * place[n - 1]]
SumOf(s, place) ==
  CHOOSE sum : sum = [n \in 0..Len(s) |->
    IF n = 0 THEN 0 ELSE Digit(s[Len(s) - n + 1]) * place[n - 1] + sum[n - 1]]

\* The weight of a digit's place is that of the next times the base.
LEMMA PlaceFacts ==
  ASSUME NEW S, NEW s \in Seq(S), NEW base \in Nat \ {0},
         NEW place, place = PlaceOf(s, base)
  PROVE  /\ place[0] = 1 /\ \A k \in 0..Len(s) : place[k] \in Nat \ {0}
         /\ \A k \in 0..(Len(s) - 1) : place[k + 1] = base * place[k]
<1> DEFINE A == Nat \ {0}
           n == Len(s)
           g == [k \in Nat |-> [x \in A |-> base * x]]
<1>1. \A x \in A : base * x \in A
  <2>1. \A a, x \in Nat \ {0} : a * x \in Nat \ {0}
    OBVIOUS
  <2> QED
    BY <2>1
<1>2. g \in [Nat -> [A -> A]] /\ 1 \in A /\ n \in Nat
  BY <1>1
<1>3. \A k \in Nat, x \in A : g[k][x] = base * x
  OBVIOUS
<1> HIDE DEF g, A, n
<1>4. PICK v \in [0..n -> A] : Recursive(v, 1, g, n)
  BY <1>2, Recursion
<1>5. v = [k \in 0..n |-> IF k = 0 THEN 1 ELSE base * v[k - 1]]
  <2>1. ASSUME NEW k \in 0..n
        PROVE  (IF k = 0 THEN 1 ELSE g[k - 1][v[k - 1]]) = (IF k = 0 THEN 1 ELSE base * v[k - 1])
    <3>1. k = 0 \/ (k - 1 \in 0..n /\ k - 1 \in Nat)
      BY <1>2
    <3>2. k - 1 \in 0..n => v[k - 1] \in A
      BY <1>4
    <3> QED
      BY <1>3, <3>1, <3>2
  <2> QED
    BY <1>4, <2>1, Zenon DEF Recursive
<1>6. place = [k \in 0..n |-> IF k = 0 THEN 1 ELSE base * place[k - 1]]
  BY <1>5, Zenon DEF PlaceOf, n
<1>7. \A k \in 0..n : place[k] = IF k = 0 THEN 1 ELSE base * place[k - 1]
  BY <1>6, Zenon
<1>8. place[0] = 1
  BY <1>2, <1>7
<1>9. \A k \in 0..(n - 1) : place[k + 1] = base * place[k]
  <2>1. \A k \in 0..(n - 1) : k + 1 \in 0..n /\ k + 1 # 0 /\ (k + 1) - 1 = k
    BY <1>2
  <2> QED
    BY <1>7, <2>1
<1> DEFINE T == {k \in Nat : k <= n => place[k] \in A}
<1>10. 0 \in T
  BY <1>2, <1>8
<1>11. ASSUME NEW k \in Nat, k \in T PROVE k + 1 \in T
  <2> SUFFICES ASSUME k + 1 <= n PROVE place[k + 1] \in A
    OBVIOUS
  <2>1. k \in 0..(n - 1) /\ k <= n
    BY <1>2
  <2> QED
    BY <1>1, <1>9, <1>11, <2>1
<1>12. \A k \in Nat : k \in T
  <2> HIDE DEF T
  <2> QED
    BY <1>10, <1>11, SetInduction
<1>13. \A k \in 0..n : place[k] \in A
  BY <1>2, <1>12
<1> QED
  BY <1>8, <1>9, <1>13 DEF n, A

\* The sum of the last digits.
LEMMA SumFacts ==
  ASSUME NEW S, NEW d \in Seq(S), \A i \in 1..Len(d) : IsDigit(d[i]),
         NEW place, \A k \in 0..Len(d) : place[k] \in Nat,
         NEW sum, sum = SumOf(d, place)
  PROVE  /\ sum[0] = 0 /\ \A k \in 0..Len(d) : sum[k] \in Nat
         /\ \A k \in 0..(Len(d) - 1) : sum[k + 1] = Digit(d[Len(d) - k]) * place[k] + sum[k]
<1> DEFINE n == Len(d)
           c == [k \in Nat |-> IF k < n THEN Digit(d[n - k]) * place[k] ELSE 0]
           g == [k \in Nat |-> [x \in Nat |-> c[k] + x]]
<1>1. n \in Nat
  OBVIOUS
<1>2. ASSUME NEW k \in 0..(n - 1) PROVE c[k] = Digit(d[n - k]) * place[k] /\ c[k] \in Nat
  <2>1. k \in Nat /\ k < n /\ n - k \in 1..n /\ k \in 0..n
    BY <1>1
  <2>2. Digit(d[n - k]) \in Nat /\ place[k] \in Nat
    BY <2>1, DigitFacts
  <2>3. \A a, b \in Nat : a * b \in Nat
    OBVIOUS
  <2> QED
    BY <2>1, <2>2, <2>3
<1>3. \A k \in Nat : c[k] \in Nat
  <2>1. \A k \in Nat : k \in 0..(n - 1) \/ ~(k < n)
    BY <1>1
  <2> QED
    BY <1>2, <2>1
<1> HIDE DEF c
<1>4. g \in [Nat -> [Nat -> Nat]] /\ 0 \in Nat
  BY <1>3
<1>5. \A k \in Nat, x \in Nat : g[k][x] = c[k] + x
  OBVIOUS
<1> HIDE DEF g, n
<1>6. PICK v \in [0..n -> Nat] : Recursive(v, 0, g, n)
  BY <1>1, <1>4, Recursion
<1>7. v = [k \in 0..n |-> IF k = 0 THEN 0 ELSE Digit(d[n - k + 1]) * place[k - 1] + v[k - 1]]
  <2>1. ASSUME NEW k \in 0..n
        PROVE  (IF k = 0 THEN 0 ELSE g[k - 1][v[k - 1]])
                 = (IF k = 0 THEN 0 ELSE Digit(d[n - k + 1]) * place[k - 1] + v[k - 1])
    <3>1. k = 0 \/ (k - 1 \in 0..n /\ k - 1 \in 0..(n - 1) /\ k - 1 \in Nat
                    /\ n - (k - 1) = n - k + 1)
      BY <1>1
    <3>2. k - 1 \in 0..n => v[k - 1] \in Nat
      BY <1>6
    <3>3. k - 1 \in 0..(n - 1) => c[k - 1] = Digit(d[n - (k - 1)]) * place[k - 1]
      BY <1>2
    <3> QED
      BY <1>5, <3>1, <3>2, <3>3
  <2> QED
    BY <1>6, <2>1, Zenon DEF Recursive
<1>8. sum = [k \in 0..n |-> IF k = 0 THEN 0 ELSE Digit(d[n - k + 1]) * place[k - 1] + sum[k - 1]]
  BY <1>7, Zenon DEF SumOf, n
<1>9. \A k \in 0..n :
        sum[k] = IF k = 0 THEN 0 ELSE Digit(d[n - k + 1]) * place[k - 1] + sum[k - 1]
  BY <1>8, Zenon
<1>10. sum[0] = 0
  BY <1>1, <1>9
<1>11. \A k \in 0..(n - 1) : sum[k + 1] = Digit(d[n - k]) * place[k] + sum[k]
  <2>1. \A k \in 0..(n - 1) :
          k + 1 \in 0..n /\ k + 1 # 0 /\ (k + 1) - 1 = k /\ n - (k + 1) + 1 = n - k
    BY <1>1
  <2> QED
    BY <1>9, <2>1
<1>12. \A k \in 0..(n - 1) : sum[k + 1] = c[k] + sum[k]
  BY <1>2, <1>11
<1> DEFINE T == {k \in Nat : k <= n => sum[k] \in Nat}
<1>13. 0 \in T
  BY <1>10
<1>14. ASSUME NEW k \in Nat, k \in T PROVE k + 1 \in T
  <2> SUFFICES ASSUME k + 1 <= n PROVE sum[k + 1] \in Nat
    OBVIOUS
  <2>1. k \in 0..(n - 1) /\ k <= n
    BY <1>1
  <2> QED
    BY <1>3, <1>12, <1>14, <2>1
<1>15. \A k \in Nat : k \in T
  <2> HIDE DEF T
  <2> QED
    BY <1>13, <1>14, SetInduction
<1>16. \A k \in 0..n : sum[k] \in Nat
  BY <1>1, <1>15
<1> QED
  BY <1>10, <1>11, <1>16 DEF n

\* The number so far, digit by digit.
LEMMA HornerFacts ==
  ASSUME NEW S, NEW d \in Seq(S), \A i \in 1..Len(d) : IsDigit(d[i]),
         NEW b \in Nat, NEW v, v = HornerOf(d, b)
  PROVE  v[0] = 0 /\ \A k \in 0..(Len(d) - 1) : v[k + 1] = Long(v[k] * b + Digit(d[k + 1]))
<1> DEFINE n == Len(d)
           c == [k \in Nat |-> IF k < n THEN Digit(d[k + 1]) ELSE 0]
           g == [k \in Nat |-> [x \in Int |-> Long(x * b + c[k])]]
<1>1. n \in Nat
  OBVIOUS
<1>2. ASSUME NEW k \in 0..(n - 1) PROVE c[k] = Digit(d[k + 1]) /\ c[k] \in Nat
  <2>1. k \in Nat /\ k < n /\ k + 1 \in 1..n
    BY <1>1
  <2>2. Digit(d[k + 1]) \in Nat
    BY <2>1, DigitFacts
  <2> QED
    BY <2>1, <2>2
<1>3. \A k \in Nat : c[k] \in Nat
  <2>1. \A k \in Nat : k \in 0..(n - 1) \/ ~(k < n)
    BY <1>1
  <2> QED
    BY <1>2, <2>1
<1> HIDE DEF c
<1>4. g \in [Nat -> [Int -> Int]] /\ 0 \in Int
  <2>1. \A x \in Int, y \in Nat : x * b + y \in Int
    OBVIOUS
  <2>2. ASSUME NEW k \in Nat PROVE [x \in Int |-> Long(x * b + c[k])] \in [Int -> Int]
    <3>1. ASSUME NEW x \in Int PROVE Long(x * b + c[k]) \in Int
      BY <1>3, <2>1, LongFacts
    <3> QED
      BY <3>1, Zenon
  <2>3. g \in [Nat -> [Int -> Int]]
    BY <2>2, Zenon
  <2>4. 0 \in Int
    OBVIOUS
  <2> QED
    BY <2>3, <2>4, Zenon
<1>5. \A k \in Nat, x \in Int : g[k][x] = Long(x * b + c[k])
  OBVIOUS
<1> HIDE DEF g, n
<1>6. PICK w \in [0..n -> Int] : Recursive(w, 0, g, n)
  BY <1>1, <1>4, Recursion
<1>7. w = [k \in 0..n |-> IF k = 0 THEN 0 ELSE Long(w[k - 1] * b + Digit(d[k]))]
  <2>1. ASSUME NEW k \in 0..n
        PROVE  (IF k = 0 THEN 0 ELSE g[k - 1][w[k - 1]])
                 = (IF k = 0 THEN 0 ELSE Long(w[k - 1] * b + Digit(d[k])))
    <3>1. k = 0 \/ (k - 1 \in 0..n /\ k - 1 \in 0..(n - 1) /\ k - 1 \in Nat /\ (k - 1) + 1 = k)
      BY <1>1
    <3>2. k - 1 \in 0..n => w[k - 1] \in Int
      BY <1>6
    <3>3. k - 1 \in 0..(n - 1) => c[k - 1] = Digit(d[(k - 1) + 1])
      BY <1>2
    <3> QED
      BY <1>5, <3>1, <3>2, <3>3
  <2> QED
    BY <1>6, <2>1, Zenon DEF Recursive
<1>8. v = [k \in 0..n |-> IF k = 0 THEN 0 ELSE Long(v[k - 1] * b + Digit(d[k]))]
  BY <1>7, Zenon DEF HornerOf, n
<1>9. \A k \in 0..n : v[k] = IF k = 0 THEN 0 ELSE Long(v[k - 1] * b + Digit(d[k]))
  BY <1>8, Zenon
<1>10. v[0] = 0
  BY <1>1, <1>9
<1>11. \A k \in 0..(n - 1) : v[k + 1] = Long(v[k] * b + Digit(d[k + 1]))
  <2>1. \A k \in 0..(n - 1) : k + 1 \in 0..n /\ k + 1 # 0 /\ (k + 1) - 1 = k
    BY <1>1
  <2> QED
    BY <1>9, <2>1
<1> QED
  BY <1>10, <1>11 DEF n

\* Read from either end, digits say the same number, one that fits in a long.
LEMMA HornerSums ==
  ASSUME NEW S, NEW d \in Seq(S), \A i \in 1..Len(d) : IsDigit(d[i]),
         NEW b \in Nat \ {0}, NEW v, v = HornerOf(d, b),
         NEW place, place = PlaceOf(d, b), NEW sum, sum = SumOf(d, place),
         sum[Len(d)] < LongLimit
  PROVE  v[Len(d)] = sum[Len(d)]
<1> DEFINE n == Len(d)
<1>1. n \in Nat
  OBVIOUS
<1>2. v[0] = 0 /\ \A k \in 0..(n - 1) : v[k + 1] = Long(v[k] * b + Digit(d[k + 1]))
  BY HornerFacts
<1>3. /\ place[0] = 1 /\ \A k \in 0..n : place[k] \in Nat \ {0}
      /\ \A k \in 0..(n - 1) : place[k + 1] = b * place[k]
  BY PlaceFacts
<1>4. /\ sum[0] = 0 /\ \A k \in 0..n : sum[k] \in Nat
      /\ \A k \in 0..(n - 1) : sum[k + 1] = Digit(d[n - k]) * place[k] + sum[k]
  <2>1. \A k \in 0..Len(d) : place[k] \in Nat
    BY <1>3
  <2> QED
    BY <2>1, SumFacts
<1>5. sum[n] \in Nat /\ sum[n] < LongLimit
  BY <1>1, <1>4
<1>6. \A i \in 1..n : Digit(d[i]) \in Nat
  BY DigitFacts
<1> HIDE DEF n
<1> DEFINE T == {k \in Nat : k <= n =>
                   v[k] \in Nat /\ v[k] * place[n - k] + sum[n - k] = sum[n]}
<1>7. 0 \in T
  <2>1. n - 0 = n /\ n \in 0..n
    BY <1>1
  <2>2. place[n] \in Nat /\ sum[n] \in Nat
    BY <1>3, <1>4, <2>1
  <2>3. 0 * place[n] + sum[n] = sum[n]
    BY <2>2
  <2> QED
    BY <1>2, <2>1, <2>3
<1>8. ASSUME NEW k \in Nat, k \in T PROVE k + 1 \in T
  <2> SUFFICES ASSUME k + 1 <= n
               PROVE  /\ v[k + 1] \in Nat
                      /\ v[k + 1] * place[n - (k + 1)] + sum[n - (k + 1)] = sum[n]
    OBVIOUS
  <2> DEFINE m == n - (k + 1)
  <2>1. k \in 0..(n - 1) /\ k <= n /\ k + 1 \in 1..n
    BY <1>1
  <2>2. m \in 0..(n - 1) /\ m \in 0..n /\ m + 1 = n - k /\ n - m = k + 1
    BY <1>1
  <2> HIDE DEF m
  <2> DEFINE V == v[k]
             D == Digit(d[k + 1])
             P == place[m]
             R == sum[m]
  <2>3. V \in Nat /\ V * place[m + 1] + sum[m + 1] = sum[n]
    BY <1>8, <2>1, <2>2
  <2>4. place[m + 1] = b * P /\ sum[m + 1] = D * P + R
    BY <1>3, <1>4, <2>2
  <2>5. D \in Nat /\ P \in Nat \ {0} /\ R \in Nat
    BY <1>3, <1>4, <1>6, <2>1, <2>2
  <2>6. v[k + 1] = Long(V * b + D)
    BY <1>2, <2>1
  <2> HIDE DEF V, D, P, R
  <2>7. V * (b * P) + (D * P + R) = sum[n]
    BY <2>3, <2>4
  <2>8. (V * b + D) * P + R = sum[n]
    <3>1. \A x, y, z, t, r \in Nat : x * (y * z) + (t * z + r) = (x * y + t) * z + r
      OBVIOUS
    <3> QED
      BY <2>3, <2>5, <2>7, <3>1
  <2>9. V * b + D \in Nat
    <3>1. \A x, y, z \in Nat : x * y + z \in Nat
      OBVIOUS
    <3> QED
      BY <2>3, <2>5, <3>1
  <2>10. V * b + D <= sum[n]
    <3>1. \A x, z, r \in Nat : z # 0 => x <= x * z + r
      OBVIOUS
    <3> QED
      BY <2>5, <2>8, <2>9, <3>1
  <2>11. v[k + 1] = V * b + D
    <3>1. V * b + D < LongLimit
      BY <1>5, <2>9, <2>10, LongAssumption
    <3> QED
      BY <2>6, <2>9, <3>1, LongFacts
  <2> QED
    BY <2>8, <2>9, <2>11 DEF m, P, R
<1>9. \A k \in Nat : k \in T
  <2> HIDE DEF T
  <2> QED
    BY <1>7, <1>8, SetInduction
<1>10. v[n] \in Nat /\ v[n] * place[n - n] + sum[n - n] = sum[n]
  BY <1>1, <1>9
<1>11. n - n = 0 /\ \A x \in Nat : x * 1 + 0 = x
  BY <1>1
<1>12. v[n] * place[0] + sum[0] = sum[n]
  BY <1>10, <1>11
<1>13. v[n] * 1 + 0 = sum[n]
  BY <1>3, <1>4, <1>12
<1> QED
  BY <1>10, <1>11, <1>13 DEF n

\* The two definitions in terms of their functions.
LEMMA Unfolded ==
  ASSUME NEW s, NEW c
  PROVE  /\ LET d == Leading(IF Hex(s) THEN SubSeq(s, 3, Len(s)) ELSE s)
            IN  ParseInt(s) = HornerOf(d, Base(s))[Len(d)]
         /\ LET d == IF Hex(c) THEN SubSeq(c, 3, Len(c)) ELSE c
                base == IF Hex(c) THEN 16 ELSE IF c[1] = "0" THEN 8 ELSE 10
            IN  Worth(c) = SumOf(d, PlaceOf(d, base))[Len(d)]
<1>1. LET d == Leading(IF Hex(s) THEN SubSeq(s, 3, Len(s)) ELSE s)
      IN  ParseInt(s) = HornerOf(d, Base(s))[Len(d)]
  BY Zenon DEF ParseInt, HornerOf
<1>2. LET d == IF Hex(c) THEN SubSeq(c, 3, Len(c)) ELSE c
          base == IF Hex(c) THEN 16 ELSE IF c[1] = "0" THEN 8 ELSE 10
      IN  Worth(c) = SumOf(d, PlaceOf(d, base))[Len(d)]
  BY Zenon DEF Worth, SumOf, PlaceOf
<1> QED
  BY <1>1, <1>2, Zenon

\* A constant is worth what its digits are, whatever its suffix.
LEMMA ParseRight ==
  ASSUME NEW S, NEW s \in Seq(S), NEW m \in 1..Len(s), IsIntConst(SubSeq(s, 1, m)),
         SubSeq(s, m + 1, Len(s)) \in IntSuffixes, Worth(SubSeq(s, 1, m)) < LongLimit
  PROVE  ParseInt(s) = Worth(SubSeq(s, 1, m))
<1> DEFINE c == SubSeq(s, 1, m)
           e == SubSeq(s, m + 1, Len(s))
<1>1. c \in Seq(S) /\ Len(c) = m /\ \A i \in 1..m : c[i] = s[i]
  OBVIOUS
<1>2. m = Len(s) \/ (m + 1 <= Len(s) /\ s[m + 1] \in {"u", "l"})
  <2>1. CASE m = Len(s)
    BY <2>1
  <2>2. CASE m # Len(s)
    <3>1. m + 1 \in 1..Len(s)
      BY <2>2
    <3>2. e # <<>> /\ e[1] = s[m + 1]
      <4>1. Len(e) = Len(s) - (m + 1) + 1 /\ \A i \in 1..(Len(s) - (m + 1) + 1) : e[i] = s[m + 1 + i - 1]
        BY <3>1, PartChars
      <4>2. 1 \in 1..(Len(s) - (m + 1) + 1) /\ m + 1 + 1 - 1 = m + 1
        BY <3>1
      <4> HIDE DEF e
      <4>3. e[1] = s[m + 1]
        BY <4>1, <4>2
      <4> QED
        BY <4>1, <4>2, <4>3
    <3>3. \A x \in IntSuffixes : x = <<>> \/ x[1] \in {"u", "l"}
      BY DEF IntSuffixes
    <3>4. e \in IntSuffixes
      OBVIOUS
    <3> HIDE DEF e
    <3>5. e[1] \in {"u", "l"}
      BY <3>2, <3>3, <3>4
    <3> QED
      BY <3>1, <3>2, <3>5
  <2> QED
    BY <2>1, <2>2
<1>3. m = Len(s) \/ ~IsDigit(s[m + 1])
  BY <1>2, DigitFacts
<1> HIDE DEF c, e
<1>4. Hex(s) <=> Hex(c)
  BY <1>1, <1>2 DEF Hex
<1>5. IsIntConst(c) /\ Worth(c) < LongLimit
  BY DEF c
<1>6. CASE Hex(c)
  <2> DEFINE d == SubSeq(c, 3, m)
             r == SubSeq(s, 3, Len(s))
  <2>1. m > 2 /\ \A i \in 3..m : IsDigit(c[i])
    BY <1>1, <1>5, <1>6 DEF IsIntConst
  <2>2. r \in Seq(S) /\ Len(r) = Len(s) - 2 /\ \A i \in 1..Len(r) : r[i] = s[i + 2]
    BY <2>1
  <2>3. d \in Seq(S) /\ Len(d) = m - 2 /\ \A i \in 1..Len(d) : d[i] = s[i + 2]
    BY <1>1, <2>1
  <2>4. d = SubSeq(r, 1, m - 2)
    <3>1. SubSeq(r, 1, m - 2) \in Seq(S) /\ Len(SubSeq(r, 1, m - 2)) = m - 2
          /\ \A i \in 1..(m - 2) : SubSeq(r, 1, m - 2)[i] = r[i]
      BY <2>1, <2>2
    <3>2. \A i \in 1..(m - 2) : d[i] = SubSeq(r, 1, m - 2)[i]
      BY <2>1, <2>2, <2>3, <3>1
    <3> HIDE DEF d, r
    <3> QED
      BY <2>3, <3>1, <3>2
  <2> HIDE DEF d, r
  <2>5. \A i \in 1..Len(d) : IsDigit(d[i])
    <3>1. \A i \in 1..Len(d) : i + 2 \in 3..m /\ i + 2 \in 1..m
      BY <2>1, <2>3
    <3> QED
      BY <1>1, <2>1, <2>3, <3>1
  <2>6. Leading(r) = d
    <3>1. \A i \in 1..(m - 2) : IsDigit(r[i])
      <4>1. \A i \in 1..(m - 2) : i \in 1..Len(d) /\ i \in 1..Len(r)
        BY <2>1, <2>2, <2>3
      <4> QED
        BY <2>2, <2>3, <2>5, <4>1
    <3>2. m - 2 = Len(r) \/ ~IsDigit(r[(m - 2) + 1])
      BY <1>3, <2>1, <2>2
    <3>3. m - 2 \in 0..Len(r)
      BY <2>1, <2>2
    <3> QED
      BY <2>2, <2>4, <3>1, <3>2, <3>3, LeadingFacts
  <2>7. ParseInt(s) = HornerOf(d, 16)[Len(d)]
    <3>1. Base(s) = 16
      BY <1>4, <1>6 DEF Base
    <3> QED
      BY <1>4, <1>6, <2>6, <3>1, Unfolded DEF r
  <2>8. Worth(c) = SumOf(d, PlaceOf(d, 16))[Len(d)]
    BY <1>1, <1>6, Unfolded DEF d
  <2>9. HornerOf(d, 16)[Len(d)] = SumOf(d, PlaceOf(d, 16))[Len(d)]
    <3>1. 16 \in Nat \ {0}
      OBVIOUS
    <3> QED
      BY <1>5, <2>3, <2>5, <2>8, <3>1, HornerSums
  <2> QED
    BY <2>7, <2>8, <2>9 DEF c
<1>7. CASE ~Hex(c)
  <2> DEFINE b == IF c[1] = "0" THEN 8 ELSE 10
  <2>1. \A i \in 1..m : IsDigit(c[i])
    <3>1. \A i \in 1..m : c[i] \in Figures
      BY <1>1, <1>5, <1>7 DEF IsIntConst
    <3> QED
      BY <3>1, DigitFacts
  <2>2. Leading(s) = c
    <3>1. m \in 0..Len(s) /\ \A i \in 1..m : IsDigit(s[i])
      BY <1>1, <2>1
    <3> QED
      BY <1>3, <3>1, LeadingFacts DEF c
  <2>3. Base(s) = b
    <3>1. s # <<>> /\ s[1] = c[1]
      BY <1>1
    <3> QED
      BY <1>4, <1>7, <3>1 DEF Base
  <2> HIDE DEF b
  <2>4. ParseInt(s) = HornerOf(c, b)[Len(c)]
    BY <1>4, <1>7, <2>2, <2>3, Unfolded
  <2>5. Worth(c) = SumOf(c, PlaceOf(c, b))[Len(c)]
    BY <1>1, <1>7, Unfolded DEF b
  <2>6. HornerOf(c, b)[Len(c)] = SumOf(c, PlaceOf(c, b))[Len(c)]
    <3>1. b \in Nat \ {0}
      BY DEF b
    <3> QED
      BY <1>1, <1>5, <2>1, <2>5, <3>1, HornerSums
  <2> QED
    BY <2>4, <2>5, <2>6 DEF c
<1> QED
  BY <1>6, <1>7

-----------------------------------------------------------------------------
(* What a literal says *)

SaidOf(s) ==
  CHOOSE said : said = [n \in 0..Len(s) |->
    IF n < 2 THEN <<>>
    ELSE IF s[n] = "\\" /\ ~Escaped(s, n) THEN said[n - 1]
    ELSE Append(said[n - 1], IF Escaped(s, n) THEN Escape(s[n]) ELSE s[n])]
\* One character more of a literal, and what x it says with that.
SayOn(x, s, n) ==
  IF s[n] = "\\" /\ ~Escaped(s, n) THEN x
  ELSE Append(x, IF Escaped(s, n) THEN Escape(s[n]) ELSE s[n])

\* What a literal says grows with each of its characters.
LEMMA SaidFacts ==
  ASSUME NEW S, NEW s \in Seq(S), NEW said, said = SaidOf(s)
  PROVE  /\ \A k \in 0..Len(s) : k < 2 => said[k] = <<>>
         /\ \A k \in 2..Len(s) : said[k] = SayOn(said[k - 1], s, k)
<1> DEFINE n == Len(s)
           C == S \cup {Escape(c) : c \in S}
           A == Seq(C)
           f(k, x) == IF 2 <= k /\ k <= n THEN SayOn(x, s, k) ELSE <<>>
           g == [k \in Nat |-> [x \in A |-> f(k + 1, x)]]
<1>1. n \in Nat /\ <<>> \in A
  OBVIOUS
<1>2. ASSUME NEW k \in Nat, NEW x \in A PROVE f(k, x) \in A
  <2>1. CASE 2 <= k /\ k <= n
    <3>1. k \in 1..n
      BY <1>1, <2>1
    <3>2. s[k] \in S
      BY <3>1
    <3>3. s[k] \in C /\ Escape(s[k]) \in C
      BY <3>2
    <3> HIDE DEF C
    <3>4. \A c \in C : Append(x, c) \in Seq(C)
      OBVIOUS
    <3>5. SayOn(x, s, k) \in A
      BY <3>3, <3>4, Zenon DEF SayOn
    <3> QED
      BY <2>1, <3>5
  <2>2. CASE ~(2 <= k /\ k <= n)
    BY <1>1, <2>2
  <2> QED
    BY <2>1, <2>2
<1> HIDE DEF f, A, n
<1>3. g \in [Nat -> [A -> A]]
  <2>1. ASSUME NEW k \in Nat PROVE [x \in A |-> f(k + 1, x)] \in [A -> A]
    <3>1. k + 1 \in Nat
      OBVIOUS
    <3> QED
      BY <1>2, <3>1, Zenon
  <2> QED
    BY <2>1, Zenon
<1>4. \A k \in Nat, x \in A : g[k][x] = f(k + 1, x)
  BY Zenon
<1> HIDE DEF g
<1>5. PICK v \in [0..n -> A] : Recursive(v, <<>>, g, n)
  BY <1>1, <1>3, Recursion
<1> DEFINE h(z, k) == IF k < 2 THEN <<>> ELSE SayOn(z[k - 1], s, k)
<1>6. v = [k \in 0..n |-> h(v, k)]
  <2>1. ASSUME NEW k \in 0..n
        PROVE  (IF k = 0 THEN <<>> ELSE g[k - 1][v[k - 1]]) = h(v, k)
    <3>1. k < 2 <=> ~(2 <= k /\ k <= n)
      BY <1>1
    <3>2. k = 0 \/ (k - 1 \in 0..n /\ k - 1 \in Nat /\ (k - 1) + 1 = k)
      BY <1>1
    <3>3. k = 0 => k < 2
      OBVIOUS
    <3>4. k - 1 \in 0..n => v[k - 1] \in A
      BY <1>5
    <3>5. k # 0 => g[k - 1][v[k - 1]] = f(k, v[k - 1])
      <4> SUFFICES ASSUME k # 0 PROVE g[k - 1][v[k - 1]] = f(k, v[k - 1])
        OBVIOUS
      <4>1. v[k - 1] \in A /\ k - 1 \in Nat
        BY <3>2, <3>4
      <4>2. g[k - 1][v[k - 1]] = f((k - 1) + 1, v[k - 1])
        BY <1>4, <4>1, Zenon
      <4> QED
        BY <3>2, <4>2
    <3>6. f(k, v[k - 1]) = h(v, k)
      BY <3>1, Zenon DEF f
    <3> QED
      BY <3>3, <3>5, <3>6, Zenon
  <2> HIDE DEF h
  <2> QED
    BY <1>5, <2>1, Zenon DEF Recursive
<1>7. said = [k \in 0..n |-> h(said, k)]
  BY <1>6, Zenon DEF SaidOf, SayOn, n
<1>8. \A k \in 0..n : said[k] = h(said, k)
  BY <1>7, Zenon
<1>9. \A k \in 0..n : k < 2 => said[k] = <<>>
  BY <1>8, Zenon
<1>10. \A k \in 2..n : k \in 0..n /\ ~(k < 2)
  BY <1>1
<1>11. \A k \in 2..n : said[k] = SayOn(said[k - 1], s, k)
  BY <1>8, <1>10, Zenon
<1> QED
  BY <1>9, <1>11 DEF n

\* Two literals say the same as far as they are the same.
LEMMA SaidAgrees ==
  ASSUME NEW S, NEW s \in Seq(S), NEW t \in Seq(S), NEW m \in Nat, m <= Len(s), m <= Len(t),
         \A i \in 1..m : s[i] = t[i]
  PROVE  SaidOf(s)[m] = SaidOf(t)[m]
<1> DEFINE T == {k \in Nat : k <= m => SaidOf(s)[k] = SaidOf(t)[k]}
<1>1. \A k \in 0..m : k \in 0..Len(s) /\ k \in 0..Len(t)
  OBVIOUS
<1>2. \A k \in 2..m : k \in 2..Len(s) /\ k \in 2..Len(t) /\ k \in 1..m
  OBVIOUS
<1>3. \A k \in 0..m : k < 2 => SaidOf(s)[k] = <<>> /\ SaidOf(t)[k] = <<>>
  BY <1>1, SaidFacts
<1>4. \A k \in 2..m : /\ SaidOf(s)[k] = SayOn(SaidOf(s)[k - 1], s, k)
                      /\ SaidOf(t)[k] = SayOn(SaidOf(t)[k - 1], t, k)
  BY <1>2, SaidFacts
<1>5. 0 \in T
  BY <1>3
<1>6. ASSUME NEW k \in Nat, k \in T PROVE k + 1 \in T
  <2> SUFFICES ASSUME k + 1 <= m PROVE SaidOf(s)[k + 1] = SaidOf(t)[k + 1]
    OBVIOUS
  <2>1. CASE k + 1 < 2
    <3>1. k + 1 \in 0..m
      OBVIOUS
    <3> QED
      BY <1>3, <2>1, <3>1
  <2>2. CASE ~(k + 1 < 2)
    <3>1. k + 1 \in 2..m /\ (k + 1) - 1 = k /\ k <= m /\ k + 1 \in Nat
      BY <2>2
    <3>2. SaidOf(s)[k] = SaidOf(t)[k]
      BY <1>6, <3>1
    <3>3. s[k + 1] = t[k + 1]
      BY <1>2, <3>1
    <3>4. Escaped(s, k + 1) <=> Escaped(t, k + 1)
      <4>1. \A h \in 2..((k + 1) - 1) : h \in 1..m
        BY <3>1
      <4>2. \A h \in 2..((k + 1) - 1) : s[h] = t[h]
        BY <4>1
      <4> QED
        BY <3>1, <4>2, EscapedAgrees
    <3>5. /\ SaidOf(s)[k + 1] = SayOn(SaidOf(s)[k], s, k + 1)
          /\ SaidOf(t)[k + 1] = SayOn(SaidOf(t)[k], t, k + 1)
      BY <1>4, <3>1
    <3>6. SayOn(SaidOf(s)[k], s, k + 1) = SayOn(SaidOf(t)[k], t, k + 1)
      BY <3>2, <3>3, <3>4, Zenon DEF SayOn
    <3> QED
      BY <3>5, <3>6
  <2> QED
    BY <2>1, <2>2
<1>7. \A k \in Nat : k \in T
  <2> HIDE DEF T
  <2> QED
    BY <1>5, <1>6, SetInduction
<1> QED
  BY <1>7

\* What the literal at f says up to its q-th character.
Told(s, f, q) == SaidOf(SubSeq(s, f, q))[q - f + 1]

\* That grows with each character of the text too.
LEMMA ToldStep ==
  ASSUME NEW S, NEW s \in Seq(S), NEW f \in Nat \ {0}, NEW q \in Nat, f <= q, q <= Len(s)
  PROVE  /\ q = f => Told(s, f, q) = <<>>
         /\ q # f => Told(s, f, q) =
              IF s[q] = "\\" /\ ~Esc(s, f, q) THEN Told(s, f, q - 1)
              ELSE Append(Told(s, f, q - 1), IF Esc(s, f, q) THEN Escape(s[q]) ELSE s[q])
<1> DEFINE u == SubSeq(s, f, q)
           n == q - f + 1
<1>1. n \in Nat \ {0} /\ f <= q + 1 /\ q \in f..q /\ n - 1 \in Nat
  OBVIOUS
<1>2. u \in Seq(S) /\ Len(u) = n /\ (\A i \in 1..n : u[i] = s[f + i - 1]) /\ u[n] = s[q]
  BY <1>1, PartChars
<1>3. Told(s, f, q) = SaidOf(u)[n]
  BY DEF Told
<1>4. CASE q = f
  <2>1. n = 1
    BY <1>4
  <2> HIDE DEF u, n
  <2>2. 1 \in 0..Len(u) /\ 1 < 2
    BY <1>2, <2>1
  <2>3. \A k \in 0..Len(u) : k < 2 => SaidOf(u)[k] = <<>>
    BY <1>2, SaidFacts
  <2>4. Told(s, f, q) = <<>>
    BY <1>3, <2>1, <2>2, <2>3
  <2> QED
    BY <1>4, <2>4
<1>5. CASE q # f
  <2> DEFINE p == q - 1
             w == SubSeq(s, f, p)
  <2>1. n \in 2..n /\ p \in Nat /\ f <= p + 1 /\ p <= Len(s) /\ p - f + 1 = n - 1 /\ f < q /\ p = q - 1
    BY <1>5
  <2>2. w \in Seq(S) /\ Len(w) = n - 1 /\ \A i \in 1..(n - 1) : w[i] = s[f + i - 1]
    <3> HIDE DEF p, n
    <3>1. /\ w \in Seq(S) /\ Len(w) = p - f + 1
          /\ \A i \in 1..(p - f + 1) : w[i] = s[f + i - 1]
      BY <2>1, PartChars
    <3> QED
      BY <2>1, <3>1
  <2>3. Told(s, f, p) = SaidOf(w)[n - 1]
    BY <2>1 DEF Told
  <2>4. Escaped(u, n) <=> Esc(s, f, q)
    BY <2>1, EscIn
  <2> HIDE DEF u, w, n, p
  <2>5. SaidOf(u)[n] = SayOn(SaidOf(u)[n - 1], u, n)
    BY <1>2, <2>1, SaidFacts
  <2>6. SaidOf(u)[n - 1] = SaidOf(w)[n - 1]
    <3>1. n - 1 <= Len(u) /\ n - 1 <= Len(w)
      BY <1>1, <1>2, <2>2
    <3>2. \A i \in 1..(n - 1) : i \in 1..n
      BY <1>1
    <3>3. \A i \in 1..(n - 1) : u[i] = w[i]
      BY <1>2, <2>2, <3>2
    <3>4. u \in Seq(S) /\ w \in Seq(S) /\ n - 1 \in Nat
      BY <1>1, <1>2, <2>2
    <3> QED
      BY <3>1, <3>3, <3>4, SaidAgrees
  <2>7. Told(s, f, q) = SayOn(Told(s, f, p), u, n)
    BY <1>3, <2>3, <2>5, <2>6
  <2>8. Told(s, f, p) = Told(s, f, q - 1)
    BY <2>1
  <2> QED
    BY <1>2, <1>5, <2>4, <2>7, <2>8, Zenon DEF SayOn
<1> QED
  BY <1>4, <1>5

\* A longer text says the same.
LEMMA ToldStays ==
  ASSUME NEW S, NEW s \in Seq(S), NEW t \in Seq(S), Extends(s, t),
         NEW f \in Nat \ {0}, NEW q \in Nat, f <= q + 1, q <= Len(s)
  PROVE  Told(t, f, q) = Told(s, f, q)
BY PartStays DEF Told

\* What a whole literal says is what it says before its last quote.
LEMMA UnquotedIs ==
  ASSUME NEW S, NEW s \in Seq(S), NEW f \in Nat \ {0}, NEW q \in Nat, f < q, q <= Len(s)
  PROVE  Unquoted(SubSeq(s, f, q)) = Told(s, f, q - 1)
<1> DEFINE u == SubSeq(s, f, q)
           p == q - 1
           w == SubSeq(s, f, p)
           m == p - f + 1
<1>1. p \in Nat /\ f <= p + 1 /\ p <= Len(s) /\ f <= q + 1 /\ q - f + 1 = m + 1 /\ m \in Nat
  OBVIOUS
<1>2. u \in Seq(S) /\ Len(u) = m + 1 /\ \A i \in 1..(m + 1) : u[i] = s[f + i - 1]
  <2>1. /\ u \in Seq(S) /\ Len(u) = q - f + 1
        /\ \A i \in 1..(q - f + 1) : u[i] = s[f + i - 1]
    BY <1>1, PartChars
  <2> QED
    BY <1>1, <2>1
<1>3. w \in Seq(S) /\ Len(w) = m /\ \A i \in 1..m : w[i] = s[f + i - 1]
  BY <1>1, PartChars
<1>4. Unquoted(u) = SaidOf(u)[Len(u) - 1]
  BY Zenon DEF Unquoted, SaidOf
<1>5. Told(s, f, q - 1) = SaidOf(w)[m]
  BY DEF Told
<1> HIDE DEF u, w, m, p
<1>6. SaidOf(u)[m] = SaidOf(w)[m]
  <2>1. m <= Len(u) /\ m <= Len(w)
    BY <1>1, <1>2, <1>3
  <2>2. \A i \in 1..m : i \in 1..(m + 1)
    BY <1>1
  <2>3. \A i \in 1..m : u[i] = w[i]
    BY <1>2, <1>3, <2>2
  <2>4. u \in Seq(S) /\ w \in Seq(S) /\ m \in Nat
    BY <1>1, <1>2, <1>3
  <2> QED
    BY <2>1, <2>3, <2>4, SaidAgrees
<1>7. Len(u) - 1 = m
  BY <1>1, <1>2
<1> QED
  BY <1>4, <1>5, <1>6, <1>7 DEF u

-----------------------------------------------------------------------------
(* The invariant of what the tokens say *)

\* The token t says what x spells.
Says(t, x) ==
  /\ t.k = "int" => t.val = ParseInt(x)
  /\ t.k = "string" => (IsQuoted(Quote, x) => t.val = Unquoted(x))
  /\ t.k = "char" => (IsCharConst(x) => <<t.val>> = Unquoted(x))
  /\ t.k \in {"name", "keyword"} => (t.k = "keyword" <=> x \in Keywords)
SaysOf(t, s) == t.from <= t.to + 1 /\ Says(t, SubSeq(s, t.from, t.to))
AllSay == err \/ \A n \in 1..Len(toks) : SaysOf(toks[n], text)
\* The buffer has what was read of the token that starts at f, unless it is full.
Sofar(f) ==
  /\ mode \in {"name", "number"} => overflow \/ buf = SubSeq(text, f, at - 1)
  /\ mode \in {"string", "strescape"} => overflow \/ Ch = EOF \/ buf = Told(text, f, at - 1)
  /\ mode = "charend" => Ch = EOF \/ <<tok.c>> = Told(text, f, at - 1)
SofarOK == mode \in Reading => Sofar(tok.from)
VInv == AllSay /\ SofarOK

\* However far it is read, the file goes on.
LEMMA ReachExtends ==
  ASSUME LInv, NEW i, Reach(i)
  PROVE  Extends(text, text')
<1>1. text \in Seq(source.chars) /\ Len(text) \in Nat
  BY DEF LInv, FileOK
<1>2. CASE text' = text
  BY <1>1, <1>2 DEF Extends
<1>3. ASSUME NEW c \in source.chars, text' = Append(text, c) PROVE Extends(text, text')
  <2>1. Len(text') = Len(text) + 1 /\ \A j \in 1..Len(text) : text'[j] = text[j]
    BY <1>1, <1>3
  <2> QED
    BY <1>1, <2>1 DEF Extends
<1> QED
  BY <1>2, <1>3 DEF Reach

\* A token says the same of a text that goes on.
LEMMA SayingStays ==
  ASSUME NEW S, NEW s \in Seq(S), NEW u \in Seq(S), Extends(s, u),
         NEW t, TokenOK(t, s), SaysOf(t, s)
  PROVE  SaysOf(t, u)
<1>1. t.from \in Nat \ {0} /\ t.to \in Nat /\ t.to <= Len(s) /\ t.from <= t.to + 1
  BY DEF TokenOK, SaysOf
<1>2. \A m \in Nat \ {0}, n \in Nat :
        m <= n + 1 /\ n <= Len(s) => SubSeq(u, m, n) = SubSeq(s, m, n)
  BY PartStays
<1>3. SubSeq(u, t.from, t.to) = SubSeq(s, t.from, t.to)
  BY <1>1, <1>2
<1> QED
  BY <1>3, Zenon DEF SaysOf

\* So the tokens go on saying what they say.
LEMMA TokensGoOnSaying ==
  ASSUME LInv, Extends(text, text'), text' \in Seq(source.chars),
         \A n \in 1..Len(toks) : SaysOf(toks[n], text)
  PROVE  \A n \in 1..Len(toks) : SaysOf(toks[n], text')
<1>1. \A n \in 1..Len(toks) : TokenOK(toks[n], text)
  BY DEF LInv, TokensOK
<1>2. text \in Seq(source.chars)
  BY DEF LInv, FileOK
<1>3. \A t : TokenOK(t, text) /\ SaysOf(t, text) => SaysOf(t, text')
  BY <1>2, SayingStays
<1> QED
  BY <1>1, <1>3, Zenon

\* A step that makes no token.
LEMMA AllSayStays ==
  ASSUME LInv, VInv, Extends(text, text'), text' \in Seq(source.chars),
         toks' = toks, err' = err
  PROVE  AllSay'
<1>1. CASE err
  BY <1>1 DEF AllSay
<1>2. CASE ~err
  <2>1. \A n \in 1..Len(toks) : SaysOf(toks[n], text')
    BY <1>2, TokensGoOnSaying DEF VInv, AllSay
  <2>2. \A n \in 1..Len(toks) : SaysOf(toks[n], text)'
    BY <2>1, Zenon DEF SaysOf
  <2> QED
    BY <2>2, Zenon DEF AllSay
<1> QED
  BY <1>1, <1>2

\* White space and comments say nothing.
LEMMA SkipSays == ASSUME LInv, LInv', VInv, LexInit \/ Skip PROVE VInv'
<1>1. toks' = toks /\ err' = err /\ source' = source /\ mode' \notin Reading
      /\ (text' = text \/ \E i \in Nat : Reach(i))
  <2>0. at \in Nat /\ at + 1 \in Nat /\ at + 2 \in Nat /\ 1 \in Nat
    BY DEF LInv, FileOK
  <2>1. CASE LexInit
    BY <2>0, <2>1 DEF LexInit, Reading
  <2>2. CASE SkipSpace \/ LineComment
    BY <2>0, <2>2 DEF SkipSpace, LineComment, SkipTo, Advance, Reading
  <2>3. CASE Peek
    BY <2>0, <2>3 DEF Peek, SkipTo, Reading
  <2>4. CASE OpenComment
    <3>1. AdvanceTwice /\ SkipTo(IF text[at + 1] = "*" THEN "block" ELSE "line")
      BY <2>4 DEF OpenComment
    <3> QED
      BY <2>0, <3>1 DEF SkipTo, AdvanceTwice, Reading
  <2>5. CASE BlockComment
    BY <2>0, <2>5 DEF BlockComment, SkipTo, Advance, Reading
  <2>6. CASE AfterStar
    BY <2>0, <2>6 DEF AfterStar, SkipTo, Advance, Hold, file, Reading
  <2>7. CASE LineOver
    BY <2>0, <2>7 DEF LineOver, SkipTo, Hold, file, Reading
  <2> QED
    BY <2>1, <2>2, <2>3, <2>4, <2>5, <2>6, <2>7 DEF Skip
<1>2. text' \in Seq(source.chars) /\ text \in Seq(source.chars)
  BY <1>1 DEF LInv, FileOK
<1>3. Extends(text, text')
  <2>1. text' = text => Extends(text, text')
    BY <1>2 DEF Extends
  <2> QED
    BY <1>1, <2>1, ReachExtends
<1>4. AllSay'
  BY <1>1, <1>2, <1>3, AllSayStays
<1> QED
  BY <1>1, <1>4 DEF VInv, SofarOK

\* A token that starts has said nothing.
LEMMA StartsSay ==
  ASSUME LInv, VInv, StartWord \/ StartQuoted \/ StartOperator
  PROVE  VInv'
<1> PICK f \in Nat : f = at
  BY DEF LInv, FileOK
<1>1. PICK m \in {WordMode(Ch), "char", "string", "op"} :
        /\ Start(m) /\ mode' = m /\ mode = "skip" /\ toks' = toks /\ err' = err
        /\ tok'.from = f /\ buf' = <<>>
        /\ m = "string" => Advance /\ Ch = Quote
        /\ m = WordMode(Ch) => Hold
        /\ Hold \/ Advance
  <2>1. CASE StartWord
    BY <2>1 DEF StartWord, Start, AtToken, WordMode
  <2>2. CASE StartQuoted
    <3>1. Start(IF Ch = "'" THEN "char" ELSE "string") /\ Advance /\ (Ch = Quote \/ Ch = "'")
      BY <2>2, Zenon DEF StartQuoted, Quote
    <3> QED
      BY <3>1 DEF Start, AtToken, WordMode
  <2>3. CASE StartOperator
    <3>1. Start("op") /\ Advance
      BY <2>3, Zenon DEF StartOperator
    <3> QED
      BY <3>1 DEF Start, AtToken, WordMode
  <2> QED
    BY <2>1, <2>2, <2>3
<1>2. /\ ReadsOn /\ FileOK /\ at # 0 /\ at \in Nat \ {0} /\ f \in Nat \ {0}
      /\ text' \in Seq(source.chars) /\ Extends(text, text') /\ Len(text') \in Nat
  BY <1>1, HoldReads, AdvanceReads DEF LInv, ReadingOK, ReadsOn
<1>3. AllSay'
  BY <1>1, <1>2, AllSayStays
<1>4. ASSUME mode' \in {"name", "number"} PROVE buf' = SubSeq(text', f, at' - 1)
  <2>1. text' = text /\ at' = f /\ f <= Len(text') + 1
    BY <1>1, <1>2, <1>4 DEF Hold, file, FileOK
  <2>2. SubSeq(text', f, f - 1) = <<>>
    BY <1>2, <2>1, EmptyPart
  <2> QED
    BY <1>1, <2>1, <2>2
<1>5. ASSUME mode' = "string" PROVE buf' = Told(text', f, at' - 1)
  <2>1. Quote # EOF
    BY Zenon DEF Quote, EOF
  <2>2. Advance /\ Ch # EOF
    BY <1>1, <1>5, <2>1 DEF WordMode
  <2>3. at' = f + 1 /\ f <= Len(text')
    BY <1>1, <1>2, <2>2, AdvanceReads DEF Extends, ReadsOn
  <2>4. Told(text', f, f) = <<>>
    BY <1>2, <2>3, ToldStep
  <2>5. at' - 1 = f
    BY <2>3
  <2> QED
    BY <1>1, <2>4, <2>5
<1>6. mode' # "strescape" /\ mode' # "charend"
  BY <1>1 DEF WordMode
<1>7. SofarOK'
  BY <1>1, <1>4, <1>5, <1>6 DEF SofarOK, Sofar
<1> QED
  BY <1>3, <1>7 DEF VInv

\* What is known in the middle of one.
LEMMA MiddleFacts ==
  ASSUME LInv, WInv, VInv, mode \in Reading, Advance, toks' = toks, err' = err,
         NEW f \in Nat, f = tok.from, tok'.from = f,
         Sofar(f)'
  PROVE  VInv'
<1>1. ReadsOn
  BY AdvanceReads DEF LInv, ReadingOK, Reading
<1>2. Extends(text, text') /\ text' \in Seq(source.chars)
  BY <1>1 DEF ReadsOn
<1>3. AllSay'
  BY <1>2, AllSayStays
<1>4. SofarOK'
  BY DEF SofarOK, Sofar
<1> QED
  BY <1>3, <1>4 DEF VInv

\* One character more is in the buffer.
LEMMA MiddlesSay ==
  ASSUME LInv, WInv, VInv, WordChar \/ StringChar \/ Backslash \/ StringEscape \/ CharValue
  PROVE  VInv'
<1> PICK f \in Nat : f = tok.from
  BY DEF LInv, ReadingOK
<1>1. /\ mode \in Reading /\ mode # "init" /\ Advance /\ toks' = toks /\ tok'.from = f /\ err' = err
  <2>1. mode \in Reading /\ Advance /\ toks' = toks /\ err' = err
    BY DEF WordChar, StringChar, StringEscape, Backslash, CharValue, Reading
  <2>2. tok' = tok \/ \E c : tok' = [tok EXCEPT !.c = c]
    BY DEF WordChar, StringChar, StringEscape, Backslash, CharValue
  <2>3. PICK S : tok \in [from : Nat, line : Nat, col : Nat, c : S]
    BY DEF LInv, ReadingOK
  <2> QED
    BY <2>1, <2>2, <2>3 DEF Reading
<1>2. /\ ReadsOn
      /\ Ch # EOF => at \in 1..Len(text) /\ Ch = text[at] /\ at' = at + 1
      /\ Ch = EOF => at = Len(text) + 1 /\ ended /\ text' = text /\ at' = at /\ Ch' = EOF
  BY <1>1, AdvanceReads
<1>3. Inside(f) /\ Sofar(f) /\ f \in 1..at /\ f \in Nat \ {0} /\ f <= Len(text)
  BY <1>1 DEF WInv, ReadOK, LInv, ReadingOK, VInv, SofarOK
<1>4. /\ at \in Nat /\ Len(text) \in Nat /\ \A j \in 1..Len(text) : text'[j] = text[j]
      /\ Len(text') \in Nat /\ Len(text) <= Len(text') /\ at <= Len(text) + 1
      /\ text \in Seq(source.chars) /\ text' \in Seq(source.chars) /\ Extends(text, text')
  BY <1>2 DEF ReadsOn, Extends
<1>5. ASSUME Sofar(f)' PROVE VInv'
  BY <1>1, <1>5, MiddleFacts
<1>6. BufferOK
  BY DEF LInv
<1>7. CASE WordChar
  <2>1. mode \in {"name", "number"} /\ Ch \in WordChars(mode) /\ mode' = mode /\ Push(Ch)
    BY <1>7 DEF WordChar
  <2>2. Ch # EOF
    BY <2>1 DEF WordChars, Ident, IdentStart, Letters, Figures, EOF
  <2>3. ~overflow' => buf' = SubSeq(text', f, at' - 1)
    <3> SUFFICES ASSUME ~overflow' PROVE buf' = SubSeq(text', f, at' - 1)
      OBVIOUS
    <3>1. ~overflow /\ buf' = Append(buf, Ch)
      BY <1>6, <2>1, PushFacts
    <3>2. buf = SubSeq(text, f, at - 1)
      BY <1>3, <2>1, <3>1 DEF Sofar
    <3>0. at \in Nat \ {0} /\ at \in Nat /\ f <= at /\ at <= Len(text) /\ f <= at + 1
      BY <1>2, <1>3, <1>4, <2>2
    <3>3. Append(SubSeq(text, f, at - 1), text[at]) = SubSeq(text, f, at)
      BY <1>3, <1>4, <3>0, PartGrows
    <3>4. SubSeq(text', f, at) = SubSeq(text, f, at)
      BY <1>2, <1>3, <3>0, PartReads
    <3>5. at' - 1 = at
      BY <1>2, <1>4, <2>2
    <3> QED
      BY <1>2, <2>2, <3>1, <3>2, <3>3, <3>4, <3>5
  <2>4. Sofar(f)'
    BY <2>1, <2>3 DEF Sofar
  <2> QED
    BY <1>5, <2>4
<1>8. ASSUME Ch # EOF, f < at
      PROVE  LET said == Told(text, f, at - 1) IN
             Told(text', f, at' - 1) = IF text[at] = "\\" /\ ~Esc(text, f, at) THEN said
                                       ELSE Append(said, IF Esc(text, f, at) THEN Escape(text[at])
                                                         ELSE text[at])
  <2>1. at' - 1 = at /\ at \in Nat /\ f <= at /\ at <= Len(text) /\ at # f /\ f <= at + 1
    BY <1>2, <1>3, <1>4, <1>8
  <2>2. Told(text', f, at) = Told(text, f, at)
    BY <1>3, <1>4, <2>1, ToldStays
  <2>3. Told(text, f, at) = IF text[at] = "\\" /\ ~Esc(text, f, at) THEN Told(text, f, at - 1)
          ELSE Append(Told(text, f, at - 1), IF Esc(text, f, at) THEN Escape(text[at]) ELSE text[at])
    BY <1>3, <1>4, <2>1, ToldStep
  <2> QED
    BY <2>1, <2>2, <2>3
<1>9. CASE StringChar
  <2>1. mode = "string" /\ mode' = "string" /\ Ch # EOF /\ Ch # "\\" /\ Push(Ch)
    BY <1>9, Zenon DEF StringChar
  <2>2. f < at /\ ~Esc(text, f, at)
    BY <1>3, <2>1 DEF Inside, Unclosed
  <2>3. ~overflow' => buf' = Told(text', f, at' - 1)
    <3> SUFFICES ASSUME ~overflow' PROVE buf' = Told(text', f, at' - 1)
      OBVIOUS
    <3>1. ~overflow /\ buf' = Append(buf, Ch)
      BY <1>6, <2>1, PushFacts
    <3>2. buf = Told(text, f, at - 1)
      BY <1>3, <2>1, <3>1 DEF Sofar
    <3> QED
      BY <1>2, <1>8, <2>1, <2>2, <3>1, <3>2
  <2>4. Sofar(f)'
    BY <2>1, <2>3 DEF Sofar
  <2> QED
    BY <1>5, <2>4
<1>10. CASE Backslash
  <2>1. /\ mode \in {"string", "char"} /\ Ch = "\\" /\ Ch # EOF /\ buf' = buf /\ overflow' = overflow
        /\ mode' = IF mode = "string" THEN "strescape" ELSE "charescape"
    BY <1>10 DEF Backslash, EOF
  <2>2. CASE mode = "string"
    <3>1. f < at /\ ~Esc(text, f, at)
      BY <1>3, <2>1, <2>2 DEF Inside, Unclosed
    <3>2. ~overflow => buf = Told(text, f, at - 1)
      BY <1>3, <2>1, <2>2 DEF Sofar
    <3>3. Told(text', f, at' - 1) = Told(text, f, at - 1)
      BY <1>2, <1>8, <2>1, <3>1
    <3>4. Sofar(f)'
      BY <2>1, <2>2, <3>2, <3>3 DEF Sofar
    <3> QED
      BY <1>5, <3>4
  <2>3. CASE mode = "char"
    <3>1. Sofar(f)'
      BY <2>1, <2>3 DEF Sofar
    <3> QED
      BY <1>5, <3>1
  <2> QED
    BY <2>1, <2>2, <2>3
<1>11. CASE StringEscape
  <2>1. mode = "strescape" /\ mode' = "string" /\ Push(Escape(Ch))
    BY <1>11 DEF StringEscape
  <2>2. f < at /\ Esc(text, f, at)
    BY <1>3, <2>1 DEF Inside, Unclosed
  <2>3. ~overflow' /\ Ch' # EOF => buf' = Told(text', f, at' - 1)
    <3> SUFFICES ASSUME ~overflow', Ch' # EOF PROVE buf' = Told(text', f, at' - 1)
      OBVIOUS
    <3>1. ~overflow /\ buf' = Append(buf, Escape(Ch))
      BY <1>6, <2>1, PushFacts
    <3>2. Ch # EOF
      BY <1>2
    <3>3. buf = Told(text, f, at - 1)
      BY <1>3, <2>1, <3>1, <3>2 DEF Sofar
    <3> QED
      BY <1>2, <1>8, <2>2, <3>1, <3>2, <3>3
  <2>4. Sofar(f)'
    BY <2>1, <2>3 DEF Sofar
  <2> QED
    BY <1>5, <2>4
<1>12. CASE CharValue
  <2>1. /\ mode = "charescape" \/ (mode = "char" /\ Ch # "\\")
        /\ mode' = "charend"
        /\ tok' = [tok EXCEPT !.c = IF mode = "char" THEN Ch ELSE Escape(Ch)]
    BY <1>12 DEF CharValue
  <2>2. tok'.c = IF mode = "char" THEN Ch ELSE Escape(Ch)
    BY <2>1 DEF LInv, ReadingOK
  <2>3. ASSUME Ch' # EOF PROVE <<tok'.c>> = Told(text', f, at' - 1)
    <3>1. Ch # EOF
      BY <1>2, <2>3
    <3>2. Told(text, f, f) = <<>> /\ ~Esc(text, f, f + 1)
      <4>1. f <= f
        OBVIOUS
      <4> QED
        BY <1>3, <1>4, <4>1, ToldStep, EscStep
    <3>3. \A c : Append(<<>>, c) = <<c>>
      OBVIOUS
    <3>4. CASE mode = "char" /\ Ch # "\\"
      <4>1. at = f + 1 /\ f < at /\ at - 1 = f
        BY <1>3, <3>4 DEF Inside
      <4>2. Told(text', f, at' - 1) = Append(<<>>, text[at])
        BY <1>2, <1>8, <3>1, <3>2, <3>4, <4>1
      <4> QED
        BY <1>2, <2>2, <3>1, <3>3, <3>4, <4>2
    <3>5. CASE mode = "charescape"
      <4>1. at = f + 2 /\ f < at /\ at - 1 = f + 1 /\ text[f + 1] = "\\" /\ f + 1 # f
            /\ (f + 1) - 1 = f /\ (f + 1) + 1 = f + 2 /\ f + 1 \in Nat /\ f <= f + 1
            /\ f + 1 <= Len(text)
        BY <1>3, <1>4, <3>5 DEF Inside
      <4>2. Esc(text, f, f + 2)
        <5>1. Esc(text, f, (f + 1) + 1) <=> text[f + 1] = "\\" /\ ~Esc(text, f, f + 1)
          BY <1>3, <1>4, <4>1, EscStep
        <5> QED
          BY <3>2, <4>1, <5>1
      <4>3. Told(text, f, f + 1) = <<>>
        <5>1. Told(text, f, f + 1)
                = IF text[f + 1] = "\\" /\ ~Esc(text, f, f + 1) THEN Told(text, f, (f + 1) - 1)
                  ELSE Append(Told(text, f, (f + 1) - 1),
                              IF Esc(text, f, f + 1) THEN Escape(text[f + 1]) ELSE text[f + 1])
          BY <1>3, <1>4, <4>1, ToldStep
        <5> QED
          BY <3>2, <4>1, <5>1
      <4>4. Told(text', f, at' - 1) = Append(<<>>, Escape(text[at]))
        BY <1>2, <1>8, <3>1, <4>1, <4>2, <4>3
      <4> QED
        BY <1>2, <2>2, <3>1, <3>3, <3>5, <4>4
    <3> QED
      BY <2>1, <3>4, <3>5
  <2>4. Sofar(f)'
    BY <2>1, <2>3 DEF Sofar
  <2> QED
    BY <1>5, <2>4
<1> QED
  BY <1>7, <1>9, <1>10, <1>11, <1>12

\* One token more.
LEMMA TokenSays ==
  ASSUME LInv, VInv, ReadsOn, NEW t, toks' = Append(toks, t), mode' \notin Reading,
         err => err', ~err' => SaysOf(t, text')
  PROVE  VInv'
<1>1. /\ Len(toks) \in Nat /\ Len(toks') = Len(toks) + 1 /\ toks'[Len(toks) + 1] = t
      /\ \A i \in 1..Len(toks) : toks'[i] = toks[i]
  BY AppendFacts DEF LInv, TokensOK
<1>2. CASE err'
  BY <1>2 DEF VInv, AllSay, SofarOK
<1>3. CASE ~err'
  <2>1. ASSUME NEW n \in 1..Len(toks) PROVE SaysOf(toks'[n], text')
    <3>1. \A i \in 1..Len(toks) : SaysOf(toks[i], text)
      BY <1>3 DEF VInv, AllSay
    <3>2. Extends(text, text') /\ text' \in Seq(source.chars)
      BY DEF ReadsOn
    <3>3. SaysOf(toks[n], text')
      BY <3>1, <3>2, TokensGoOnSaying
    <3> QED
      BY <1>1, <3>3
  <2>2. ASSUME NEW n \in 1..Len(toks') PROVE SaysOf(toks'[n], text')
    <3>1. n \in 1..Len(toks) \/ n = Len(toks) + 1
      BY <1>1
    <3> QED
      BY <1>1, <1>3, <2>1, <3>1
  <2>3. \A n \in 1..Len(toks') : SaysOf(toks[n], text)'
    BY <2>2, Zenon DEF SaysOf
  <2> QED
    BY <2>3 DEF VInv, AllSay, SofarOK
<1> QED
  BY <1>2, <1>3

\* A token that ends.
LEMMA EmitSays ==
  ASSUME LInv, VInv, ReadsOn, mode \in Reading, NEW k, NEW v, Emit(k, v),
         NEW f \in Nat, f = tok.from, NEW to \in Nat, at' = to + 1, f <= to + 1, err => err',
         NEW x, x = SubSeq(text', f, to),
         ~err' => /\ k = "int" => v = ParseInt(x)
                  /\ k = "string" => (IsQuoted(Quote, x) => v = Unquoted(x))
                  /\ k = "char" => (IsCharConst(x) => <<v>> = Unquoted(x))
                  /\ k \in {"name", "keyword"} => (k = "keyword" <=> x \in Keywords)
  PROVE  VInv'
<1> DEFINE t == [k |-> k, val |-> v, from |-> tok.from, to |-> at' - 1,
                 line |-> tok.line, col |-> tok.col]
<1>0. at' - 1 = to
  OBVIOUS
<1>1. /\ toks' = Append(toks, t) /\ t.k = k /\ t.val = v /\ t.from = f /\ t.to = to
      /\ mode' = (IF k = "eof" THEN "done" ELSE "skip")
  BY <1>0 DEF Emit
<1> HIDE DEF t
<1>2. mode' \notin Reading
  BY <1>1 DEF Reading
<1>3. ~err' => SaysOf(t, text')
  BY <1>1, Zenon DEF SaysOf, Says
<1> QED
  BY <1>1, <1>2, <1>3, TokenSays

\* A name or a number says what is in the buffer.
LEMMA WordsSay == ASSUME LInv, WInv, VInv, NameEnd \/ NumberEnd PROVE VInv'
<1> PICK f \in Nat : f = tok.from
  BY DEF LInv, ReadingOK
<1>1. mode \in {"name", "number"} /\ Hold /\ mode \in Reading /\ err' = (err \/ overflow)
  BY DEF NameEnd, NumberEnd, Reading
<1>2. /\ f \in Nat \ {0} /\ f <= at /\ f <= Len(text)
      /\ at \in Nat /\ at <= Len(text) + 1 /\ Len(text) \in Nat /\ text \in Seq(source.chars)
  BY <1>1, EndFacts
<1>3. ReadsOn /\ at' = at /\ text' = text
  BY <1>1, HoldReads
<1> PICK to \in Nat : to = at - 1
  BY <1>2
<1>4. at' = to + 1 /\ f <= to + 1
  BY <1>2, <1>3
<1> DEFINE x == SubSeq(text', f, to)
<1>5. ~err' => buf = x
  BY <1>1, <1>3 DEF VInv, SofarOK, Sofar
<1>6. err => err'
  BY <1>1
<1> HIDE DEF x
<1>7. CASE NameEnd
  <2>1. PICK k, v : Emit(k, v) /\ k = (IF buf \in Keywords THEN "keyword" ELSE "name")
    BY <1>7 DEF NameEnd
  <2>2. ~err' => (k \in {"name", "keyword"} => (k = "keyword" <=> x \in Keywords))
    BY <1>5, <2>1
  <2>3. k # "int" /\ k # "string" /\ k # "char"
    BY <2>1
  <2> QED
    BY <1>1, <1>3, <1>4, <1>6, <2>1, <2>2, <2>3, EmitSays DEF x
<1>8. CASE NumberEnd
  <2>1. PICK k, v : Emit(k, v) /\ k = "int" /\ v = ParseInt(buf)
    BY <1>8 DEF NumberEnd
  <2>2. ~err' => v = ParseInt(x)
    BY <1>5, <2>1
  <2>3. k # "string" /\ k # "char" /\ k # "name" /\ k # "keyword"
    BY <2>1
  <2> QED
    BY <1>1, <1>3, <1>4, <1>6, <2>1, <2>2, <2>3, EmitSays DEF x
<1> QED
  BY <1>7, <1>8

\* A string that is closed says what is in the buffer.
LEMMA StringsSay == ASSUME LInv, WInv, VInv, StringEnd PROVE VInv'
<1> PICK f \in Nat : f = tok.from
  BY DEF LInv, ReadingOK
<1>1. PICK k, v :
        /\ mode = "string" /\ Ch \in {EOF, Quote} /\ Emit(k, v) /\ k = "string" /\ v = buf
        /\ (IF Ch = EOF THEN Hold ELSE Advance) /\ err' = (err \/ overflow)
  BY Zenon DEF StringEnd, Quote
<1>2. mode \in Reading /\ mode # "init" /\ k # "int" /\ k # "char" /\ k # "name" /\ k # "keyword"
  BY <1>1 DEF Reading
<1>3. /\ f \in Nat \ {0} /\ f <= at /\ f <= Len(text) /\ Inside(f)
      /\ at \in Nat /\ at <= Len(text) + 1 /\ Len(text) \in Nat /\ text \in Seq(source.chars)
  BY <1>2, EndFacts
<1>4. f < at /\ \A j \in (f + 1)..(at - 1) : text[j] = Quote => Esc(text, f, j)
  BY <1>1, <1>3 DEF Inside, Unclosed
<1>5. err => err'
  BY <1>1
<1>6. CASE Ch = EOF
  <2>1. ReadsOn /\ at' = at /\ text' = text
    BY <1>1, <1>6, HoldReads
  <2> PICK to \in Nat : to = at - 1
    BY <1>3
  <2>2. at' = to + 1 /\ f <= to + 1 /\ f <= to /\ to <= Len(text)
    BY <1>3, <1>4, <2>1
  <2>3. ~IsQuoted(Quote, SubSeq(text, f, to))
    <3> SUFFICES ASSUME IsQuoted(Quote, SubSeq(text, f, to)) PROVE FALSE
      OBVIOUS
    <3>1. f < to /\ text[to] = Quote /\ ~Esc(text, f, to)
      BY <1>3, <2>2, QuotedHere
    <3>2. to \in (f + 1)..(at - 1)
      BY <1>3, <3>1
    <3> QED
      BY <1>4, <3>1, <3>2
  <2> DEFINE x == SubSeq(text', f, to)
  <2>4. ~IsQuoted(Quote, x)
    BY <2>1, <2>3
  <2> HIDE DEF x
  <2> QED
    BY <1>1, <1>2, <1>5, <2>1, <2>2, <2>4, EmitSays DEF x
<1>7. CASE Ch = Quote /\ Ch # EOF
  <2>1. ReadsOn /\ at \in 1..Len(text) /\ text[at] = Quote /\ at' = at + 1
    BY <1>1, <1>2, <1>7, AdvanceReads
  <2> PICK to \in Nat : to = at
    BY <1>3
  <2>2. at' = to + 1 /\ f < to /\ f <= to + 1 /\ to <= Len(text)
    BY <1>3, <1>4, <2>1
  <2> DEFINE x == SubSeq(text', f, to)
  <2>3. x = SubSeq(text, f, to)
    BY <1>3, <2>1, <2>2, PartReads
  <2>4. Unquoted(SubSeq(text, f, to)) = Told(text, f, to - 1)
    BY <1>3, <2>2, UnquotedIs
  <2>5. ~err' => v = Told(text, f, at - 1)
    BY <1>1, <1>2, <1>7 DEF VInv, SofarOK, Sofar
  <2>6. ~err' => v = Unquoted(x)
    BY <2>3, <2>4, <2>5
  <2> HIDE DEF x
  <2> QED
    BY <1>1, <1>2, <1>5, <2>1, <2>2, <2>6, EmitSays DEF x
<1> QED
  BY <1>1, <1>6, <1>7

\* A character constant that is closed says its character.
LEMMA CharsSay == ASSUME LInv, WInv, VInv, CharEnd PROVE VInv'
<1> PICK f \in Nat : f = tok.from
  BY DEF LInv, ReadingOK
<1>1. PICK k, v : /\ mode = "charend" /\ Emit(k, v) /\ k = "char" /\ v = tok.c /\ err' = err
                  /\ (IF Ch = "'" THEN Advance ELSE Hold)
  BY DEF CharEnd
<1>2. mode \in Reading /\ mode # "init" /\ k # "int" /\ k # "string" /\ k # "name"
      /\ k # "keyword" /\ "'" # EOF
  BY <1>1 DEF Reading, EOF
<1>3. /\ f \in Nat \ {0} /\ f <= at /\ f <= Len(text) /\ Inside(f)
      /\ at \in Nat /\ at <= Len(text) + 1 /\ Len(text) \in Nat /\ text \in Seq(source.chars)
      /\ DOMAIN text = 1..Len(text)
  BY <1>2, EndFacts
<1>4. text[f] = "'" /\ (at = Closing(f) \/ (Ch = EOF /\ at < Closing(f)))
  BY <1>1, <1>3 DEF Inside
<1>5. Closing(f) = f + 2 \/ Closing(f) = f + 3
  BY DEF Closing
<1>6. err => err'
  BY <1>1
<1>7. CASE Ch = "'"
  <2>1. ReadsOn /\ at \in 1..Len(text) /\ at' = at + 1 /\ at = Closing(f)
    BY <1>1, <1>2, <1>4, <1>7, AdvanceReads
  <2> PICK to \in Nat : to = at
    BY <1>3
  <2>2. at' = to + 1 /\ f < to /\ f <= to + 1 /\ to <= Len(text)
    BY <1>3, <1>5, <2>1
  <2> DEFINE x == SubSeq(text', f, to)
  <2>3. x = SubSeq(text, f, to)
    BY <1>3, <2>1, <2>2, PartReads
  <2>4. Unquoted(SubSeq(text, f, to)) = Told(text, f, to - 1)
    BY <1>3, <2>2, UnquotedIs
  <2>5. <<v>> = Told(text, f, at - 1)
    BY <1>1, <1>2, <1>7 DEF VInv, SofarOK, Sofar
  <2>6. <<v>> = Unquoted(x)
    BY <2>3, <2>4, <2>5
  <2> HIDE DEF x
  <2> QED
    BY <1>1, <1>2, <1>6, <2>1, <2>2, <2>6, EmitSays DEF x
<1>8. CASE Ch # "'"
  <2>1. ReadsOn /\ at' = at /\ text' = text
    BY <1>1, <1>8, HoldReads
  <2> PICK to \in Nat : to = at - 1
    BY <1>3
  <2>2. at' = to + 1 /\ f <= to + 1 /\ to <= Len(text) /\ to < Closing(f)
    BY <1>3, <1>4, <1>5, <2>1
  <2>3. ~IsCharConst(SubSeq(text, f, to))
    <3>1. CASE f <= to
      <4> SUFFICES ASSUME IsCharConst(SubSeq(text, f, to)) PROVE FALSE
        OBVIOUS
      <4>1. \/ text[f + 1] # "\\" /\ to = f + 2
            \/ text[f + 1] = "\\" /\ to = f + 3
        BY <1>3, <1>4, <2>2, <3>1, CharConstHere
      <4>2. f + 1 \in 1..Len(text)
        BY <1>3, <2>2, <4>1
      <4>3. Closing(f) = IF text[f + 1] = "\\" THEN f + 3 ELSE f + 2
        BY <1>3, <4>2 DEF Closing, Char
      <4> QED
        BY <1>3, <2>2, <4>1, <4>3
    <3>2. CASE f = to + 1
      <4>1. SubSeq(text, f, f - 1) = <<>> /\ f - 1 = to
        BY <1>3, <3>2, EmptyPart
      <4>2. ~IsCharConst(<<>>)
        <5>1. Len(<<>>) = 0
          OBVIOUS
        <5>2. ~(0 > 1)
          OBVIOUS
        <5> QED
          BY <5>1, <5>2, Zenon DEF IsCharConst, IsQuoted
      <4> QED
        BY <4>1, <4>2
    <3> QED
      BY <1>3, <2>2, <3>1, <3>2
  <2> DEFINE x == SubSeq(text', f, to)
  <2>4. ~IsCharConst(x)
    BY <2>1, <2>3
  <2> HIDE DEF x
  <2> QED
    BY <1>1, <1>2, <1>6, <2>1, <2>2, <2>4, EmitSays DEF x
<1> QED
  BY <1>7, <1>8

\* An operator and the end of the file say nothing.
LEMMA OthersSay == ASSUME LInv, WInv, VInv, Operator \/ EndOfFile PROVE VInv'
<1>1. CASE Operator
  <2> PICK f \in Nat : f = tok.from
    BY DEF LInv, ReadingOK
  <2>1. mode = "op" /\ mode \in Reading /\ mode # "init" /\ err' = err /\ (Hold \/ Advance)
    BY <1>1 DEF Operator, Reading
  <2>2. PICK k, v : Emit(k, v) /\ k \in {"op", "eof"}
    BY <1>1 DEF Operator
  <2>3. /\ f \in Nat \ {0} /\ f <= at /\ at \in Nat
    BY <2>1, EndFacts
  <2>4. ReadsOn /\ (at' = at \/ at' = at + 1)
    BY <2>1, HoldReads, AdvanceReads
  <2> PICK to \in Nat : at' = to + 1
    BY <2>3, <2>4
  <2>5. f <= to + 1
    BY <2>3, <2>4
  <2>6. k # "int" /\ k # "string" /\ k # "char" /\ k # "name" /\ k # "keyword"
    BY <2>2
  <2> QED
    BY <2>1, <2>2, <2>4, <2>5, <2>6, EmitSays
<1>2. CASE EndOfFile
  <2>1. PICK t : /\ toks' = Append(toks, t) /\ t.k = "eof" /\ t.from = at /\ t.to = at - 1
                 /\ mode' = "done" /\ Hold /\ err' = err
    BY <1>2 DEF EndOfFile
  <2>2. ReadsOn
    BY <2>1, HoldReads
  <2>3. at \in Nat
    BY DEF LInv, FileOK
  <2>4. SaysOf(t, text')
    BY <2>1, <2>3 DEF SaysOf, Says
  <2>5. mode' \notin Reading
    BY <2>1 DEF Reading
  <2> QED
    BY <2>1, <2>2, <2>4, <2>5, TokenSays
<1> QED
  BY <1>1, <1>2

\* The invariant of what the tokens say holds at first.
LEMMA VInvInit == Init => VInv
BY DEF Init, VInv, AllSay, SofarOK, Reading

\* Every step keeps it.
LEMMA VInvNext == LInv /\ WInv /\ VInv /\ [Next]_vars => VInv'
<1> SUFFICES ASSUME LInv, WInv, VInv, [Next]_vars PROVE VInv'
  OBVIOUS
<1>1. CASE LexInit \/ Skip
  <2>1. LInv'
    BY LInvNext
  <2> QED
    BY <1>1, <2>1, SkipSays
<1>2. CASE LexWord
  BY <1>2, StartsSay, MiddlesSay, WordsSay DEF LexWord
<1>3. CASE LexQuoted
  BY <1>3, StartsSay, MiddlesSay, StringsSay, CharsSay DEF LexQuoted
<1>4. CASE LexOther
  BY <1>4, StartsSay, OthersSay DEF LexOther
<1>5. CASE UNCHANGED vars
  <2>1. /\ text' = text /\ at' = at /\ mode' = mode /\ buf' = buf /\ overflow' = overflow
        /\ tok' = tok /\ toks' = toks /\ err' = err
    BY <1>5 DEF vars, file
  <2>2. AllSay'
    BY <2>1, Zenon DEF VInv, AllSay, SaysOf
  <2>3. SofarOK'
    BY <2>1 DEF VInv, SofarOK, Sofar, Ch
  <2> QED
    BY <2>2, <2>3 DEF VInv
<1> QED
  BY <1>1, <1>2, <1>3, <1>4, <1>5 DEF Next, Done

\* What the tokens say is what C90 says.
LEMMA VInvValues == LInv /\ VInv => ValueRight
<1> SUFFICES ASSUME LInv, VInv, ~err, NEW n \in DOMAIN toks
             PROVE  LET t == toks[n]
                        s == Spelled(t)
                    IN /\ t.k = "int" => \A m \in DOMAIN s : LET c == SubSeq(s, 1, m) IN
                            /\ IsIntConst(c) /\ SubSeq(s, m + 1, Len(s)) \in IntSuffixes
                            /\ Worth(c) < LongLimit
                          => t.val = Worth(c)
                       /\ t.k = "string" => (IsQuoted(Quote, s) => t.val = Unquoted(s))
                       /\ t.k = "char" => (IsCharConst(s) => <<t.val>> = Unquoted(s))
                       /\ t.k \in {"name", "keyword"} =>
                            pool[t.val] = s /\ (t.k = "keyword" <=> s \in Keywords)
  BY Zenon DEF ValueRight, Quote
<1> DEFINE t == toks[n]
           s == Spelled(t)
<1>1. n \in 1..Len(toks)
  BY SeqFacts DEF LInv, TokensOK
<1>2. t.from <= t.to + 1 /\ Says(t, s)
  BY <1>1 DEF VInv, AllSay, SaysOf, Spelled
<1>3. NameOK(t, text, pool, err) /\ TokenOK(t, text)
  BY <1>1 DEF LInv, TokensOK
<1>4. t.k \in {"name", "keyword"} => pool[t.val] = s
  BY <1>3 DEF NameOK, Spelled
<1>5. s \in Seq(source.chars)
  <2>1. t.from \in Nat \ {0} /\ t.to \in Nat /\ t.to <= Len(text) /\ text \in Seq(source.chars)
    BY <1>3 DEF TokenOK, LInv, FileOK
  <2>2. SubSeq(text, t.from, t.to) \in Seq(source.chars)
    BY <1>2, <2>1, PartChars
  <2> QED
    BY <2>2 DEF Spelled
<1> HIDE DEF t, s
<1>6. ASSUME t.k = "int", NEW m \in DOMAIN s, IsIntConst(SubSeq(s, 1, m)),
             SubSeq(s, m + 1, Len(s)) \in IntSuffixes, Worth(SubSeq(s, 1, m)) < LongLimit
      PROVE  t.val = Worth(SubSeq(s, 1, m))
  <2>1. m \in 1..Len(s)
    BY <1>5
  <2>2. ParseInt(s) = Worth(SubSeq(s, 1, m))
    BY <1>5, <1>6, <2>1, ParseRight
  <2>3. t.val = ParseInt(s)
    BY <1>2, <1>6 DEF Says
  <2> QED
    BY <2>2, <2>3
<1> QED
  BY <1>2, <1>4, <1>6, Zenon DEF Says, t, s

\* A token says what its text says: the value of a constant, the characters of a
\* literal, the name itself (lexer.c, cc1_parse_int, cc1_read_escape and
\* cc1_tokbuf_push), or it was reported as too long.
THEOREM ValuesAreRight == Spec => []ValueRight
<1>1. Spec => []LInv
  BY LInvInit, LInvNext, PTL DEF Spec
<1>2. Spec => []WInv
  BY <1>1, WInvInit, WInvNext, PTL DEF Spec
<1>3. Spec => []VInv
  BY <1>1, <1>2, VInvInit, VInvNext, PTL DEF Spec
<1> QED
  BY <1>1, <1>3, VInvValues, PTL
=============================================================================
