# A verification development for ZDK

ZDK (`src/`) is two C programs: `cc1`, a single-pass C compiler for the Z80,
and `cc`, the driver that runs `cc1`, an assembler and a linker. This directory
holds TLA+ models of them, the TLC runs that check the models on small
instances, and theorems that TLAPS proves for all instances. `PROJECT.json`
maps every definition to the lines it models, and lists the runs, the mutants
that show each property can fail, the findings and the hazards.

## The system

| part | source | state it keeps | operations |
|---|---|---|---|
| expression code generator | `cc1/src/parse.c` 276-896, `z80_cg.c`, `type.c` | operand descriptors (`struct cc1_expr`), one per active call of the parser | parse primary, postfix, unary, binary; convert an operand to HL or to A; emit |
| statements and frames | `parse.c` 898-1131, `z80_cg.c` | next label, next frame offset, the open statements (C call stack) | block, declaration, `if`, `while`, `return`, expression statement; prologue and epilogue |
| declarations and scopes | `parse.c` 69-251, 1133-1199, `sym.c` | the stack of scopes | declaration specifiers, declarators, typedefs, external declarations |
| lexer | `lexer.c` | one character of lookahead, token buffer | next token; asks the symbol table whether a name is a type |
| types, string pool, section buffers, diagnostics | `type.c`, `strpool.c`, `emit.c`, `diag.c` | type objects; interned strings; four temporary files and two counters; `had_error` | constructors; intern; emit, concatenate; report |
| main program of `cc1` | `main.c` | the open files | open, parse, write the sections or nothing, exit status |
| driver pipeline | `cc/src/cc.c` 432-599, `driver_util.c` | link inputs, temporary files | compile, assemble, link; stop at the first failing step |
| tool and sysroot lookup | `cc.c` 86-169, 371-430, `driver_util.c` | `driver_path`, `driver_dir`, `prefix`, `cc_name`, `sysroot`, the tools' paths | find itself on PATH, its directories, the sysroot, `cc1`, assembler, linker |

`cc1` is one sequential process. Its parts call each other directly: the parser
asks the lexer for one token at a time, the lexer asks the symbol table what an
identifier is, the parser emits text as it goes and never looks at it again.
What makes the program hard is therefore not concurrency but that *two times
are interleaved in one text*: the compiler decides at one point of the source,
from what it remembers, what the machine will find at that point of the run.
`cc` shares files and exit statuses with its children and with other copies of
itself; that is where failure, leftovers and races are.

What makes each part correct:

- expressions: a descriptor tells the truth about where its value is; pushes
  and pops pair up across recursive calls; a saved address is intact when it
  is used; memory ends up as C says; the callee finds its arguments; the
  parser ends on every input.
- statements and frames: labels are unique and defined; no local in scope lies
  below SP; the caller gets its frame back; the compiled body does what the
  source says.
- declarations and scopes: scopes balance, errors included; a name and its
  kind are what C's scopes make them, though the lexer asks one token ahead;
  what is accepted is a whole text.
- lexer: tokens are the longest the language has, are worth what they say, are
  where they say, have one address per name; nothing of the file is dropped;
  it ends.
- tool lookup: the tools beside the driver are the ones that run; the order of
  preference holds while files come and go; two driver names keep their
  sysroots apart.
- main program and driver: a failure is reported, stops the work and leaves
  nothing behind that looks like a result; link order is input order.

## Modules

| module | what it is |
|---|---|
| `ExprCodegen` | the expression parser, step by step, with the Z80 code it emits executed as it is emitted |
| `MCExprCodegen` | a machine of 16 bytes, six variables and four functions for TLC |
| `ExprCodegenProofs` | theorems about `ExprCodegen` |
| `CBody` | what C says a function body does: an abstract machine without code |
| `Frame` | the statement parser and the function it compiles; shown to implement `CBody` |
| `MCFrame` | small bodies for TLC |
| `FrameProofs` | theorems about the labels of `Frame` and the run of a compiled function |
| `FrameRefinementProofs` | the theorem that `Frame` implements `CBody` |
| `Scopes` | the recursive descent over a translation unit, its scopes and its errors |
| `MCScopes` | words for TLC: a file, a function body, statements |
| `ScopesProofs` | theorems about `Scopes` |
| `Lexer` | the lexer and the string pool, character by character |
| `MCLexer` | alphabets for TLC |
| `LexerProofs` | theorems about `Lexer` |
| `SeqLemmas` | facts about sequences, and induction over sets of numbers, that the proofs cite |
| `Driver` | drivers, their children and the files they share |
| `MCDriver` | command lines and a directory for TLC |
| `DriverProofs` | theorems about `Driver` |
| `ToolLookup` | how a driver finds its directories, its sysroot and its tools |
| `MCToolLookup` | ways to start a driver, and a tree around it, for TLC |
| `ToolLookupProofs` | theorems about `ToolLookup` |

`Scopes`, `ExprCodegen` and `Frame` are three views of one parser: the first has
all its control outside expressions, the second the expressions with the values
of their code, the third the code of statements and what it does when it runs.
`Lexer` stands under all three, and `ToolLookup` before `Driver`.

### ExprCodegen

*State.* `ctl` is the C call stack of the parser: a frame is an active call of
`cc1_parse_expr`, or of `cc1_parse_unary`, `_primary`, `_postfix` where they
call further down; `mode` says where the innermost one stands. `tok` is the
lookahead, `res` the descriptor the call that just returned filled in, `err` is
`had_error`. A descriptor has the fields of `struct cc1_expr` under short
names (`lv` is_lvalue, `const`, `ival`, `label`, `a` in_a, `hl` in_hl, `off`
has_ix_off, `ix` ix_off, `addr` addr_in_hl).

Expression code is straight-line: every instruction emitted is executed, in the
order of emission (the one jump of `==`/`!=` skips an `inc l` and is folded
into its result). So `reg`, `stk` and `mem`, the machine's state, follow the
emission. BC is never an operand and is left out.

*Actions* are the stretches of one parser function between two calls of
others; the table `map` in `PROJECT.json` gives the lines. `Assign`, for
example, is the code after the right side of `=`: convert to A or HL, pop the
saved address or use `(ix+d)`, store, update the descriptor.

*C's side.* `val`, `loc`, `rd`, `wr` of a descriptor and `cmem` evaluate the
same expression as C does. `cub` is set when the input is not C or is
undefined (types that do not fit, wrong argument counts, an object used
unsequenced, a pointer that is no object). `frag` is cleared when the input
leaves what the generator handles so far. The conditions are those that make
the text of the code wrong on purpose or by design of the bring-up stage:
a second operand of `+`, `==` or of an argument list that occupies HL or A; an
operator other than `=`, `+`, `==`, `!=`; an operand converted to a char that
`cc1_z80_ensure_rvalue_a` does not load. The violation run of this module drops
`frag` for sums and shows what happens there. `Clean` is `frag`, not `cub`, and no error.

*Inputs.* `Advance` draws the next token from a set, so a run covers all token
strings up to its bound, well formed or not. After the first error only the end
of the input is delivered: the parser's whole reaction to an error is followed,
but not further tokens. A called function is outside `src/`: it returns a
value that depends on what it finds in its slots, keeps IX, loses every other
register and is taken not to write to the caller's variables.

### CBody and Frame

`CBody` reads a body as a sequence of items and executes it by its block
structure: an environment of nested scopes, tests, loops, calls, a result.
There is no address, label or stack in it.

`Frame` first reads the same items as `cc1` does: `ctl` are the statements
whose code is half emitted (with their labels), `label` is `next_label_id`,
`off` is `next_local_off`, `scopes` the symbol table, `code` what was emitted.
One action stands for the part of `cc1_parse_statement` or
`cc1_parse_compound` between two nested statements, its emission included.
When the body closes, the function is called and `code` runs on a machine with
SP, IX, HL, DE and a memory of words that wraps around like the Z80's.

Each instruction carries the position of its item and the scopes there. They
are history only: the machine ignores them. The refinement mapping reads them:
the abstract position is that of the instruction at `pc`, a variable's value
is the word at its offset from the frame, the result is HL once `pc` is at the
exit label. `Implements` is then the specification of `CBody`, so a wrong
label, a wrong offset, an overwritten local or a lost argument shows up as a
step that C does not allow.

A callee reads its argument, may overwrite it and all that is below, and comes
back with HL and DE of its own. Bodies are C90: declarations before
statements in each block, no name twice in a scope. `Conditional` says whether
a body may declare inside a branch or loop.

### Scopes

*State.* `ctl` says what the active calls of the parser still have to do, the
next one last; `decls` holds the declarations being parsed (a parameter's
inside its function's) with what is known of them: specifiers seen, type, name,
parameters. `scopes` is the symbol table; `tok` the lookahead, with the kind the
lexer gave a name when it read it; `label` is `out->label` of the last
expression, `err` is `had_error`. `hist` and `nest` are history: the blocks and
declarations of the text so far, and its open braces and parentheses. No action
looks at them.

*Actions* are the stretches of `cc1_parse_translation_unit`, `_external_decl`,
`_declspec`, `_declarator`, `_compound`, `_statement` and the expression
functions between two calls of one another. Reading a token (`Lex`) asks the
scopes *as they are at that moment* what a name is; `Typedef`, `Local` and
`LeaveBlock` do it before or after they change the scopes as the code does. An
error sets `err` and goes on with the token that stopped it. Expressions are
names, numbers, parentheses and calls, as much as decides where one ends.

*C's side* is read off `hist`: `Meaning(n)` is the last declaration of a name in
a block that is open, or the first one of the file.

### Lexer

*State.* `text` is what was read of the file so far and grows when the lexer
reads on: a run covers every file over an alphabet up to a length, and the
model cannot see further ahead than the code does. `at` is where `lx->ch` is,
`loc` line and column, `mode` where in `cc1_lex_next` the lexer is, `buf` and
`overflow` the token buffer, `pool` the string pool, whose places stand for
addresses; `toks` are the tokens made.

*Actions* are the turns of the loops of `cc1_lex_next` and its helpers: one for
each character skipped, put into the buffer, or recognised. `EndOfFile`
is the end of the file; `Operator` ends the text at a character that is none.
The escapes, the bases and the suffixes of numbers are the code's, and so is the
`long` a number is read into: `Long` goes around at its limit.

*The reference* is C's lexical grammar: `IsToken`, `IsComment` and `IsGap` say
what is spelled right, `Worth` and `Unquoted` what a constant or a literal
says. Each is written from the language, on whole strings, and none looks at
the machine: `Worth` adds each digit at its place, from the last one on, where
the code multiplies what it has from the first one on. What a constant that
does not fit in a `long` is worth nobody says. Two things are not from the
language: which character an escape stands for is the code's own table (`Escape`;
it has `\n`, `\t`, `\r`, and of any other the character itself, so that `'\0'` counts
as right with 48), and suffixes beyond those of `IntSuffixes` are not judged.

### Driver

*State.* Each driver has its command line `cmd`, the place `at` in `main` (the
child it waits for, or between two), the input `n`, the two paths, the link
inputs and the status of its last child. `tool` is that child. `fs` maps names
to contents, and a content says where it comes from: the text of a source, the
assembly of a text, the object of an assembly, a program of objects in order,
or a file emptied or cut short.
`users` and `bad` are history: for whom a file was written, which failures a
driver saw. `Commands` are the ways to give every driver a command line.

*Actions.* The body of the loop over inputs is cut where it waits: `Compile` up
to the wait for `cc1`, `Compiled` from there to the wait for the assembler,
`Assembled` to the end of the turn; `Assemble`, `AssembledInput` for a `.s`
input, `PassOn` for an object, `LinkAll` after the loop, `Finish` for every
`return`. A temporary name is any of `TmpBases` at any time: `mkstemp` looks for
a free name without the suffix and the file is unlinked at once, so nothing
keeps a name from coming twice. `NoName` is `zdk_die` in mid-work, where `mkstemp`
has no name to give (`cc.c:458`, `495`, `539`: TMPDIR full, missing or read-only)
or the base name of an input does not fit in 256 characters (`LongBases`;
`cc.c:441`, `532`); what was written up to then stays. A driver that died, there
or over its command line or toolchain (`ParseArgs`), is at `"died"`; one that
returned is at `"exit"`. Children read their inputs one by one and write
at the end; `cc1` empties its output first (`cc1/src/main.c` opens it before it
parses). Any of them may fail anywhere, and leave its output as it was, cut
short, or (not `cc1`) removed; any may also never end. The assembler and the linker are external.

### ToolLookup

*State.* `run` is how the driver was started (`argv[0]`, directory, PATH, and
where it really is), `set` its options and environment; `stage` and `k` are
where in `main` and in a search it is; the other variables are those of `main`.
`fs` is the set of files there are, `always` and `ever` those that were there
all the time, or at some time. A path is absolute or not and has components;
`Place` is what the operating system makes of it, `Dirname` what the code does
with its letters.

*Actions.* Every look at the file system is a step; `Comes` and `Goes` are
somebody else's, between any two, at most `MaxChanges` of them. A look is
`access(F_OK)`: whether a file can be executed is not asked. Joining with an
empty path fails and ends the driver (`Die`).

## Runs

| run | bound | what it shows |
|---|---|---|
| `expr_values` | 7 tokens of 11 | memory is what C says after every step, descriptors are true at every return, and the statement gets its value in HL or A: chars, ints and pointers, near and far, with `*`, `&`, `+`, `=`, `==` |
| `expr_calls` | 8 tokens of 10 | stack balance, saved addresses, arguments; nested calls, 0 to 3 arguments, argument limit 2 |
| `expr_other` | 5 tokens of 15 | `sizeof`, strings, void calls, unsupported operators, all errors: descriptors true, and the parser ends |
| `frame_body` | 6 statements in the body | all nestings of `if`, `else`, `while`, blocks: labels; locals never below SP; caller's frame; refinement of `CBody` |
| `driver` | one driver on 154 command lines of up to 4 arguments, or two drivers in 3 pairs; 2 temporary names | writes only what the command line stands for; success means the right file; failure stops the work and shows; temporary assembly goes, unless its object gets no name; ends, or waits for a child that does not |
| `scopes` | 6 words of 13 from the start of a file, 7 of 10 in a body, 6 of 13 of statements | scopes balance; names and typedefs mean what C says; accepted texts are whole; the parser ends or is stuck on a named word |
| `lexer` | files of up to 6 characters of 6 (comments), 5 of 8 (names; numbers), 6 of 5 (literals), 4 of 11 (operators); buffer of 5 | longest tokens, their worth, one address per name, places, nothing dropped; ends |
| `tools` | 6 ways to start, 5 settings, any set of 8 files, 1 change meanwhile | the tools beside the driver run; the code's order of preference; sysroot by name; ends |
| `expr_plus`, `frame_branch`, `frame_global`, `tool_prefix` | smallest that shows it | disagreements, below |

*Why the bounds are enough.* The expression machine has bytes of 4 values (16
addresses) so that memory is small; carries, the high byte of a word, and
wrap-around all happen. `(ix+d)` reaches -5..4: of the locals one word is
entirely within reach, one has its first byte there and not its second, one
byte is at the edge and one beyond, and both conversions meet all of them.
Seven tokens hold `*p = *p + x` and `x = c == d`; eight hold
`y = f(g(7))` up to its last parenthesis and `y = f(7, h())`'s shape with a
missing end, which matters because `y` is out of reach and its address waits
on the stack under the call. The argument limit of 32 is 2, so that a third
argument meets it. In Frame the limit of `(ix+d)` lies between the first and
the second local, seven words of stack hold three locals, a saved address and a
callee's arguments, and six statements make `if` in `while` with an `else`
and something after it, or a shadowed name in a block in a block.
The driver meets every kind of input in every order that matters (compiled,
assembled, passed on; the same base name twice), with the limit of 256 inputs
set to 3 so that a fourth is refused, and with inputs whose base name is too
long behind others that were already worked on. Two drivers with two temporary names
between them run out of fresh names, so names do come twice; and the same
commands also run where no two steps meet. Two drivers are enough: what one
sees of others is only that a file changed, and one other can change any.
Seven words in a body that has a type `T` and a parameter `x` already make a
block, a declaration that hides either, and a use behind it; six from the start
of a file make a prototype or a typedef and the next declaration's first
words. In the lexer the longest decision is the end of a comment, `/***/`, and
four characters fill the buffer and overflow it; three digits already make
numbers below and beyond a `long` of 128; three operator characters in a
row, `<<=`, leave one for what follows. In `tools` one change is enough to be
between any two looks; the tree has a candidate of each kind beside the driver
and around both directories that could be its prefix.

Bounds: `MaxTokens`, `MaxArgs`, `Byte`, `Reach` in `ExprCodegen`; `MaxItems`,
`Size`, `Reach` in `Frame`; `more` of an input in `Scopes`; `most` of a source,
`BufSize` and `LongLimit` in `Lexer`; `MaxInputs`, `TmpBases` in `Driver`; `MaxChanges` in
`ToolLookup`.

*Fairness.* `ExprCodegen`, `Frame`, `Scopes` and `Lexer` assume weak fairness of
the one process they model: `cc1` does not wait for anything but its file, and
neither does the processor that runs the compiled function, so a step that is
possible is taken. `Terminates`, `EndsOrSticks` and `Ends` rest on nothing else.
`ToolLookup` assumes it of the driver and not of those who change files.
`Driver` assumes it of each driver and not of the children: a driver goes on when
it can, which is also that `waitpid` returns when a child has ended; but `cc1` may
loop for ever (see `EndsOrSticks`) and `waitpid` has no limit. So `EndsOrWaits`
says no more than that a driver ends unless from some time on it waits for one
child. (`CBody` has no fairness; the refinement is about
safety.)

*What is excused, and why.* `TypedefsCurrent` leaves out the token after a `}`,
which the code reads in the scope it is about to close; it and `NamesResolved`
leave out texts with a name declared twice in the file's scope, as a function
before its definition, whose parameters keep the names of the first declaration;
both are told under "Seen on the way".
`NothingDropped` names the two ways in which the code does drop the rest of a
file. `EndsOrSticks` names the words on which the loop over a function body
stays for ever. `OutputRight` speaks of runs in which no file was written for two inputs, and
none that is an input or was there before: options and a temporary name that
comes twice can bring that about, between two drivers as well. `AsmRemoved` leaves
out assembly whose driver saw a child fail, or died because `mkstemp` had no name
for the object: the code removes it after a successful assembly only.
`BesideDriver` leaves out drivers that something else of their name precedes on
PATH. `OrderOfPreference` is the order in the code, measured from the directory
the code takes for PREFIX, and not that of `TOOLCHAIN.md`: `tool_prefix` and the
notes below on `libexec/zdk/cc1` and on prefixed tools tell where the two differ.

*Mutants.* Every property of every passing run has a mutant, an operator beside
the definition it replaces, commented as such: an offset not cut to 16 bits, a missing
`ld h, 0`, a missing `add hl, de`, reach tested for one byte only, arguments
pushed in the other order, clean-up by parameter count, an operator that is not
consumed, one label for two, a missing `jp`, a block that frees its locals, an
epilogue without `ld sp, ix`, one-byte slots, lookup from the outermost scope,
a missing `strdup`, a status not looked at, a missing `remove`, a template
without `TMPDIR`, a stale path, a turn that takes the same input again;
parameters that stay declared, a typedef declared after the next token was
read, lookup from the outside in, a missing token that is not reported,
`had_error` not looked at, a declaration that is not popped; no room for the
final zero, a name cut without a word, `<<` missing, a new address for every
name, a column that is not reset, a star stepped over in a comment, the end of
file not looked for in one; an empty directory name, an empty segment of PATH
joined like others, GNU tools first, one sysroot for all names, a colon not
stepped over.

## Findings

- `expr_plus`: the left operand of `+` is pushed after the right one was
  parsed. `h() + h()`, `1 + (x + 1)`, `*p + *p` lose an operand.
- `frame_branch`: a declaration in a branch not taken, or in the body of a loop
  that is not entered (TLC's trace), leaves later locals below SP, where calls
  overwrite them.
- `frame_global`: a file-scope variable is accessed at `(ix+0)`, where the
  caller's IX is saved.
- `tool_prefix`: for a driver started by its full name PREFIX is the directory
  above the one `TOOLCHAIN.md` means: in the trace `/p/q/bin/cc` takes `/p` and does
  not find the sysroot under `/p/q`; `/opt/zdk/bin/cc` looks under `/opt`
  (`cc.c:383`).

Seen on the way and not the subject of a run:

- An `int` variable passed for a `char` parameter is not loaded; the callee gets
  whatever was in A (`parse.c:442`; `cc1/README.md:12` speaks of the low byte).
- The token after a `}` is read before the scope is left: `{ int T; } T x;` takes
  `T` for a variable (`parse.c:1009`).
- The loop over a function body never ends on a word that starts no statement,
  such as `)` or `else`: it reports the same error for ever (`parse.c:937`).
- The definition of a function that was declared before knows the parameters by
  the names of the declaration (`parse.c:1157`), which may hide a type in the
  body: after `int f(int T); typedef int T; int f(int x) {`, `T` is a variable.
- A character that starts no token (`#`, `@`) reads as the end of the file, and
  `cc1` accepts what was before it (`lexer.c:433`). A comment, a string or a
  character constant that is not closed is accepted too; `'ab'` is `'a'` and a
  stray token.
- `'\0'` is 48, the code of `0`; a decimal constant takes `a` to `f` for digits:
  `1f` is 25.
- By the mistake of `tool_prefix` the GNU tools of `TOOLCHAIN.md:15` and `26`,
  PREFIX/bin/<tool-prefix>as and ld, are passed over, though they are next to the
  driver: the prefixed name is looked for one level above (`cc.c:161`) and then
  left to PATH.
- `libexec/zdk/cc1`, the fallback of `TOOLCHAIN.md:13`, is never tried, not even
  under the directory taken for PREFIX: the search before it never fails
  (`cc.c:419`).
- A driver started as `./cc` or `../bin/cc` takes `.` for PREFIX, which is wrong in
  another way.
- When `mkstemp` has no name for the object, the temporary assembly of the input at
  hand stays (`cc.c:495`), as it does when the assembler fails.
- An empty segment at the end of PATH is not searched.
- `return 1 + c;` in a `char` function returns 1: the sum's descriptor still
  says it is the constant (`parse.c:613`).
- `cc -c b.s` assembles into a temporary file whose name nobody learns, and
  reports success (`cc.c:534`).
- Libraries reach the linker before all objects (`cc.c:588`).
- `-L<sysroot>/usr/lib` is built in an array whose block has ended when the
  linker starts (`cc.c:586`); built with gcc from `-O2` on the linker gets an
  empty argument instead. The CMake files leave the build type to the user.

## Proofs

The theorems hold for every value of the constants that the named assumptions
of the modules allow; the runs above meet all of those. Of the safety invariants
of the runs all are proved, and so is the refinement of `CBody` by `Frame`; what
is not is named under "Where the proofs stop".

### ExprCodegen (`ExprCodegenProofs`)

For every input, every set of names and types, every machine size, every reach
of `(ix+d)` and every argument limit:

- `StackIsBalanced`: the words on the machine stack are those the active calls
  pushed, call after call, and none is left at the end. Errors included.
- `AddressSurvives`: the address an assignment saved is in its slot until the
  store pops it.
- `TypeCorrect`: `TypeOK`.
- `MemoryIsRight`, `DescriptorsAreSound`, `ArgumentsAreRight`,
  `ValuesAreDelivered`: memory, descriptors, arguments and the value of the
  expression are what C says, for `Clean` inputs without `signed char`.

The first two need `IInv`, which is `Shape` and `ModeOK`. `Shape` says that
each active call's words start where its caller's end, that the segments are
ordered, that the stack ends with the innermost one, and that the word in an
assignment's slot is the saved address; the two properties need each other,
since an address survives only because nobody pops below his own segment.
`ModeOK` says what kind of call is innermost when the parser is in its operator
loop or in an argument list: without it a step could not know that it holds no
word, or which words it pops. The proof is one lemma per action over three
lemmas about the two stacks together (`PushFrame`, `PopFrame`, `ReplaceTop`).

The other four need `TInv`, the types, and `SInv`: `Clean => Sem`. What makes
them hard is that an operand waits. `x = f(y)` keeps `x` in the frame of the
assignment while the parser goes through a call, its arguments and its code,
and uses it after that. `Sem` says of every operand an active call holds
(a left side, an argument) that it is still what its descriptor says: a
constant, a label or an address that memory still holds under; or in a
register, if nothing was emitted since. That is true only until younger code
writes to what the operand reads, or takes the register it is in; those are
the cases in which C calls the result undefined or the generator is wrong, and
`Dirty` says which they are. So each step has to show that what it emits keeps
all older operands or clears `Clean`. `Waits`, `Loops` and `Pushes` say in
addition what each kind of frame holds at the stage it is at, and `Pushing` what
of the arguments is on the stack already and in which order.

Two disjuncts of `cub` came from attempts at this proof, where the input was not
C and the model did not say so: an argument of type `void`, and a comparison
with one.

`signed char` has to be left out because the code extends it with zeros
(`parse.c:675`): what it computes of one is not what C says.

### Frame (`FrameProofs`, `FrameRefinementProofs`)

- `LabelsArePaired`: in the code of every body, of any length and nesting, no
  label is defined twice, and a label is jumped to without being defined exactly
  while an open statement, or the function's exit, still owes it.
- `TypeCorrect`: `TypeOK`, that SP, IX and all of memory hold words and
  addresses included.
- `LocalsStayAboveSP` and `ComesBack`: in a function without file-scope
  variables that declares nothing in a branch or a loop, no local in scope is
  ever below SP, and the caller gets back its IX, its SP and its return address.
- `FrameImplementsC`: for such a function `Implements`, that every step of parser
  and machine is a step `CBody` allows or one it does not see.

For the first, `LInv` says that every label in the code or owed by a statement
is below the counter, that the labels of two open statements are different, and
that each statement owes the labels its kind says at the stage it is at. One
lemma says what appending a piece of code does to the labels (`Piece`), one per
emitter says which piece it is, and one per action puts them together.

The next two are about all paths through code with loops, while the compiler
sees each instruction once. `FrameInv` therefore asks for a *certificate*: a
function `K` from places of the code to what is known there (bytes of locals,
words pushed, and which slots' addresses HL, DE and the top of the stack may be
relied on to hold), and a number of bytes for each label. `Goes` is the rule an
instruction imposes on what is known before and after it; a jump must go to a
label with the bytes known at the jump. While the parser reads, the certificate
exists for the code emitted so far and ends in "`-off` bytes of locals, nothing
pushed" (`Parsed`), the labels of all open statements having the bytes of
now: that is where a declaration in a branch would break it. While the code
runs, the machine is in the state the certificate names at `pc` (`Runs`); the
frame is linked, and memory at `Base` and `Base + 2` is the caller's. Each
instruction then has one lemma. The two hypotheses are needed: `frame_branch`
and `frame_global` show what happens without them.

The refinement (`SimInv`) adds to `FrameInv` what the code means:

1. *Along the code* (`Chain`, in `FrameProofs`). A second certificate `M` says
   what HL, DE and the pushed word hold in C's terms: nothing, the address of a
   slot, or the value of a name or literal. `Link` is the rule for two
   neighbouring instructions: the first stays with its item and C does not see
   it (`Goes1`), or it is the one that completes the item (`Completes`: the store
   of an assignment to the offset its name has there, the call with the value of
   its argument on the stack, the test with its value in HL), or it jumps and
   nothing is said of the next. At every label nothing is known. The parser
   extends the chain with each piece it emits; the scopes along it are those
   `CBody` has there, with no two variables in one slot (`ScopesOK`).
2. *Across it* (`Structured`). `CBody` finds the end of an `if`, its `else` and
   the `while` of an end by counting the items that open and end statements; the
   parser has labels and its stack. For every open statement there is an item it
   stands for, every item behind that one is nested in it, and each jump that
   waits for its label was emitted for that item. When the label is placed, the
   item there is the one `CBody` goes to (`JumpOK`); when the body has ended,
   every jump is of that kind or leaves the function (`JumpsRight`).
3. *At run time* (`Proceeds`). What `M` says at `pc` is true of the registers and
   the stack (`Believes`). Each of the machine's actions has one lemma (`...Follows`):
   the step is a step of `CBody` or changes nothing it sees, and `M` holds
   at the next instruction. A store changes one variable because slots are
   apart; a push, the detour of `lea` over the stack and a callee change none
   because all variables in scope are above SP (`FrameInv`).

### Scopes (`ScopesProofs`)

For every text:

- `ScopesAlwaysBalanced`: scopes balance, whatever the recovery from errors
  does.
- `AlwaysWhole`: what is accepted was read to its end, with no brace or
  parenthesis without a partner.
- `TypeCorrect`: `TypeOK`; as many declarations are held as are being parsed.
- `TypedefsAreCurrent`: where no error was reported and no name is declared twice
  in the file, a name is lexed as a type exactly if it is one in C; but for the
  token after a `}`.
- `NamesAreResolved`: in such a text the symbol table gives an expression the
  declaration that C means.

`CInv` counts what the active calls owe: each word of `ctl` stands for so many
scopes to be closed, declarations to be given up, braces and parentheses to be
read; the sums over the stack are what `scopes`, `decls` and `nest` have, the
latter two as long as there was no error. Each action replaces the top of `ctl`
by calls that owe the same, up to what the step itself does. To know what
stands below the top, the invariant says which calls may stand on which
(`Stack`).

What names mean takes `SInv`, which adds `Good` to `CInv` for a text without an
error. Its heart is `Fits(scopes, hist)`: as many scopes as the text has braces
open, plus one; and for each scope and name, the name is bound there exactly if
a declaration of it stands in the block of that depth that is still open, and
to the last such. Each way to change the scopes has a lemma about `Fits`: a
block opens (`FitsOpen`), closes (`FitsClose`), a name is declared (`FitsDef`), a
list of parameters is (`FitsParams`); `Resolved` then says that a lookup agrees
with `Meaning`. `Fits` alone is not inductive, because the code changes scopes
and text at different times:

- the token at hand was looked up in the scopes of one step ago (`Spelled`), and
  a declaration that follows must not change its kind. It does not, because a
  name about to be declared is no type where it stands: it was lexed as an
  identifier (`DeclGood`);
- after a `}` the token may have the wrong kind. That it is never the name of a
  declaration is the order of the calls: what may be at the top of `ctl` right
  after a `}` has specifiers to read first (`Waits`), or is an expression;
- a function has two scopes, which end with one `}`: until `EndFunction` the table
  has one more than the text (`Cur`, `Ends`);
- nothing but parts of a declaration stands above one (`Above`), so no block
  opens or closes while one is held.

### Lexer (`LexerProofs`)

For every file over every alphabet, every set of reserved words and every size
of the buffer:

- `NamesByAddress`: two names have one address exactly if they are spelled
  alike, as long as none was reported as too long.
- `LexerTypes`: `TypeOK`, and with it that the buffer is never filled past its
  end, its final zero included.
- `LocationsAreRight`: line and column of a token are those of its first
  character.
- `TokensAreLongest`: `LongestMatch`; every token is one of the language's, no
  longer one starts where it does, and only white space and whole comments are
  between two.
- `NothingIsDropped`: the end of file the parser gets is the end of the file,
  but for a comment that is not closed and a character no token starts with.
- `ValuesAreRight`: `ValueRight`; a constant that fits in a `long` is worth what
  its digits and its base make it, a string says what is between its quotes, a
  name is its spelling and is a keyword if that is one.

The invariant `LInv` adds to `TypeOK` what ties the buffer to the file: the
character in hand is one of the text or the one behind it, the tokens made end
before it, and while a name is read the buffer holds the text from the token's
start unless it overflowed. The pool has no spelling twice and every name's
address holds its spelling. `NamesByAddress` needs both: that the buffer is the
name when the pool is asked, and that the pool never moves or repeats what it
holds. `LocationsAreRight` counts the line ends before `at` and the characters
since the last one.

For `TokensAreLongest` a token must be the longest when it is made, though the
file goes on behind it: `Lasting` says that it is right in *every* text that has
what was read at its beginning, and the lemmas about single tokens (`WordRight`,
`StringRight`, `CharRight`, `OperatorRight`) show it from the one character
behind. `WInv` says where in a token or in a gap the lexer is (`ReadOK`,
`SkipOK`). White space and comments are a gap by a recursion that looks for
comments anywhere; the invariant says that up to `at`, or up to where the
comment at hand began, it is one, and of the comment that it has not ended yet.
Whether a quote ends a literal depends on the number of backslashes before it;
the mode of the lexer is that number's parity (`EscStep`). `NothingIsDropped` is
read off the same invariant at the last step.

For `ValuesAreRight`, `VInv` says that until the buffer overflows it holds what
the literal says so far (`Told`, with every escape replaced), or the characters
of the name or number. That a number is worth its digits is `HornerSums`: what
the code has after `k` digits, times the weight of the place it has reached,
plus the sum of the digits still to come is the same for every `k`; nothing on
the way exceeds the sum, so that a value that fits never goes around.

There is a lemma for each group of actions (white space and
comments, words, literals, operators), over four facts about how a step moves
on in the file, starts a token and finishes one.

### Driver (`DriverProofs`)

For any number of drivers, command lines, inputs, files and temporary names:

- `FailureIsReported`: `StatusHonest`, for drivers that die in mid-work too. The
  invariant says of each driver what it has seen of failures: none while it goes
  on, runs a child or has died, and exactly the last status otherwise.
- `TypeCorrect`: `TypeOK`.
- `OnlyNamedWritten`: every name a driver holds, and the output of its child, is
  temporary or one its command line stands for.
- `AssemblyDoesNotPileUp`: a temporary `.s` file belongs to a driver that is
  still at work on it, saw a child fail, or died where it asks `mkstemp` for an
  object's name. Two drivers given one name make no
  exception: a file of such a name is written only by a driver that is
  compiling into it, and that one removes it.
- `SuccessIsTrue`: `OutputRight`. The invariant follows each input through its
  steps: as long as no file is written for two inputs, the assembly of the input
  at hand, every object in `ld_inputs` and what the child has read so far are
  those of the driver's own inputs, one by one and in their order. A file
  written by another driver is written for another input, so `users` tells that
  the content a driver relies on is still its own.

### ToolLookup (`ToolLookupProofs`)

For every tree of files, every way to start a driver, and any number of changes
to the tree between any two looks:

- `ToolsInOrder`, `SysrootInOrder`: `OrderOfPreference` and `SysrootOfName`. The
  invariant says of a search in progress that each place it has passed was
  missing at some time.
- `ToolsBesideDriver`: `BesideDriver`. It needs that the directory the driver
  finds for itself is where it is, after the text operations `Dirname` and
  `Join`, `.` and `..` included; the lemmas about `Place` are inductions over
  the components of a path.
- `TypeCorrect`: `TypeOK`; no directory is ever the empty path.

### Where the proofs stop

*Model-checked only.* The liveness properties (`Terminates`, `EndsOrSticks`,
`Ends`, `EndsOrWaits`) are out of the prover's reach.

*Induction.* The induction theorems of the library take an operator that
none of the provers can instantiate. `SeqLemmas` states induction over a set of
numbers instead (`SetInduction`), which any property can be turned into, and the
existence of least and largest numbers. Recursive definitions the proofs are
about are recursive functions (`Walk` in `ToolLookup`, gaps, digits and literals
in `Lexer`); `Recursion` says that a function defined by a step from each number to
the next exists.

*Assumptions on constants* are in the modules that declare them. They say which
type a constant has, and that: variables and functions of `ExprCodegen` are not
functions returned or stored; the stack of `Frame` has room below the frame for
the locals of a body and two words, and a caller's frame above (`StackAssumption`,
`FrameAssumption`: no program says how deep its stack may be, and one that is
too deep is outside C); a command line does not name a file that `mkstemp`
makes up (`CommandsAssumption`); the name a driver was started by is not `.` or
`..`, and one with a slash is where the driver is (`InvocationAssumption`).

## Not modelled

Words, literals and messages are values of small sets outside of `Lexer`; the
text of the assembly is nowhere. `signed char` is in the operators of
`ExprCodegen` but not in its runs. In `Frame` every variable is an int and an
expression is a name or a literal; in `Scopes` an expression has no operators.

The four section files are copied one after the other at the end, and errors of
writing them are ignored (`main.c:99`): a full disk is in no model. Neither are
`malloc` failing (`strpool.c`, `sym.c` and `type.c` mostly do not look; the driver
passes a null name on), the 4096 bytes of a path in the driver, the names `cc1` is too short of
room to mangle (`parse.c:62`), and `-Wa,`. `cc1`'s own command line is an
argument loop without state. Nothing models `mksysroot.sh`, the CMake files,
the editor settings and the test programs: they keep no state.

## Plan

Every part of the program that keeps state is modelled, within the limits
above. The safety invariants of the passing runs and the refinement are proved.
What would extend the development is on the side of the model:

1. `char` locals and `char` results in `Frame`: the slot is the same, the stores
   are of bytes. The chain of instructions then needs to know the upper byte of a
   slot as well.
2. Expressions of `ExprCodegen` in the statements of `Frame`, so that one model
   compiles a whole function: `MemoryAgrees` and `ValueDelivered` are what `Frame`
   would need of them.
