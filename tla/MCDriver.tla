------------------------------ MODULE MCDriver ------------------------------
(***************************************************************************)
(* Drivers in a directory with a.c, b.s and l.o, and a second a.c below it.*)
(***************************************************************************)
EXTENDS Driver

File(d, b, x) == [dir |-> d, base |-> b, ext |-> x]
MCDirs == {"cwd", "sub", "tmp"}
MCBases == {"a", "b", "l", "long"}
MCExts == {".c", ".s", ".o", ".out"}
MCSources == {File("cwd", "a", ".c"), File("sub", "a", ".c"), File("cwd", "b", ".s"),
              File("cwd", "l", ".o")}
NoFileHere == [dir |-> "none", base |-> "none", ext |-> "none"]

In(f) == [k |-> "in", f |-> f]
Lib == [k |-> "lib", f |-> NoFileHere]
Cmd(args, opts, out) == [args |-> args, opts |-> opts, out |-> out]
AC == In(File("cwd", "a", ".c"))
SubAC == In(File("sub", "a", ".c"))
BS == In(File("cwd", "b", ".s"))
LO == In(File("cwd", "l", ".o"))
Missing == In(File("cwd", "b", ".c"))
\* no file system has these
LongC == In(File("cwd", "long", ".c"))
LongS == In(File("cwd", "long", ".s"))
Prog == File("cwd", "b", ".out")

Busy == {"p", "q"}
Of(p, q) == [d \in Busy |-> IF d = "p" THEN p ELSE q]
\* one driver, every kind of command; the other has nothing to do
Alone ==
  {Of(Cmd(args, opts, out), Cmd(<<>>, {}, NoFileHere)) :
     args \in {<<AC>>, <<AC, BS>>, <<BS, AC>>, <<LO, SubAC, BS>>, <<AC, SubAC>>, <<BS, Missing>>,
               <<AC, Lib, BS>>, <<Lib>>, <<BS, LO, AC, SubAC>>, <<AC, LongC>>, <<BS, LongS>>},
     opts \in {{}, {"save"}, {"c"}, {"S"}, {"c", "save"}, {"S", "c"}, {"E"}},
     out \in {NoFileHere, Prog}}
\* two drivers, which may be asked for the same
Together ==
  LET some == << Cmd(<<AC, BS>>, {}, Prog), Cmd(<<SubAC, LO>>, {}, NoFileHere),
                 Cmd(<<AC>>, {"c", "save"}, NoFileHere) >>
  IN  {Of(some[i], some[j]) : <<i, j>> \in {<<1, 1>>, <<2, 3>>, <<3, 3>>}}
MCCommands == Alone \cup Together
=============================================================================
