----------------------------- MODULE MCToolLookup -----------------------------
(***************************************************************************)
(* A driver /p/q/bin/cc, ways to start it, and what may be around it.      *)
(***************************************************************************)
EXTENDS ToolLookup

MCNames == STRING
NonePath == [abs |-> FALSE, c |-> <<"(none)">>]
Real == <<"p", "q", "bin", "cc">>
Start(argv0, cwd, path) == [argv0 |-> argv0, cwd |-> cwd, path |-> path, real |-> Real]
Cc == Rel(<<"cc">>)
Home == Abs(<<"p", "q", "bin">>)
MCInvocations ==
  { Start(Abs(Real), <<"p", "q">>, <<>>),
    Start(Rel(<<"bin", "cc">>), <<"p", "q">>, <<>>),
    Start(Rel(<<"..", "bin", "cc">>), <<"p", "q", "bin">>, <<>>),
    Start(Cc, <<"p">>, <<>>),
    Start(Cc, <<"p", "q">>, <<Abs(<<"p">>), Home, EmptyPath>>),
    Start(Cc, <<"p", "q", "bin">>, <<EmptyPath, Abs(<<"p">>)>>) }

ByFullName == { Start(Abs(Real), <<"p", "q">>, <<>>) }

Z == Rel(<<"z80">>)
NoEnv == [t \in Tools |-> NonePath]
Plain == [sysroot |-> NonePath, target |-> Z, tool_prefix |-> "z80-", env |-> NoEnv]
OnlyPlain == { Plain }
MCSettings ==
  { Plain, [Plain EXCEPT !.sysroot = Abs(<<"p">>), !.tool_prefix = ""],
    [Plain EXCEPT !.sysroot = EmptyPath], [Plain EXCEPT !.target = EmptyPath],
    [Plain EXCEPT !.sysroot = Abs(<<"p">>), !.target = EmptyPath,
                  !.env = [NoEnv EXCEPT !["cc1"] = Rel(<<"my", "cc1">>)]] }

\* around the driver, and around where it takes its prefix to be
MCPlaces ==
  { Real, <<"p", "cc">>,
    <<"p", "q", "bin", "as">>, <<"p", "bin", "as">>, <<"p", "bin", "z80-as">>,
    <<"p", "libexec", "cc", "cc1">>,
    <<"p", "z80", "cc", "sysroot">>, <<"p", "z80", "sysroot">> }
\* a toolchain as it is installed
Installed == { Real, <<"p", "q", "libexec", "cc", "cc1">>, <<"p", "q", "z80", "cc", "sysroot">> }
=============================================================================
