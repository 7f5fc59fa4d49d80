------------------------------- MODULE Driver -------------------------------
(***************************************************************************)
(* The compiler driver cc (cc/src/cc.c, cc/src/driver_util.c): for each    *)
(* input it runs cc1 and the assembler, then the linker once, and stops at *)
(* the first step that fails, or where it cannot name a file (zdk_die).    *)
(* Several drivers run side by side, as under make -j, in one directory    *)
(* and with one directory for temporary files.                             *)
(*                                                                         *)
(* A file is a name and holds a content; contents say where they come      *)
(* from: a text, the assembly of one, its object, a program of several.    *)
(* cc1 is cc1/src/main.c; the assembler and the linker are external.  A    *)
(* tool may fail, or be killed, at any point, or run for ever.             *)
(***************************************************************************)
EXTENDS Naturals, Sequences, FiniteSets

CONSTANTS
  Drivers,    \* the running drivers
  Commands,   \* what they may be asked to do: the command line of each
  Dirs, Bases, Exts,
  LongBases,  \* of the bases, those of 256 characters or more
  Sources,    \* the files that exist at first
  TmpBases,   \* the names mkstemp may choose
  MaxInputs,  \* ZDK_MAX_INPUTS
  NoFile

Files == [dir : Dirs, base : Bases \cup TmpBases, ext : Exts]

ASSUME FilesAssumption ==
  /\ Sources \subseteq Files /\ NoFile \notin Files /\ LongBases \subseteq Bases
  /\ {"cwd", "tmp"} \subseteq Dirs /\ {".c", ".s", ".o", ".out"} \subseteq Exts /\ "a" \in Bases
ASSUME InputsAssumption == MaxInputs \in Nat \ {0}

VARIABLES
  cmd,     \* the command line of each driver
  at,      \* what it is doing
  n,       \* the input it is at
  s_path, o_path,
  ld_inputs,
  tool,    \* the child it waits for
  st,      \* how its last child ended
  status,  \* its own exit status
  fs,      \* the file system
  users,   \* the steps, of which driver, that wrote a file
  bad      \* the statuses other than 0 of its children

own   == <<cmd, at, n, s_path, o_path, ld_inputs, tool, st, status, bad>>
vars  == <<own, fs, users>>

-----------------------------------------------------------------------------
(* Command lines: args is the inputs and libraries in order, opts the flags *)

Absent == <<"absent">>
Empty  == <<"empty">>  \* or cut short
Text(f) == <<"text", f>>
Result(k, cs) == CASE k = "cc1" -> <<"asm", cs[1]>>
                   [] k = "as"  -> <<"obj", cs[1]>>
                   [] k = "ld"  -> <<"exe", cs>>

IsIn(a) == a.k = "in"
IsLib(a) == a.k = "lib"
Inputs(c) == LET ins == SelectSeq(c.args, IsIn) IN [i \in DOMAIN ins |-> ins[i].f]
LdExtra(c) == SelectSeq(c.args, IsLib)

\* A command line names files; what mkstemp makes up is named by nobody else.
Temporary(f) == f.dir = "tmp" /\ f.base \in TmpBases
ASSUME CommandsAssumption ==
  /\ \A c \in Commands : DOMAIN c = Drivers /\ \A d \in Drivers :
       /\ Inputs(c[d]) \in Seq(Files)
       /\ c[d].out \in Files \cup {NoFile} /\ (c[d].out # NoFile => ~Temporary(c[d].out))
  /\ \A f \in Sources : ~Temporary(f)

Opt(d, o) == o \in cmd[d].opts
Input(d) == Inputs(cmd[d])[n[d]]

\* what no work is begun for
Rejected(c) ==
  \/ Inputs(c) = <<>> \/ Len(Inputs(c)) > MaxInputs \/ Len(LdExtra(c)) >= MaxInputs
  \/ c.out # NoFile /\ c.opts \cap {"S", "c"} # {} /\ Len(Inputs(c)) # 1
  \/ "E" \in c.opts

\* the base name of the input in the current directory, with another suffix
Here(f, x) == [dir |-> "cwd", base |-> f.base, ext |-> x]
AOut == [dir |-> "cwd", base |-> "a", ext |-> ".out"]
OutFile(c) == IF c.out # NoFile THEN c.out ELSE AOut

\* a mutant: a template without a directory
TmpNameHere(x) == {[dir |-> "cwd", base |-> k, ext |-> x] : k \in TmpBases}
\* mkstemp makes a new file; it is unlinked at once, and its name with the
\* suffix is used later: nothing keeps that name from being chosen again.
\* Where it makes none, see NoName.
TmpName(x) == {[dir |-> "tmp", base |-> k, ext |-> x] : k \in TmpBases}

NoTool == [k |-> "none", in |-> <<>>, out |-> NoFile, read |-> <<>>]
\* zdk_run_argv up to the wait
Start(d, stage, k, ins, f) ==
  /\ at' = [at EXCEPT ![d] = stage]
  /\ tool' = [tool EXCEPT ![d] = [k |-> k, in |-> ins, out |-> f, read |-> <<>>]]
Ended(d, stage) == at[d] = stage /\ tool[d] = NoTool

Exit(d, x) == at' = [at EXCEPT ![d] = "exit"] /\ status' = [status EXCEPT ![d] = x]
\* zdk_die
Dies(d) == at' = [at EXCEPT ![d] = "died"] /\ status' = [status EXCEPT ![d] = 1]
NextInput(d) == n' = [n EXCEPT ![d] = @ + 1] /\ at' = [at EXCEPT ![d] = "input"]
\* a mutant: the name is not copied, every entry is the buffer's last content
LinkBuffer(d, f) == ld_inputs' = [ld_inputs EXCEPT ![d] = [i \in 1..(Len(@) + 1) |-> f]]
\* a copy of the name, not the buffer
Link(d, f) == ld_inputs' = [ld_inputs EXCEPT ![d] = Append(@, f)]
Write(d, f, x) == /\ fs' = [fs EXCEPT ![f] = x]
                  /\ users' = [users EXCEPT ![f] = @ \cup {<<d, n[d]>>}]

-----------------------------------------------------------------------------
Init ==
  /\ cmd \in Commands
  /\ at = [d \in Drivers |-> "args"] /\ n = [d \in Drivers |-> 1]
  /\ s_path = [d \in Drivers |-> NoFile] /\ o_path = s_path
  /\ ld_inputs = [d \in Drivers |-> <<>>]
  /\ tool = [d \in Drivers |-> NoTool] /\ st = [d \in Drivers |-> 0]
  /\ status = [d \in Drivers |-> 0] /\ bad = [d \in Drivers |-> {}]
  /\ fs = [f \in Files |-> IF f \in Sources THEN Text(f) ELSE Absent]
  /\ users = [f \in Files |-> {}]

\* the command line, and the toolchain (ToolLookup), which may fail on any
ParseArgs(d) ==
  /\ at[d] = "args"
  /\ \/ Dies(d)
     \/ ~Rejected(cmd[d]) /\ at' = [at EXCEPT ![d] = "input"] /\ UNCHANGED status
  /\ UNCHANGED <<cmd, n, s_path, o_path, ld_inputs, tool, st, bad, fs, users>>

AtInput(d, exts) == /\ at[d] = "input" /\ n[d] <= Len(Inputs(cmd[d]))
                    /\ Input(d).ext \in exts

Out(d, x) == IF cmd[d].out # NoFile THEN cmd[d].out ELSE Here(Input(d), x)
\* whether mkstemp is asked for a name, and the names there are
AsmMade(d) == ~Opt(d, "S") /\ ~Opt(d, "save")
AsmNames(d) == IF AsmMade(d) THEN TmpName(".s")
               ELSE {IF Opt(d, "S") THEN Out(d, ".s") ELSE Here(Input(d), ".s")}
ObjMade(d) == ~Opt(d, "c") /\ ~Opt(d, "save")
ObjNames(d) == IF ObjMade(d) THEN TmpName(".o")
               ELSE {IF Opt(d, "c") THEN Out(d, ".o") ELSE Here(Input(d), ".o")}
\* for a .s input: -c without -o does not name its object
Single(d) == Opt(d, "c") /\ cmd[d].out # NoFile /\ Len(Inputs(cmd[d])) = 1
AsMade(d) == ~Single(d) /\ ~Opt(d, "save")
AsNames(d) == IF AsMade(d) THEN TmpName(".o")
              ELSE {IF Single(d) THEN cmd[d].out ELSE Here(Input(d), ".o")}

\* base[256]
Fits(d) == Input(d).base \notin LongBases

\* zdk_die in mid-work: the base name is too long, or mkstemp fails; what was
\* written up to then stays
NoName(d) ==
  /\ \/ AtInput(d, {".c"}) /\ (~Fits(d) \/ AsmMade(d))
     \/ AtInput(d, {".s", ".S"}) /\ (~Fits(d) \/ AsMade(d))
     \/ Ended(d, "cc1") /\ st[d] = 0 /\ ~Opt(d, "S") /\ ObjMade(d)
  /\ Dies(d)
  /\ UNCHANGED <<cmd, n, s_path, o_path, ld_inputs, tool, st, bad, fs, users>>

\* a .c input
Compile(d) ==
  /\ AtInput(d, {".c"}) /\ Fits(d)
  /\ \E s \in AsmNames(d) : /\ s_path' = [s_path EXCEPT ![d] = s]
                            /\ Start(d, "cc1", "cc1", <<Input(d)>>, s)
  /\ UNCHANGED <<cmd, n, o_path, ld_inputs, st, status, bad, fs, users>>

\* a mutant: the status of cc1 is not looked at
CompiledAnyway(d) ==
  /\ Ended(d, "cc1")
  /\ IF Opt(d, "S") THEN NextInput(d) /\ UNCHANGED <<o_path, tool>>
     ELSE \E o \in ObjNames(d) : /\ o_path' = [o_path EXCEPT ![d] = o]
                                 /\ Start(d, "asm", "as", <<s_path[d]>>, o)
                                 /\ UNCHANGED n
  /\ UNCHANGED <<cmd, s_path, ld_inputs, st, status, bad, fs, users>>

Compiled(d) ==
  /\ Ended(d, "cc1") /\ st[d] = 0
  /\ IF Opt(d, "S") THEN NextInput(d) /\ UNCHANGED <<o_path, tool>>
     ELSE \E o \in ObjNames(d) : /\ o_path' = [o_path EXCEPT ![d] = o]
                                 /\ Start(d, "asm", "as", <<s_path[d]>>, o)
                                 /\ UNCHANGED n
  /\ UNCHANGED <<cmd, s_path, ld_inputs, st, status, bad, fs, users>>

\* a mutant: the assembly file stays
AssembledKeeping(d) ==
  /\ Ended(d, "asm") /\ st[d] = 0
  /\ IF Opt(d, "c") THEN UNCHANGED ld_inputs ELSE Link(d, o_path[d])
  /\ NextInput(d)
  /\ UNCHANGED <<cmd, s_path, o_path, tool, st, status, bad, fs, users>>

\* the assembly file goes once there is an object
Assembled(d) ==
  /\ Ended(d, "asm") /\ st[d] = 0
  /\ IF Opt(d, "save") THEN UNCHANGED <<fs, users>> ELSE Write(d, s_path[d], Absent)
  /\ IF Opt(d, "c") THEN UNCHANGED ld_inputs ELSE Link(d, o_path[d])
  /\ NextInput(d)
  /\ UNCHANGED <<cmd, s_path, o_path, tool, st, status, bad>>

\* a .s input
Assemble(d) ==
  /\ AtInput(d, {".s", ".S"}) /\ Fits(d)
  /\ \E o \in AsNames(d) : /\ o_path' = [o_path EXCEPT ![d] = o]
                           /\ Start(d, "as", "as", <<Input(d)>>, o)
  /\ UNCHANGED <<cmd, n, s_path, ld_inputs, st, status, bad, fs, users>>

\* a mutant: after -c the next turn takes the same input
AssembledAgain(d) ==
  /\ Ended(d, "as") /\ st[d] = 0
  /\ IF Opt(d, "c") THEN at' = [at EXCEPT ![d] = "input"] /\ UNCHANGED <<n, ld_inputs>>
     ELSE Link(d, o_path[d]) /\ NextInput(d)
  /\ UNCHANGED <<cmd, s_path, o_path, tool, st, status, bad, fs, users>>

AssembledInput(d) ==
  /\ Ended(d, "as") /\ st[d] = 0
  /\ IF Opt(d, "c") THEN UNCHANGED ld_inputs ELSE Link(d, o_path[d])
  /\ NextInput(d)
  /\ UNCHANGED <<cmd, s_path, o_path, tool, st, status, bad, fs, users>>

\* a mutant: the object of the last .c or .s input is linked instead
PassOnLast(d) ==
  /\ AtInput(d, Exts \ {".c", ".s", ".S"})
  /\ Link(d, o_path[d]) /\ NextInput(d)
  /\ UNCHANGED <<cmd, s_path, o_path, tool, st, status, bad, fs, users>>

\* an object or an archive
PassOn(d) ==
  /\ AtInput(d, Exts \ {".c", ".s", ".S"})
  /\ Link(d, Input(d)) /\ NextInput(d)
  /\ UNCHANGED <<cmd, s_path, o_path, tool, st, status, bad, fs, users>>

\* the linker's input is what the steps above left, whatever else it is told
LinkAll(d) ==
  /\ at[d] = "input" /\ n[d] > Len(Inputs(cmd[d]))
  /\ IF Opt(d, "c") \/ Opt(d, "S") THEN Exit(d, 0) /\ UNCHANGED tool
     ELSE Start(d, "ld", "ld", ld_inputs[d], OutFile(cmd[d])) /\ UNCHANGED status
  /\ UNCHANGED <<cmd, n, s_path, o_path, ld_inputs, st, bad, fs, users>>

\* a child has failed, or it was the linker: its status is the driver's
Finish(d) ==
  /\ \E stage \in {"cc1", "asm", "as", "ld"} : Ended(d, stage)
  /\ st[d] # 0 \/ at[d] = "ld"
  /\ Exit(d, st[d])
  /\ UNCHANGED <<cmd, n, s_path, o_path, ld_inputs, tool, st, bad, fs, users>>

DriverStep(d) == \/ ParseArgs(d) \/ NoName(d) \/ Compile(d) \/ Compiled(d) \/ Assembled(d)
                 \/ Assemble(d) \/ AssembledInput(d) \/ PassOn(d) \/ LinkAll(d) \/ Finish(d)

-----------------------------------------------------------------------------
(* The children *)

Ends(d, x) == /\ tool' = [tool EXCEPT ![d] = NoTool] /\ st' = [st EXCEPT ![d] = x]
              /\ bad' = [bad EXCEPT ![d] = IF x = 0 THEN @ ELSE @ \cup {x}]

\* A tool reads its next input; cc1 has opened, and emptied, its output by
\* then.
ToolReads(d) ==
  LET t == tool[d]
      f == t.in[Len(t.read) + 1]
  IN /\ t # NoTool /\ Len(t.read) < Len(t.in)
     /\ IF fs[f] = Absent THEN Ends(d, 1) /\ UNCHANGED <<fs, users>>
        ELSE /\ tool' = [tool EXCEPT ![d].read =
                           Append(@, IF t.k = "cc1" /\ f = t.out THEN Empty ELSE fs[f])]
             /\ IF t.k = "cc1" THEN Write(d, t.out, Empty) ELSE UNCHANGED <<fs, users>>
             /\ UNCHANGED <<st, bad>>
     /\ UNCHANGED <<cmd, at, n, s_path, o_path, ld_inputs, status>>

ToolWrites(d) ==
  LET t == tool[d]
  IN /\ t # NoTool /\ Len(t.read) = Len(t.in)
     /\ Write(d, t.out, Result(t.k, t.read))
     /\ Ends(d, 0)
     /\ UNCHANGED <<cmd, at, n, s_path, o_path, ld_inputs, status>>

\* 127: it could not be started, or a signal ended it, maybe amid its output,
\* which the assembler and the linker may also remove
ToolFails(d) ==
  /\ tool[d] # NoTool
  /\ \E x \in {1, 127} : Ends(d, x)
  /\ \/ UNCHANGED <<fs, users>>
     \/ Write(d, tool[d].out, Empty)
     \/ tool[d].k # "cc1" /\ Write(d, tool[d].out, Absent)
  /\ UNCHANGED <<cmd, at, n, s_path, o_path, ld_inputs, status>>

ToolStep(d) == ToolReads(d) \/ ToolWrites(d) \/ ToolFails(d)

Over(d) == at[d] \in {"exit", "died"}
Done == (\A d \in Drivers : Over(d)) /\ UNCHANGED vars
Next == (\E d \in Drivers : DriverStep(d) \/ ToolStep(d)) \/ Done
\* A driver that can go on does.  No child has to: cc1 may loop for ever, and
\* waitpid waits as long.
Spec == Init /\ [][Next]_vars /\ \A d \in Drivers : WF_vars(DriverStep(d))

-----------------------------------------------------------------------------
(* Properties *)

Stages == {"args", "input", "cc1", "asm", "as", "ld", "exit", "died"}
Name == Files \cup {NoFile}

\* The type invariant.
TypeOK ==
  /\ cmd \in Commands /\ at \in [Drivers -> Stages]
  /\ \A d \in Drivers : n[d] \in 1..(Len(Inputs(cmd[d])) + 1)
  /\ s_path \in [Drivers -> Name] /\ o_path \in [Drivers -> Name]
  /\ \A d \in Drivers : /\ ld_inputs[d] \in Seq(Files)
                        /\ tool[d].k \in {"none", "cc1", "as", "ld"}
                        /\ tool[d].in \in Seq(Files) /\ tool[d].out \in Name
                        /\ Len(tool[d].read) <= Len(tool[d].in)
  /\ st \in [Drivers -> {0, 1, 127}] /\ status \in [Drivers -> {0, 1, 127}]
  /\ DOMAIN fs = Files
  /\ users \in [Files -> SUBSET (Drivers \X (1..(MaxInputs + 1)))]
  /\ bad \in [Drivers -> SUBSET {1, 127}]

Done0(d) == at[d] = "exit" /\ status[d] = 0
Linking(c) == c.opts \cap {"S", "c"} = {}

\* No file was written on behalf of two inputs, and none that was there at
\* first or that a command line names as an input: what -save-temps, -S, -c,
\* -o and a temporary name handed out twice can bring about.
NoClash ==
  /\ \A f \in Files : (\A u, v \in users[f] : u = v) /\ (f \in Sources => users[f] = {})
  /\ \A d \in Drivers : \A i \in DOMAIN Inputs(cmd[d]) : users[Inputs(cmd[d])[i]] = {}

ObjectOf(f) == CASE f.ext = ".c" -> Result("as", <<Result("cc1", <<Text(f)>>)>>)
                 [] f.ext \in {".s", ".S"} -> Result("as", <<Text(f)>>)
                 [] OTHER -> Text(f)

\* A driver that reports success has made what it was asked for, out of its
\* own inputs in the order of its command line, whatever the other drivers did
\* meanwhile.
OutputRight ==
  NoClash => \A d \in Drivers : Done0(d) =>
    LET c == cmd[d] IN
    /\ Linking(c) => fs[OutFile(c)] =
         Result("ld", [i \in DOMAIN Inputs(c) |-> ObjectOf(Inputs(c)[i])])
    /\ \A i \in DOMAIN Inputs(c) : Inputs(c)[i].ext = ".c" =>
         LET f == Inputs(c)[i] IN
         /\ "S" \in c.opts => fs[IF c.out # NoFile THEN c.out ELSE Here(f, ".s")]
                                = Result("cc1", <<Text(f)>>)
         /\ c.opts \cap {"S", "c"} = {"c"} =>
              fs[IF c.out # NoFile THEN c.out ELSE Here(f, ".o")] = ObjectOf(f)

\* The first child that fails is the last one that runs, and its status is
\* the driver's.  A driver that gives up for a reason of its own runs nothing
\* any more and says 1, though no child has failed; any other succeeds.
StatusHonest ==
  \A d \in Drivers :
    /\ Cardinality(bad[d]) <= 1
    /\ bad[d] # {} \/ at[d] = "died" => tool[d] = NoTool
    /\ at[d] = "exit" => IF bad[d] = {} THEN status[d] = 0 ELSE bad[d] = {status[d]}
    /\ at[d] = "died" => bad[d] = {} /\ status[d] = 1

\* Nothing but temporary files and the files the command line stands for is
\* ever written, by whichever step and whatever fails.
Stands(c) ==
  {c.out} \cup (IF Linking(c) THEN {OutFile(c)} ELSE {})
  \cup (IF "S" \in c.opts \/ "save" \in c.opts
          THEN {Here(Inputs(c)[i], ".s") : i \in DOMAIN Inputs(c)} ELSE {})
  \cup (IF "c" \in c.opts \/ "save" \in c.opts
          THEN {Here(Inputs(c)[i], ".o") : i \in DOMAIN Inputs(c)} ELSE {})
WritesOnlyNamed ==
  \A f \in Files : \A u \in users[f] : f.dir = "tmp" \/ f \in Stands(cmd[u[1]])

\* Temporary assembly does not pile up: one is there only while its own input
\* is compiled and assembled, or after a child failed, or where mkstemp had no
\* name for the object of it.
AsmRemoved ==
  \A f \in Files : Temporary(f) /\ f.ext = ".s" /\ fs[f] # Absent =>
    \E d \in Drivers :
      /\ s_path[d] = f
      /\ at[d] \in {"cc1", "asm"} \/ bad[d] # {} \/ (at[d] = "died" /\ ObjMade(d))

\* Every driver comes to an end whose children do: it goes round no input for
\* ever and is never left waiting for a child that has ended.
EndsOrWaits == \A d \in Drivers : <>Over(d) \/ <>[](tool[d] # NoTool)
=============================================================================
