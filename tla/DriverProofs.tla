---------------------------- MODULE DriverProofs ----------------------------
(***************************************************************************)
(* Theorems about Driver, for any number of drivers, any command lines and *)
(* any files: the first child that fails is the last one that runs and its *)
(* status is the driver's, and one that gives up for lack of a name says so*)
(* (FailureIsReported); a file is written only by a driver it stands for   *)
(* (OnlyNamedWritten); temporary assembly is gone when its assembler       *)
(* succeeded (AssemblyDoesNotPileUp); and a driver that says it succeeded, *)
(* and whose files met no other's, has made what the command line asks     *)
(* for, the objects in the order of the inputs (SuccessIsTrue).            *)
(***************************************************************************)
EXTENDS Driver, SeqLemmas, FiniteSetTheorems

Waits == {"cc1", "asm", "as", "ld"}

\* What is read and set when a child starts or ends is there for each driver.
Domains ==
  /\ DOMAIN at = Drivers /\ DOMAIN tool = Drivers /\ DOMAIN st = Drivers
  /\ DOMAIN bad = Drivers /\ DOMAIN status = Drivers

\* A driver that goes on has seen no failure; one that runs a child neither.
StatusOf(d) ==
  /\ bad[d] = IF st[d] = 0 THEN {} ELSE {st[d]}
  /\ tool[d] # NoTool => at[d] \in Waits /\ st[d] = 0
  /\ at[d] \in {"args", "input"} => st[d] = 0
  /\ at[d] = "exit" => status[d] = st[d]
  /\ at[d] = "died" => st[d] = 0 /\ status[d] = 1

SInv == Domains /\ \A d \in Drivers : StatusOf(d)

\* The variables a driver's status depends on.
seen == <<cmd, at, tool, st, status, bad>>

\* The invariant says what the property says.
LEMMA SInvHonest == SInv => StatusHonest
<1> SUFFICES ASSUME SInv, NEW d \in Drivers
             PROVE  /\ Cardinality(bad[d]) <= 1
                    /\ bad[d] # {} \/ at[d] = "died" => tool[d] = NoTool
                    /\ at[d] = "exit" => IF bad[d] = {} THEN status[d] = 0 ELSE bad[d] = {status[d]}
                    /\ at[d] = "died" => bad[d] = {} /\ status[d] = 1
  BY DEF StatusHonest
<1>1. StatusOf(d)
  BY DEF SInv
<1>2. Cardinality({}) = 0 /\ Cardinality({st[d]}) = 1
  BY FS_EmptySet, FS_Singleton
<1>3. Cardinality(bad[d]) <= 1
  BY <1>1, <1>2 DEF StatusOf
<1>4. bad[d] # {} \/ at[d] = "died" => tool[d] = NoTool
  BY <1>1 DEF StatusOf, Waits
<1>5. /\ at[d] = "exit" => IF bad[d] = {} THEN status[d] = 0 ELSE bad[d] = {status[d]}
      /\ at[d] = "died" => bad[d] = {} /\ status[d] = 1
  BY <1>1 DEF StatusOf
<1> QED
  BY <1>3, <1>4, <1>5

\* Nobody has run anything yet.
LEMMA InitSInv == Init => SInv
BY DEF Init, SInv, Domains, StatusOf, Waits

\* A driver that starts a child has seen no failure.
LEMMA StartStep ==
  ASSUME SInv, NEW d \in Drivers, NEW stage \in Waits, NEW k, NEW ins, NEW f,
         st[d] = 0, Start(d, stage, k, ins, f), UNCHANGED <<cmd, st, status, bad>>
  PROVE  SInv'
<1>1. /\ at' = [at EXCEPT ![d] = stage]
      /\ \A e \in Drivers : e # d => tool'[e] = tool[e]
      /\ DOMAIN tool' = DOMAIN tool
  BY DEF Start
<1>2. Domains'
  BY <1>1 DEF SInv, Domains
<1>3. ASSUME NEW e \in Drivers PROVE StatusOf(e)'
  BY <1>1 DEF SInv, Domains, StatusOf, Waits
<1> QED
  BY <1>2, <1>3 DEF SInv

\* A child that ends was the only one, and its status is what its driver has
\* seen.
LEMMA EndStep ==
  ASSUME SInv, NEW d \in Drivers, NEW x \in {0, 1, 127}, tool[d] # NoTool,
         Ends(d, x), UNCHANGED <<cmd, at, status>>
  PROVE  SInv'
<1>1. /\ tool' = [tool EXCEPT ![d] = NoTool] /\ st' = [st EXCEPT ![d] = x]
      /\ bad' = [bad EXCEPT ![d] = IF x = 0 THEN bad[d] ELSE bad[d] \cup {x}]
  BY DEF Ends
<1>2. Domains'
  BY <1>1 DEF SInv, Domains
<1>3. bad[d] = {} /\ at[d] \in Waits
  BY DEF SInv, StatusOf
<1>4. ASSUME NEW e \in Drivers PROVE StatusOf(e)'
  BY <1>1, <1>3 DEF SInv, Domains, StatusOf, Waits
<1> QED
  BY <1>2, <1>4 DEF SInv

\* A driver that goes to its next input has seen no failure.
LEMMA NextInputStep ==
  ASSUME SInv, NEW d \in Drivers, st[d] = 0, tool[d] = NoTool, NextInput(d),
         UNCHANGED <<cmd, tool, st, status, bad>>
  PROVE  SInv'
BY DEF NextInput, SInv, Domains, StatusOf, Waits

\* A driver exits with the status it has seen.
LEMMA ExitStep ==
  ASSUME SInv, NEW d \in Drivers, NEW x, tool[d] = NoTool,
         x = st[d], Exit(d, x), UNCHANGED <<cmd, tool, st, bad>>
  PROVE  SInv'
BY DEF Exit, SInv, Domains, StatusOf, Waits

\* One that gives up has seen none.
LEMMA DiesStep ==
  ASSUME SInv, NEW d \in Drivers, tool[d] = NoTool, st[d] = 0, Dies(d),
         UNCHANGED <<cmd, tool, st, bad>>
  PROVE  SInv'
BY DEF Dies, SInv, Domains, StatusOf, Waits

\* Every step keeps the invariant.
LEMMA NextSInv == SInv /\ [Next]_vars => SInv'
<1> SUFFICES ASSUME SInv, [Next]_vars
             PROVE  SInv'
  OBVIOUS
<1>0. ASSUME UNCHANGED seen PROVE SInv'
  BY <1>0 DEF seen, SInv, Domains, StatusOf
<1>1. ASSUME NEW d \in Drivers, DriverStep(d) PROVE SInv'
  <2>0. StatusOf(d)
    BY DEF SInv
  <2>1. CASE ParseArgs(d)
    <3>1. st[d] = 0 /\ tool[d] = NoTool
      BY <2>0, <2>1 DEF ParseArgs, StatusOf, Waits
    <3>2. CASE Dies(d)
      BY <2>1, <3>1, <3>2, DiesStep DEF ParseArgs
    <3>3. CASE at' = [at EXCEPT ![d] = "input"] /\ UNCHANGED status
      BY <2>1, <3>1, <3>3 DEF ParseArgs, SInv, Domains, StatusOf, Waits
    <3> QED
      BY <2>1, <3>2, <3>3 DEF ParseArgs
  <2>10. CASE NoName(d)
    <3>1. st[d] = 0 /\ tool[d] = NoTool
      BY <2>0, <2>10 DEF NoName, AtInput, Ended, StatusOf, Waits
    <3> QED
      BY <2>10, <3>1, DiesStep DEF NoName
  <2>2. CASE Compile(d)
    <3>1. st[d] = 0
      BY <2>0, <2>2 DEF Compile, AtInput, StatusOf
    <3> QED
      BY <2>2, <3>1, StartStep DEF Compile, Waits
  <2>3. CASE Compiled(d)
    <3>1. CASE Opt(d, "S")
      BY <2>3, <3>1, NextInputStep DEF Compiled, Ended
    <3>2. CASE ~Opt(d, "S")
      BY <2>3, <3>2, StartStep DEF Compiled, Waits
    <3> QED
      BY <3>1, <3>2
  <2>4. CASE Assembled(d)
    BY <2>4, NextInputStep DEF Assembled, Ended
  <2>5. CASE Assemble(d)
    <3>1. st[d] = 0
      BY <2>0, <2>5 DEF Assemble, AtInput, StatusOf
    <3> QED
      BY <2>5, <3>1, StartStep DEF Assemble, Waits
  <2>6. CASE AssembledInput(d)
    BY <2>6, NextInputStep DEF AssembledInput, Ended
  <2>7. CASE PassOn(d)
    <3>1. st[d] = 0 /\ tool[d] = NoTool
      BY <2>0, <2>7 DEF PassOn, AtInput, StatusOf, Waits
    <3> QED
      BY <2>7, <3>1, NextInputStep DEF PassOn
  <2>8. CASE LinkAll(d)
    <3>1. st[d] = 0 /\ tool[d] = NoTool
      BY <2>0, <2>8 DEF LinkAll, StatusOf, Waits
    <3>2. CASE Opt(d, "c") \/ Opt(d, "S")
      BY <2>8, <3>1, <3>2, ExitStep DEF LinkAll
    <3>3. CASE ~(Opt(d, "c") \/ Opt(d, "S"))
      BY <2>8, <3>1, <3>3, StartStep DEF LinkAll, Waits
    <3> QED
      BY <3>2, <3>3
  <2>9. CASE Finish(d)
    BY <2>9, ExitStep DEF Finish, Ended
  <2> QED
    BY <1>1, <2>1, <2>2, <2>3, <2>4, <2>5, <2>6, <2>7, <2>8, <2>9, <2>10 DEF DriverStep
<1>2. ASSUME NEW d \in Drivers, ToolStep(d) PROVE SInv'
  <2>1. CASE ToolReads(d)
    <3> DEFINE f == tool[d].in[Len(tool[d].read) + 1]
    <3>1. tool[d] # NoTool /\ UNCHANGED <<cmd, at, status>>
      BY <2>1 DEF ToolReads
    <3>2. CASE fs[f] = Absent
      <4>1. Ends(d, 1)
        BY <2>1, <3>2 DEF ToolReads
      <4> QED
        BY <3>1, <4>1, EndStep
    <3>3. CASE fs[f] # Absent
      <4> DEFINE read == Append(tool[d].read, IF tool[d].k = "cc1" /\ f = tool[d].out
                                                THEN Empty ELSE fs[f])
      <4>1. tool' = [tool EXCEPT ![d].read = read] /\ UNCHANGED <<st, bad>>
        BY <2>1, <3>3 DEF ToolReads
      <4> HIDE DEF read
      <4>2. DOMAIN tool' = DOMAIN tool /\ \A e \in Drivers : e # d => tool'[e] = tool[e]
        BY <4>1
      <4> QED
        BY <3>1, <4>1, <4>2 DEF SInv, Domains, StatusOf
    <3> QED
      BY <3>2, <3>3
  <2>2. CASE ToolWrites(d)
    BY <2>2, EndStep DEF ToolWrites
  <2>3. CASE ToolFails(d)
    BY <2>3, EndStep DEF ToolFails
  <2> QED
    BY <1>2, <2>1, <2>2, <2>3 DEF ToolStep
<1>3. CASE Done \/ UNCHANGED vars
  BY <1>0, <1>3 DEF Done, vars, own, seen
<1> QED
  BY <1>1, <1>2, <1>3 DEF Next

\* Whatever the drivers are asked to do and however many there are, a failure
\* of cc1, the assembler or the linker stops its driver and becomes its status;
\* a driver that fails of itself, for want of a name, says so too.
THEOREM FailureIsReported == Spec => []StatusHonest
<1> QED
  BY InitSInv, NextSInv, SInvHonest, PTL DEF Spec
-----------------------------------------------------------------------------
(* What a driver is doing *)

Fun ==
  /\ cmd \in Commands /\ at \in [Drivers -> Stages] /\ n \in [Drivers -> Nat]
  /\ s_path \in [Drivers -> Name] /\ o_path \in [Drivers -> Name]
  /\ ld_inputs \in [Drivers -> Seq(Files)] /\ DOMAIN tool = Drivers
  /\ st \in [Drivers -> {0, 1, 127}] /\ status \in [Drivers -> {0, 1, 127}]
  /\ bad \in [Drivers -> SUBSET {1, 127}]
  /\ DOMAIN fs = Files
  /\ users \in [Files -> SUBSET (Drivers \X (1..(MaxInputs + 1)))]

\* A child at work: what it was started for.
Job(d, k, ins, f) ==
  LET t == tool[d]
  IN  /\ t = [k |-> k, in |-> ins, out |-> f, read |-> t.read]
      /\ IsSeq(t.read) /\ Len(t.read) <= Len(ins)
Works(d) ==
  CASE at[d] = "cc1" -> Job(d, "cc1", <<Input(d)>>, s_path[d])
    [] at[d] = "asm" -> Job(d, "as", <<s_path[d]>>, o_path[d])
    [] at[d] = "as"  -> Job(d, "as", <<Input(d)>>, o_path[d])
    [] at[d] = "ld"  -> Job(d, "ld", ld_inputs[d], OutFile(cmd[d]))
    [] OTHER -> FALSE

\* Where the driver is in its command line, and under which names.
Going(d) ==
  LET c == cmd[d]
      last == Len(Inputs(c))
  IN  /\ n[d] \in 1..(last + 1)
      /\ at[d] \notin {"args", "exit", "died"} => ~Rejected(c)
      /\ at[d] = "args" => n[d] = 1
      /\ at[d] \in {"cc1", "asm"} =>
           n[d] <= last /\ Input(d).ext = ".c" /\ s_path[d] \in AsmNames(d)
      /\ at[d] = "asm" => ~Opt(d, "S") /\ o_path[d] \in ObjNames(d)
      /\ at[d] = "as" => n[d] <= last /\ Input(d).ext \in {".s", ".S"} /\ o_path[d] \in AsNames(d)
      /\ at[d] = "ld" => n[d] = last + 1 /\ Linking(c)
      /\ tool[d] # NoTool => Works(d)

CInv == Fun /\ \A d \in Drivers : Going(d)

\* The part of the state that is a driver's own.
Mine(d) == <<at[d], n[d], s_path[d], o_path[d], ld_inputs[d], tool[d], st[d], status[d], bad[d]>>

\* The names a command line brings about are files.
LEMMA NamesAreFiles ==
  ASSUME CInv, NEW d \in Drivers
  PROVE  /\ Inputs(cmd[d]) \in Seq(Files) /\ cmd[d].out \in Files \cup {NoFile}
         /\ cmd[d].out # NoFile => ~Temporary(cmd[d].out)
         /\ OutFile(cmd[d]) \in Files
         /\ n[d] <= Len(Inputs(cmd[d])) => n[d] \in 1..Len(Inputs(cmd[d])) /\ Input(d) \in Files
         /\ \A f \in Files, x \in {".s", ".o"} : f.base \in Bases \cup TmpBases /\ Here(f, x) \in Files
         /\ \A x \in {".s", ".o"} : TmpName(x) \subseteq Files
<1>1. /\ Inputs(cmd[d]) \in Seq(Files) /\ cmd[d].out \in Files \cup {NoFile}
      /\ cmd[d].out # NoFile => ~Temporary(cmd[d].out)
  BY CommandsAssumption DEF CInv, Fun
<1>2. AOut \in Files
  BY FilesAssumption DEF Files, AOut
<1>3. OutFile(cmd[d]) \in Files
  BY <1>1, <1>2 DEF OutFile
<1>4. n[d] <= Len(Inputs(cmd[d])) => n[d] \in 1..Len(Inputs(cmd[d])) /\ Input(d) \in Files
  <2>1. n[d] \in 1..(Len(Inputs(cmd[d])) + 1)
    BY DEF CInv, Going
  <2>2. Len(Inputs(cmd[d])) \in Nat
    BY <1>1
  <2>3. ASSUME NEW s \in Seq(Files), NEW i \in 1..Len(s) PROVE s[i] \in Files
    OBVIOUS
  <2> QED
    BY <1>1, <2>1, <2>2, <2>3 DEF Input
<1>5. \A f \in Files, x \in {".s", ".o"} : f.base \in Bases \cup TmpBases /\ Here(f, x) \in Files
  BY FilesAssumption DEF Files, Here
<1>6. \A x \in {".s", ".o"} : TmpName(x) \subseteq Files
  BY FilesAssumption DEF Files, TmpName
<1> QED
  BY <1>1, <1>3, <1>4, <1>5, <1>6

\* And so are those a step may choose.
LEMMA ChoicesAreFiles ==
  ASSUME CInv, NEW d \in Drivers, n[d] <= Len(Inputs(cmd[d]))
  PROVE  AsmNames(d) \subseteq Files /\ ObjNames(d) \subseteq Files /\ AsNames(d) \subseteq Files
<1>1. /\ cmd[d].out # NoFile => cmd[d].out \in Files
      /\ Here(Input(d), ".s") \in Files /\ Here(Input(d), ".o") \in Files
      /\ TmpName(".s") \subseteq Files /\ TmpName(".o") \subseteq Files
  BY NamesAreFiles
<1> QED
  BY <1>1 DEF AsmNames, ObjNames, AsNames, AsmMade, Out, ObjMade, AsMade, Single

\* A step of one driver or of its child changes nothing of another's.
LEMMA Others ==
  ASSUME Fun, NEW d \in Drivers, DriverStep(d) \/ ToolStep(d)
  PROVE  cmd' = cmd /\ \A e \in Drivers \ {d} : Mine(e)' = Mine(e)
<1>1. CASE ParseArgs(d) \/ NoName(d)
  BY <1>1 DEF ParseArgs, NoName, Dies, Fun, Mine
<1>2. CASE Compile(d)
  BY <1>2 DEF Compile, Start, Fun, Mine
<1>3. CASE Compiled(d)
  BY <1>3 DEF Compiled, NextInput, Start, Fun, Mine
<1>4. CASE Assembled(d)
  BY <1>4 DEF Assembled, Link, NextInput, Fun, Mine
<1>5. CASE Assemble(d)
  BY <1>5 DEF Assemble, Start, Fun, Mine
<1>6. CASE AssembledInput(d)
  BY <1>6 DEF AssembledInput, Link, NextInput, Fun, Mine
<1>7. CASE PassOn(d)
  BY <1>7 DEF PassOn, Link, NextInput, Fun, Mine
<1>8. CASE LinkAll(d)
  BY <1>8 DEF LinkAll, Exit, Start, Fun, Mine
<1>9. CASE Finish(d)
  BY <1>9 DEF Finish, Exit, Fun, Mine
<1>10. CASE ToolReads(d)
  BY <1>10 DEF ToolReads, Ends, Fun, Mine
<1>11. CASE ToolWrites(d)
  BY <1>11 DEF ToolWrites, Ends, Fun, Mine
<1>12. CASE ToolFails(d)
  BY <1>12 DEF ToolFails, Ends, Fun, Mine
<1> QED
  BY <1>1, <1>2, <1>3, <1>4, <1>5, <1>6, <1>7, <1>8, <1>9, <1>10, <1>11, <1>12
     DEF DriverStep, ToolStep

\* A driver whose own part stays goes on as before.
LEMMA GoingKept ==
  ASSUME NEW d \in Drivers, Going(d), cmd' = cmd, Mine(d)' = Mine(d)
  PROVE  Going(d)'
<1>1. /\ at'[d] = at[d] /\ n'[d] = n[d] /\ s_path'[d] = s_path[d] /\ o_path'[d] = o_path[d]
      /\ ld_inputs'[d] = ld_inputs[d] /\ tool'[d] = tool[d] /\ cmd' = cmd
  BY DEF Mine
<1>2. /\ Input(d)' = Input(d) /\ AsmNames(d)' = AsmNames(d) /\ ObjNames(d)' = ObjNames(d)
      /\ AsNames(d)' = AsNames(d) /\ Opt(d, "S")' = Opt(d, "S")
  BY <1>1 DEF Input, AsmNames, ObjNames, AsNames, Opt, AsmMade, Out, ObjMade, AsMade, Single
<1>3. Works(d)' = Works(d)
  BY <1>1, <1>2 DEF Works, Job
<1> QED
  BY <1>1, <1>2, <1>3 DEF Going

\* What is written is a file, on behalf of an input or of the link.
LEMMA WriteType ==
  ASSUME CInv, NEW d \in Drivers, at[d] \notin {"args", "exit", "died"}, NEW f \in Files, NEW x,
         Write(d, f, x)
  PROVE  /\ DOMAIN fs' = Files /\ users' \in [Files -> SUBSET (Drivers \X (1..(MaxInputs + 1)))]
<1>1. ~Rejected(cmd[d]) /\ n[d] \in 1..(Len(Inputs(cmd[d])) + 1)
  BY DEF CInv, Going
<1>2. Len(Inputs(cmd[d])) \in Nat /\ MaxInputs \in Nat
  BY NamesAreFiles, InputsAssumption
<1>3. n[d] \in 1..(MaxInputs + 1)
  BY <1>1, <1>2 DEF Rejected
<1>4. <<d, n[d]>> \in Drivers \X (1..(MaxInputs + 1))
  BY <1>3
<1>5. DOMAIN fs = Files /\ users \in [Files -> SUBSET (Drivers \X (1..(MaxInputs + 1)))]
  BY DEF CInv, Fun
<1> DEFINE p == <<d, n[d]>>
           T == Drivers \X (1..(MaxInputs + 1))
<1> HIDE DEF p, T
<1>6. fs' = [fs EXCEPT ![f] = x] /\ users' = [users EXCEPT ![f] = users[f] \cup {p}]
  BY DEF Write, p
<1>7. users' \in [Files -> SUBSET T] /\ DOMAIN fs' = Files
  BY <1>4, <1>5, <1>6 DEF p, T
<1> QED
  BY <1>7 DEF T

\* A step of one driver keeps the invariant if its own part is kept.
LEMMA StepKeeps ==
  ASSUME CInv, NEW d \in Drivers, DriverStep(d) \/ ToolStep(d), Fun', Going(d)'
  PROVE  CInv'
<1>1. ASSUME NEW e \in Drivers PROVE Going(e)'
  <2>1. CASE e = d
    BY <2>1
  <2>2. CASE e # d
    BY <2>2, Others, GoingKept DEF CInv
  <2> QED
    BY <2>1, <2>2
<1> QED
  BY <1>1 DEF CInv

\* The first one of a driver's inputs.
LEMMA ParseArgsC ==
  ASSUME CInv, NEW d \in Drivers, ParseArgs(d)
  PROVE  CInv'
<1>1. Fun'
  <2>1. at' \in [Drivers -> Stages] /\ status' \in [Drivers -> {0, 1, 127}]
    <3>1. at \in [Drivers -> Stages] /\ status \in [Drivers -> {0, 1, 127}]
      BY DEF CInv, Fun
    <3> QED
      BY <3>1 DEF ParseArgs, Dies, Stages
  <2>2. UNCHANGED <<cmd, n, s_path, o_path, ld_inputs, tool, st, bad, fs, users>>
    BY DEF ParseArgs
  <2> QED
    BY <2>1, <2>2 DEF CInv, Fun
<1>2. Going(d)'
  <2>1. /\ at[d] = "args" /\ tool'[d] = tool[d] /\ n'[d] = n[d] /\ cmd' = cmd
        /\ at'[d] = "died" \/ (at'[d] = "input" /\ ~Rejected(cmd[d]))
    BY DEF ParseArgs, Dies, CInv, Fun
  <2>2. /\ n[d] \in 1..(Len(Inputs(cmd[d])) + 1) /\ tool[d] = NoTool
    BY <2>1 DEF CInv, Going, Works
  <2> QED
    BY <2>1, <2>2 DEF Going
<1> QED
  BY <1>1, <1>2, StepKeeps DEF DriverStep

\* A driver gives up.
LEMMA NoNameC ==
  ASSUME CInv, NEW d \in Drivers, NoName(d)
  PROVE  CInv'
<1>1. UNCHANGED <<cmd, n, s_path, o_path, ld_inputs, tool, st, bad, fs, users>>
  BY DEF NoName
<1>2. at' \in [Drivers -> Stages] /\ status' \in [Drivers -> {0, 1, 127}] /\ at'[d] = "died"
  BY DEF NoName, Dies, CInv, Fun, Stages
<1>3. Fun'
  BY <1>1, <1>2 DEF CInv, Fun
<1>4. tool[d] = NoTool
  BY DEF NoName, AtInput, Ended, CInv, Going, Works
<1>5. Going(d)'
  BY <1>1, <1>2, <1>4 DEF CInv, Going
<1> QED
  BY <1>3, <1>5, StepKeeps DEF DriverStep

\* A child is started, with its names.
LEMMA StartFacts ==
  ASSUME CInv, NEW d \in Drivers, NEW stage \in Waits, NEW k, NEW ins \in Seq(Files), NEW f \in Files,
         Start(d, stage, k, ins, f)
  PROVE  /\ at' \in [Drivers -> Stages] /\ at'[d] = stage /\ DOMAIN tool' = Drivers
         /\ tool'[d] = [k |-> k, in |-> ins, out |-> f, read |-> <<>>]
         /\ tool'[d].read = <<>>
         /\ Len(<<>>) <= Len(ins) /\ IsSeq(<<>>)
<1>1. at' \in [Drivers -> Stages] /\ at'[d] = stage
  BY DEF Start, CInv, Fun, Stages, Waits
<1>2. DOMAIN tool' = Drivers /\ tool'[d] = [k |-> k, in |-> ins, out |-> f, read |-> <<>>]
  BY DEF Start, CInv, Fun
<1>3. Len(<<>>) <= Len(ins) /\ IsSeq(<<>>)
  <2>1. Len(ins) \in Nat /\ Len(<<>>) = 0 /\ <<>> \in Seq({})
    OBVIOUS
  <2> QED
    BY <2>1 DEF IsSeq
<1> QED
  BY <1>1, <1>2, <1>3

\* cc1 is started on a .c input.
LEMMA CompileC ==
  ASSUME CInv, NEW d \in Drivers, Compile(d)
  PROVE  CInv'
<1>1. PICK s \in AsmNames(d) : /\ s_path' = [s_path EXCEPT ![d] = s]
                               /\ Start(d, "cc1", "cc1", <<Input(d)>>, s)
  BY DEF Compile
<1>2. /\ at[d] = "input" /\ n[d] <= Len(Inputs(cmd[d])) /\ Input(d).ext = ".c"
      /\ UNCHANGED <<cmd, n, o_path, ld_inputs, st, status, bad, fs, users>>
  BY DEF Compile, AtInput
<1>3. s \in Files /\ Input(d) \in Files
  BY <1>1, <1>2, NamesAreFiles, ChoicesAreFiles
<1>4. /\ at' \in [Drivers -> Stages] /\ at'[d] = "cc1" /\ DOMAIN tool' = Drivers
      /\ tool'[d] = [k |-> "cc1", in |-> <<Input(d)>>, out |-> s, read |-> <<>>]
      /\ tool'[d].read = <<>> /\ Len(<<>>) <= Len(<<Input(d)>>) /\ IsSeq(<<>>)
  <2> DEFINE ins == <<Input(d)>>
  <2>1. ins \in Seq(Files) /\ "cc1" \in Waits /\ Start(d, "cc1", "cc1", ins, s)
    BY <1>1, <1>3 DEF Waits
  <2> HIDE DEF ins
  <2>2. /\ at' \in [Drivers -> Stages] /\ at'[d] = "cc1" /\ DOMAIN tool' = Drivers
        /\ tool'[d] = [k |-> "cc1", in |-> ins, out |-> s, read |-> <<>>]
        /\ tool'[d].read = <<>> /\ Len(<<>>) <= Len(ins) /\ IsSeq(<<>>)
    BY <1>3, <2>1, StartFacts
  <2> QED
    BY <2>2 DEF ins
<1>5. s_path' \in [Drivers -> Name] /\ s_path'[d] = s
  BY <1>1, <1>3 DEF CInv, Fun, Name
<1>6. Fun'
  BY <1>2, <1>4, <1>5 DEF CInv, Fun
<1>7. /\ Input(d)' = Input(d) /\ AsmNames(d)' = AsmNames(d)
  BY <1>2 DEF Input, AsmNames, Opt, AsmMade, Out
<1>8. Works(d)'
  BY <1>4, <1>5, <1>7 DEF Works, Job
<1>9. Going(d)'
  <2>1. n[d] \in 1..(Len(Inputs(cmd[d])) + 1) /\ ~Rejected(cmd[d])
    BY <1>2 DEF CInv, Going
  <2> QED
    BY <1>1, <1>2, <1>4, <1>5, <1>7, <1>8, <2>1 DEF Going
<1> QED
  BY <1>6, <1>9, StepKeeps DEF DriverStep

\* To the next input.
LEMMA NextInputC ==
  ASSUME CInv, NEW d \in Drivers, n[d] <= Len(Inputs(cmd[d])), at[d] \notin {"args", "exit", "died"},
         tool[d] = NoTool, NextInput(d), UNCHANGED <<cmd, tool>>
  PROVE  Going(d)' /\ at' \in [Drivers -> Stages] /\ n' \in [Drivers -> Nat]
         /\ at'[d] = "input" /\ n'[d] = n[d] + 1
<1>1. /\ at' \in [Drivers -> Stages] /\ n' \in [Drivers -> Nat]
      /\ at'[d] = "input" /\ n'[d] = n[d] + 1
  BY DEF NextInput, CInv, Fun, Stages
<1>2. n[d] \in 1..(Len(Inputs(cmd[d])) + 1) /\ ~Rejected(cmd[d])
  BY DEF CInv, Going
<1>3. Len(Inputs(cmd[d])) \in Nat
  BY NamesAreFiles
<1>4. n[d] + 1 \in 1..(Len(Inputs(cmd[d])) + 1)
  BY <1>2, <1>3
<1> QED
  BY <1>1, <1>2, <1>4 DEF Going

\* One more thing to link.
LEMMA LinkType ==
  ASSUME Fun, NEW d \in Drivers, NEW f \in Files, Link(d, f)
  PROVE  ld_inputs' \in [Drivers -> Seq(Files)] /\ ld_inputs'[d] = Append(ld_inputs[d], f)
<1>1. ld_inputs \in [Drivers -> Seq(Files)]
  BY DEF Fun
<1>2. Append(ld_inputs[d], f) \in Seq(Files)
  BY <1>1
<1> DEFINE x == Append(ld_inputs[d], f)
<1>3. ld_inputs' = [ld_inputs EXCEPT ![d] = x]
  BY DEF Link
<1> HIDE DEF x
<1>4. ld_inputs' \in [Drivers -> Seq(Files)] /\ ld_inputs'[d] = x
  BY <1>1, <1>2, <1>3 DEF x
<1> QED
  BY <1>4 DEF x

\* cc1 has compiled: the assembler is started, or the next input is at hand.
LEMMA CompiledC ==
  ASSUME CInv, NEW d \in Drivers, Compiled(d)
  PROVE  CInv'
<1>1. /\ at[d] = "cc1" /\ tool[d] = NoTool /\ n[d] <= Len(Inputs(cmd[d])) /\ Input(d).ext = ".c"
      /\ s_path[d] \in AsmNames(d) /\ ~Rejected(cmd[d]) /\ n[d] \in 1..(Len(Inputs(cmd[d])) + 1)
      /\ UNCHANGED <<cmd, s_path, ld_inputs, st, status, bad, fs, users>>
  BY DEF Compiled, Ended, CInv, Going
<1>2. CASE Opt(d, "S")
  <2>1. NextInput(d) /\ UNCHANGED <<o_path, tool>>
    BY <1>2 DEF Compiled
  <2>2. Going(d)' /\ at' \in [Drivers -> Stages] /\ n' \in [Drivers -> Nat]
    BY <1>1, <2>1, NextInputC
  <2>3. Fun'
    BY <1>1, <2>1, <2>2 DEF CInv, Fun
  <2> QED
    BY <2>2, <2>3, StepKeeps DEF DriverStep
<1>3. CASE ~Opt(d, "S")
  <2>1. PICK o \in ObjNames(d) : /\ o_path' = [o_path EXCEPT ![d] = o]
                                 /\ Start(d, "asm", "as", <<s_path[d]>>, o) /\ n' = n
    BY <1>3 DEF Compiled
  <2>2. o \in Files /\ s_path[d] \in Files
    BY <1>1, <2>1, ChoicesAreFiles
  <2>3. /\ at' \in [Drivers -> Stages] /\ at'[d] = "asm" /\ DOMAIN tool' = Drivers
        /\ tool'[d] = [k |-> "as", in |-> <<s_path[d]>>, out |-> o, read |-> <<>>]
        /\ tool'[d].read = <<>> /\ Len(<<>>) <= Len(<<s_path[d]>>) /\ IsSeq(<<>>)
    <3> DEFINE ins == <<s_path[d]>>
    <3>1. ins \in Seq(Files) /\ "asm" \in Waits /\ Start(d, "asm", "as", ins, o)
      BY <2>1, <2>2 DEF Waits
    <3> HIDE DEF ins
    <3>2. /\ at' \in [Drivers -> Stages] /\ at'[d] = "asm" /\ DOMAIN tool' = Drivers
          /\ tool'[d] = [k |-> "as", in |-> ins, out |-> o, read |-> <<>>]
          /\ tool'[d].read = <<>> /\ Len(<<>>) <= Len(ins) /\ IsSeq(<<>>)
      BY <2>2, <3>1, StartFacts
    <3> QED
      BY <3>2 DEF ins
  <2>4. o_path' \in [Drivers -> Name] /\ o_path'[d] = o
    BY <2>1, <2>2 DEF CInv, Fun, Name
  <2>5. Fun'
    BY <1>1, <2>1, <2>3, <2>4 DEF CInv, Fun
  <2>6. /\ Input(d)' = Input(d) /\ AsmNames(d)' = AsmNames(d) /\ ObjNames(d)' = ObjNames(d)
        /\ Opt(d, "S")' = Opt(d, "S") /\ s_path'[d] = s_path[d] /\ cmd' = cmd /\ n'[d] = n[d]
    BY <1>1, <2>1 DEF Input, AsmNames, ObjNames, Opt, AsmMade, Out, ObjMade
  <2>7. Works(d)'
    BY <2>3, <2>4, <2>6 DEF Works, Job
  <2>8. Going(d)'
    BY <1>1, <1>3, <2>1, <2>3, <2>4, <2>6, <2>7 DEF Going
  <2> QED
    BY <2>5, <2>8, StepKeeps DEF DriverStep
<1> QED
  BY <1>2, <1>3

\* The assembler has made an object of what cc1 made.
LEMMA AssembledC ==
  ASSUME CInv, NEW d \in Drivers, Assembled(d)
  PROVE  CInv'
<1>1. /\ at[d] = "asm" /\ tool[d] = NoTool /\ n[d] <= Len(Inputs(cmd[d]))
      /\ s_path[d] \in AsmNames(d) /\ o_path[d] \in ObjNames(d)
  BY DEF Assembled, Ended, CInv, Going
<1>2. /\ NextInput(d) /\ UNCHANGED <<cmd, s_path, o_path, tool, st, status, bad>>
      /\ Link(d, o_path[d]) \/ ld_inputs' = ld_inputs
      /\ Write(d, s_path[d], Absent) \/ UNCHANGED <<fs, users>>
  BY DEF Assembled
<1>3. s_path[d] \in Files /\ o_path[d] \in Files
  BY <1>1, ChoicesAreFiles
<1>4. Going(d)' /\ at' \in [Drivers -> Stages] /\ n' \in [Drivers -> Nat]
  BY <1>1, <1>2, NextInputC
<1>5. ld_inputs' \in [Drivers -> Seq(Files)]
  BY <1>2, <1>3, LinkType DEF CInv, Fun
<1>6. DOMAIN fs' = Files /\ users' \in [Files -> SUBSET (Drivers \X (1..(MaxInputs + 1)))]
  BY <1>1, <1>2, <1>3, WriteType DEF CInv, Fun
<1>7. Fun'
  BY <1>2, <1>4, <1>5, <1>6 DEF CInv, Fun
<1> QED
  BY <1>4, <1>7, StepKeeps DEF DriverStep

\* The assembler is started on a .s input.
LEMMA AssembleC ==
  ASSUME CInv, NEW d \in Drivers, Assemble(d)
  PROVE  CInv'
<1>1. PICK o \in AsNames(d) : /\ o_path' = [o_path EXCEPT ![d] = o]
                              /\ Start(d, "as", "as", <<Input(d)>>, o)
  BY DEF Assemble, AsNames, AsMade, Single
<1>2. /\ at[d] = "input" /\ n[d] <= Len(Inputs(cmd[d])) /\ Input(d).ext \in {".s", ".S"}
      /\ UNCHANGED <<cmd, n, s_path, ld_inputs, st, status, bad, fs, users>>
  BY DEF Assemble, AtInput
<1>3. o \in Files /\ Input(d) \in Files
  BY <1>1, <1>2, NamesAreFiles, ChoicesAreFiles
<1>4. /\ at' \in [Drivers -> Stages] /\ at'[d] = "as" /\ DOMAIN tool' = Drivers
      /\ tool'[d] = [k |-> "as", in |-> <<Input(d)>>, out |-> o, read |-> <<>>]
      /\ tool'[d].read = <<>> /\ Len(<<>>) <= Len(<<Input(d)>>) /\ IsSeq(<<>>)
  <2> DEFINE ins == <<Input(d)>>
  <2>1. ins \in Seq(Files) /\ "as" \in Waits /\ Start(d, "as", "as", ins, o)
    BY <1>1, <1>3 DEF Waits
  <2> HIDE DEF ins
  <2>2. /\ at' \in [Drivers -> Stages] /\ at'[d] = "as" /\ DOMAIN tool' = Drivers
        /\ tool'[d] = [k |-> "as", in |-> ins, out |-> o, read |-> <<>>]
        /\ tool'[d].read = <<>> /\ Len(<<>>) <= Len(ins) /\ IsSeq(<<>>)
    BY <1>3, <2>1, StartFacts
  <2> QED
    BY <2>2 DEF ins
<1>5. o_path' \in [Drivers -> Name] /\ o_path'[d] = o
  BY <1>1, <1>3 DEF CInv, Fun, Name
<1>6. Fun'
  BY <1>2, <1>4, <1>5 DEF CInv, Fun
<1>7. Input(d)' = Input(d) /\ AsNames(d)' = AsNames(d) /\ cmd' = cmd /\ n'[d] = n[d]
  BY <1>2 DEF Input, AsNames, Opt, AsMade, Single
<1>8. Works(d)'
  BY <1>4, <1>5, <1>7 DEF Works, Job
<1>9. Going(d)'
  <2>1. n[d] \in 1..(Len(Inputs(cmd[d])) + 1) /\ ~Rejected(cmd[d])
    BY <1>2 DEF CInv, Going
  <2> QED
    BY <1>1, <1>2, <1>4, <1>5, <1>7, <1>8, <2>1 DEF Going
<1> QED
  BY <1>6, <1>9, StepKeeps DEF DriverStep

\* Its object, and inputs that are passed on.
LEMMA LinkedC ==
  ASSUME CInv, NEW d \in Drivers, AssembledInput(d) \/ PassOn(d)
  PROVE  CInv'
<1>1. /\ at[d] \in {"as", "input"} /\ n[d] <= Len(Inputs(cmd[d])) /\ tool[d] = NoTool
      /\ NextInput(d) /\ UNCHANGED <<cmd, s_path, o_path, tool, st, status, bad, fs, users>>
      /\ \/ ld_inputs' = ld_inputs
         \/ at[d] = "as" /\ Link(d, o_path[d])
         \/ Link(d, Input(d))
  <2>1. CASE AssembledInput(d)
    BY <2>1 DEF AssembledInput, Ended, CInv, Going
  <2>2. CASE PassOn(d)
    <3>1. at[d] = "input"
      BY <2>2 DEF PassOn, AtInput
    <3>2. tool[d] = NoTool
      BY <3>1 DEF CInv, Going, Works
    <3> QED
      BY <2>2, <3>1, <3>2 DEF PassOn, AtInput
  <2> QED
    BY <2>1, <2>2
<1>2. Input(d) \in Files /\ (at[d] = "as" => o_path[d] \in Files)
  BY <1>1, NamesAreFiles, ChoicesAreFiles DEF CInv, Going
<1>3. Going(d)' /\ at' \in [Drivers -> Stages] /\ n' \in [Drivers -> Nat]
  BY <1>1, NextInputC
<1>4. ld_inputs' \in [Drivers -> Seq(Files)]
  BY <1>1, <1>2, LinkType DEF CInv, Fun
<1>5. Fun'
  BY <1>1, <1>3, <1>4 DEF CInv, Fun
<1> QED
  BY <1>3, <1>5, StepKeeps DEF DriverStep

\* The linker is started, or there is nothing to link.
LEMMA LinkAllC ==
  ASSUME CInv, NEW d \in Drivers, LinkAll(d)
  PROVE  CInv'
<1>1. /\ at[d] = "input" /\ n[d] > Len(Inputs(cmd[d]))
      /\ UNCHANGED <<cmd, n, s_path, o_path, ld_inputs, st, bad, fs, users>>
  BY DEF LinkAll
<1>2. /\ n[d] = Len(Inputs(cmd[d])) + 1 /\ ~Rejected(cmd[d]) /\ tool[d] = NoTool
      /\ n[d] \in 1..(Len(Inputs(cmd[d])) + 1)
  <2>1. n[d] \in 1..(Len(Inputs(cmd[d])) + 1) /\ Len(Inputs(cmd[d])) \in Nat /\ ~Rejected(cmd[d])
    BY <1>1, NamesAreFiles DEF CInv, Going
  <2>2. tool[d] = NoTool
    BY <1>1 DEF CInv, Going, Works
  <2> QED
    BY <1>1, <2>1, <2>2
<1>3. CASE Opt(d, "c") \/ Opt(d, "S")
  <2>1. Exit(d, 0) /\ tool' = tool
    BY <1>3 DEF LinkAll
  <2>2. /\ at' \in [Drivers -> Stages] /\ at'[d] = "exit" /\ status' \in [Drivers -> {0, 1, 127}]
    BY <2>1 DEF Exit, CInv, Fun, Stages
  <2>3. Fun'
    BY <1>1, <2>1, <2>2 DEF CInv, Fun
  <2>4. Going(d)'
    BY <1>1, <1>2, <2>1, <2>2 DEF Going
  <2> QED
    BY <2>3, <2>4, StepKeeps DEF DriverStep
<1>4. CASE ~(Opt(d, "c") \/ Opt(d, "S"))
  <2>1. Start(d, "ld", "ld", ld_inputs[d], OutFile(cmd[d])) /\ status' = status
    BY <1>4 DEF LinkAll
  <2>2. ld_inputs[d] \in Seq(Files) /\ OutFile(cmd[d]) \in Files /\ "ld" \in Waits
    BY NamesAreFiles DEF CInv, Fun, Waits
  <2>3. /\ at' \in [Drivers -> Stages] /\ at'[d] = "ld" /\ DOMAIN tool' = Drivers
        /\ tool'[d] = [k |-> "ld", in |-> ld_inputs[d], out |-> OutFile(cmd[d]), read |-> <<>>]
        /\ tool'[d].read = <<>> /\ Len(<<>>) <= Len(ld_inputs[d]) /\ IsSeq(<<>>)
    BY <2>1, <2>2, StartFacts
  <2>4. Fun'
    BY <1>1, <2>1, <2>3 DEF CInv, Fun
  <2>5. Works(d)'
    BY <1>1, <2>3 DEF Works, Job
  <2>6. Linking(cmd[d])
    BY <1>4 DEF Opt, Linking
  <2>7. Going(d)'
    BY <1>1, <1>2, <2>1, <2>3, <2>5, <2>6 DEF Going
  <2> QED
    BY <2>4, <2>7, StepKeeps DEF DriverStep
<1> QED
  BY <1>3, <1>4

\* The driver ends with its child.
LEMMA FinishC ==
  ASSUME CInv, NEW d \in Drivers, Finish(d)
  PROVE  CInv'
<1>1. /\ tool[d] = NoTool /\ Exit(d, st[d])
      /\ UNCHANGED <<cmd, n, s_path, o_path, ld_inputs, tool, st, bad, fs, users>>
  BY DEF Finish, Ended
<1>2. /\ at' \in [Drivers -> Stages] /\ at'[d] = "exit" /\ status' \in [Drivers -> {0, 1, 127}]
  BY <1>1 DEF Exit, CInv, Fun, Stages
<1>3. Fun'
  BY <1>1, <1>2 DEF CInv, Fun
<1>4. Going(d)'
  BY <1>1, <1>2 DEF CInv, Going
<1> QED
  BY <1>3, <1>4, StepKeeps DEF DriverStep

\* What a child was started with is what it has.
LEMMA JobFacts ==
  ASSUME NEW d, NEW k, NEW ins \in Seq(Files), NEW f \in Files, Job(d, k, ins, f)
  PROVE  /\ tool[d].k = k /\ tool[d].in = ins /\ tool[d].out = f
         /\ tool[d].in \in Seq(Files) /\ tool[d].out \in Files
         /\ IsSeq(tool[d].read) /\ Len(tool[d].read) <= Len(tool[d].in)
         /\ tool[d] = [k |-> tool[d].k, in |-> tool[d].in, out |-> tool[d].out, read |-> tool[d].read]
<1>1. tool[d] = [k |-> k, in |-> ins, out |-> f, read |-> tool[d].read]
  BY DEF Job
<1>2. tool[d].k = k /\ tool[d].in = ins /\ tool[d].out = f
  BY <1>1
<1>3. IsSeq(tool[d].read) /\ Len(tool[d].read) <= Len(ins)
  BY DEF Job
<1> QED
  BY <1>1, <1>2, <1>3

\* A child at work was started at this stage, for a file.
LEMMA WorkFacts ==
  ASSUME CInv, NEW d \in Drivers, tool[d] # NoTool
  PROVE  /\ at[d] \in Waits /\ tool[d].in \in Seq(Files) /\ tool[d].out \in Files
         /\ IsSeq(tool[d].read) /\ Len(tool[d].read) <= Len(tool[d].in)
         /\ tool[d] = [k |-> tool[d].k, in |-> tool[d].in, out |-> tool[d].out, read |-> tool[d].read]
         /\ tool[d].k \in {"cc1", "as", "ld"}
         /\ tool[d].out = IF at[d] = "cc1" THEN s_path[d]
                          ELSE IF at[d] = "ld" THEN OutFile(cmd[d]) ELSE o_path[d]
         /\ tool[d].k = IF at[d] = "cc1" THEN "cc1" ELSE IF at[d] = "ld" THEN "ld" ELSE "as"
<1>1. Works(d) /\ Going(d)
  BY DEF CInv, Going
<1>2. at[d] \in Waits
  BY <1>1 DEF Works, Waits
<1>3. CASE at[d] = "cc1"
  <2> DEFINE ins == <<Input(d)>>
  <2>1. Job(d, "cc1", ins, s_path[d]) /\ s_path[d] \in AsmNames(d) /\ n[d] <= Len(Inputs(cmd[d]))
    BY <1>1, <1>3 DEF Works, Going
  <2>2. s_path[d] \in Files /\ ins \in Seq(Files)
    BY <2>1, ChoicesAreFiles, NamesAreFiles
  <2> HIDE DEF ins
  <2> QED
    BY <1>2, <1>3, <2>1, <2>2, JobFacts
<1>4. CASE at[d] = "asm"
  <2> DEFINE ins == <<s_path[d]>>
  <2>1. Job(d, "as", ins, o_path[d]) /\ s_path[d] \in AsmNames(d)
        /\ o_path[d] \in ObjNames(d) /\ n[d] <= Len(Inputs(cmd[d]))
    BY <1>1, <1>4 DEF Works, Going
  <2>2. o_path[d] \in Files /\ ins \in Seq(Files)
    BY <2>1, ChoicesAreFiles
  <2> HIDE DEF ins
  <2> QED
    BY <1>2, <1>4, <2>1, <2>2, JobFacts
<1>5. CASE at[d] = "as"
  <2> DEFINE ins == <<Input(d)>>
  <2>1. Job(d, "as", ins, o_path[d]) /\ o_path[d] \in AsNames(d) /\ n[d] <= Len(Inputs(cmd[d]))
    BY <1>1, <1>5 DEF Works, Going
  <2>2. o_path[d] \in Files /\ ins \in Seq(Files)
    BY <2>1, ChoicesAreFiles, NamesAreFiles
  <2> HIDE DEF ins
  <2>3. /\ tool[d].k = "as" /\ tool[d].out = o_path[d]
        /\ tool[d].in \in Seq(Files) /\ tool[d].out \in Files
        /\ IsSeq(tool[d].read) /\ Len(tool[d].read) <= Len(tool[d].in)
        /\ tool[d] = [k |-> tool[d].k, in |-> tool[d].in, out |-> tool[d].out, read |-> tool[d].read]
    BY <2>1, <2>2, JobFacts
  <2> QED
    BY <1>2, <1>5, <2>3
<1>6. CASE at[d] = "ld"
  <2> DEFINE ins == ld_inputs[d]
             o == OutFile(cmd[d])
  <2>1. Job(d, "ld", ins, o)
    BY <1>1, <1>6 DEF Works
  <2>2. o \in Files /\ ins \in Seq(Files)
    BY NamesAreFiles DEF CInv, Fun
  <2> HIDE DEF ins, o
  <2>3. /\ tool[d].k = "ld" /\ tool[d].out = o
        /\ tool[d].in \in Seq(Files) /\ tool[d].out \in Files
        /\ IsSeq(tool[d].read) /\ Len(tool[d].read) <= Len(tool[d].in)
        /\ tool[d] = [k |-> tool[d].k, in |-> tool[d].in, out |-> tool[d].out, read |-> tool[d].read]
    BY <2>1, <2>2, JobFacts
  <2> QED
    BY <1>2, <1>6, <2>3 DEF o
<1> QED
  BY <1>2, <1>3, <1>4, <1>5, <1>6 DEF Waits

\* A child ends: its driver stays where it is.
LEMMA EndsC ==
  ASSUME CInv, NEW d \in Drivers, NEW x \in {0, 1, 127}, Ends(d, x), ToolStep(d),
         UNCHANGED <<cmd, at, n, s_path, o_path, ld_inputs, status>>,
         UNCHANGED <<fs, users>> \/ (at[d] \in Waits /\ \E f \in Files : \E y : Write(d, f, y))
  PROVE  CInv'
<1>1. /\ st' \in [Drivers -> {0, 1, 127}] /\ bad' \in [Drivers -> SUBSET {1, 127}]
      /\ DOMAIN tool' = Drivers /\ tool'[d] = NoTool
  BY DEF Ends, CInv, Fun
<1>2. DOMAIN fs' = Files /\ users' \in [Files -> SUBSET (Drivers \X (1..(MaxInputs + 1)))]
  BY WriteType DEF CInv, Fun, Waits
<1>3. Fun'
  BY <1>1, <1>2 DEF CInv, Fun
<1>4. Going(d)'
  <2>1. /\ Input(d)' = Input(d) /\ AsmNames(d)' = AsmNames(d) /\ ObjNames(d)' = ObjNames(d)
        /\ AsNames(d)' = AsNames(d) /\ Opt(d, "S")' = Opt(d, "S")
    BY DEF Input, AsmNames, ObjNames, AsNames, Opt, AsmMade, Out, ObjMade, AsMade, Single
  <2>2. Going(d)
    BY DEF CInv
  <2> QED
    BY <1>1, <2>1, <2>2 DEF Going
<1> QED
  BY <1>3, <1>4, StepKeeps

\* A child reads.
LEMMA ToolReadsC ==
  ASSUME CInv, NEW d \in Drivers, ToolReads(d)
  PROVE  CInv'
<1> DEFINE t == tool[d]
           f == t.in[Len(t.read) + 1]
           x == IF t.k = "cc1" /\ f = t.out THEN Empty ELSE fs[f]
<1>1. /\ t # NoTool /\ Len(t.read) < Len(t.in)
      /\ UNCHANGED <<cmd, at, n, s_path, o_path, ld_inputs, status>>
  BY DEF ToolReads
<1>2. CASE fs[f] = Absent
  <2>1. Ends(d, 1) /\ UNCHANGED <<fs, users>>
    BY <1>2 DEF ToolReads
  <2> QED
    BY <1>1, <2>1, EndsC DEF ToolStep
<1>3. CASE fs[f] # Absent
  <2>1. /\ tool' = [tool EXCEPT ![d].read = Append(t.read, x)] /\ UNCHANGED <<st, bad>>
        /\ UNCHANGED <<fs, users>> \/ Write(d, t.out, Empty)
    BY <1>3 DEF ToolReads
  <2>2. /\ at[d] \in Waits /\ t.out \in Files /\ IsSeq(t.read) /\ t.in \in Seq(Files)
        /\ t = [k |-> t.k, in |-> t.in, out |-> t.out, read |-> t.read] /\ Works(d) /\ Going(d)
    BY <1>1, WorkFacts DEF CInv, Going
  <2>3. DOMAIN fs' = Files /\ users' \in [Files -> SUBSET (Drivers \X (1..(MaxInputs + 1)))]
    BY <2>1, <2>2, WriteType DEF CInv, Fun, Waits
  <2> DEFINE r == Append(t.read, x)
  <2>4. IsSeq(r) /\ Len(r) <= Len(t.in)
    <3>1. Len(t.read) \in Nat /\ Len(t.in) \in Nat
      BY <2>2, SeqFacts
    <3>2. IsSeq(r) /\ Len(r) = Len(t.read) + 1
      <4> HIDE DEF x
      <4> QED
        BY <2>2, AppendFacts
    <3> QED
      BY <1>1, <3>1, <3>2
  <2>5. tool' = [tool EXCEPT ![d].read = r]
    BY <2>1
  <2> HIDE DEF r, x, f
  <2>6. /\ DOMAIN tool' = Drivers
        /\ tool'[d] = [k |-> t.k, in |-> t.in, out |-> t.out, read |-> r]
    BY <2>2, <2>5 DEF CInv, Fun
  <2>7. Fun'
    BY <1>1, <2>1, <2>3, <2>6 DEF CInv, Fun
  <2>8. /\ Input(d)' = Input(d) /\ AsmNames(d)' = AsmNames(d) /\ ObjNames(d)' = ObjNames(d)
        /\ AsNames(d)' = AsNames(d) /\ Opt(d, "S")' = Opt(d, "S")
    BY <1>1 DEF Input, AsmNames, ObjNames, AsNames, Opt, AsmMade, Out, ObjMade, AsMade, Single
  <2>9. Works(d)'
    <3>1. ASSUME NEW k, NEW ins, NEW o, Job(d, k, ins, o) PROVE Job(d, k, ins, o)'
      BY <2>2, <2>4, <2>6, <3>1 DEF Job
    <3> QED
      BY <1>1, <2>2, <2>8, <3>1 DEF Works
  <2>10. Going(d)'
    BY <1>1, <2>2, <2>8, <2>9 DEF Going
  <2> QED
    BY <2>7, <2>10, StepKeeps DEF ToolStep
<1> QED
  BY <1>2, <1>3

\* A child ends well, or not.
LEMMA ToolEndsC ==
  ASSUME CInv, NEW d \in Drivers, ToolWrites(d) \/ ToolFails(d)
  PROVE  CInv'
<1>1. tool[d] # NoTool
  BY DEF ToolWrites, ToolFails
<1>2. at[d] \in Waits /\ tool[d].out \in Files
  BY <1>1, WorkFacts
<1>3. CASE ToolWrites(d)
  BY <1>2, <1>3, EndsC DEF ToolWrites, ToolStep
<1>4. CASE ToolFails(d)
  <2>1. PICK x \in {1, 127} : Ends(d, x)
    BY <1>4 DEF ToolFails
  <2>2. /\ UNCHANGED <<fs, users>> \/ \E y : Write(d, tool[d].out, y)
        /\ UNCHANGED <<cmd, at, n, s_path, o_path, ld_inputs, status>>
    BY <1>4 DEF ToolFails
  <2> QED
    BY <1>2, <1>4, <2>1, <2>2, EndsC DEF ToolStep
<1> QED
  BY <1>3, <1>4

\* Every step keeps the control invariant.
LEMMA NextC == CInv /\ [Next]_vars => CInv'
<1> SUFFICES ASSUME CInv, [Next]_vars PROVE CInv'
  OBVIOUS
<1>1. ASSUME NEW d \in Drivers, DriverStep(d) PROVE CInv'
  BY <1>1, ParseArgsC, NoNameC, CompileC, CompiledC, AssembledC, AssembleC, LinkedC, LinkAllC,
     FinishC
     DEF DriverStep
<1>2. ASSUME NEW d \in Drivers, ToolStep(d) PROVE CInv'
  BY <1>2, ToolReadsC, ToolEndsC DEF ToolStep
<1>3. CASE Done \/ UNCHANGED vars
  <2>1. UNCHANGED vars
    BY <1>3 DEF Done
  <2>2. Fun'
    BY <2>1 DEF vars, own, CInv, Fun
  <2>3. ASSUME NEW d \in Drivers PROVE Going(d)'
    <3>1. cmd' = cmd /\ Mine(d)' = Mine(d)
      BY <2>1 DEF vars, own, Mine
    <3> QED
      BY <3>1, GoingKept DEF CInv
  <2> QED
    BY <2>2, <2>3 DEF CInv
<1> QED
  BY <1>1, <1>2, <1>3 DEF Next

\* Nobody has looked at its command line yet.
LEMMA InitC == Init => CInv
<1> SUFFICES ASSUME Init PROVE CInv
  OBVIOUS
<1>1. Fun
  BY DEF Init, Fun, Stages, Name
<1>2. ASSUME NEW d \in Drivers PROVE Going(d)
  <2>1. Inputs(cmd[d]) \in Seq(Files)
    BY CommandsAssumption DEF Init
  <2>2. Len(Inputs(cmd[d])) \in Nat
    BY <2>1
  <2>3. n[d] = 1 /\ at[d] = "args" /\ tool[d] = NoTool
    BY DEF Init
  <2> QED
    BY <2>2, <2>3 DEF Going
<1> QED
  BY <1>1, <1>2 DEF CInv

\* So it always holds.
LEMMA Control == Spec => []CInv
BY InitC, NextC, PTL DEF Spec

\* What is known of a driver gives each part its type.
LEMMA ControlType == CInv => TypeOK
<1> SUFFICES ASSUME CInv PROVE TypeOK
  OBVIOUS
<1>1. ASSUME NEW d \in Drivers
      PROVE  /\ n[d] \in 1..(Len(Inputs(cmd[d])) + 1)
             /\ ld_inputs[d] \in Seq(Files)
             /\ tool[d].k \in {"none", "cc1", "as", "ld"}
             /\ tool[d].in \in Seq(Files) /\ tool[d].out \in Name
             /\ Len(tool[d].read) <= Len(tool[d].in)
  <2>1. CASE tool[d] # NoTool
    BY <2>1, WorkFacts DEF CInv, Going, Fun, Name
  <2>2. CASE tool[d] = NoTool
    <3>1. /\ tool[d].k = "none" /\ tool[d].in = <<>> /\ tool[d].out = NoFile /\ tool[d].read = <<>>
      BY <2>2 DEF NoTool
    <3>2. <<>> \in Seq(Files) /\ Len(<<>>) <= Len(<<>>)
      OBVIOUS
    <3> QED
      BY <3>1, <3>2 DEF CInv, Going, Fun, Name
  <2> QED
    BY <2>1, <2>2
<1> QED
  BY <1>1 DEF CInv, Fun, TypeOK

\* For any drivers, command lines and files: what the drivers keep has its type,
\* a driver's position is one of its inputs or just after them, and each child
\* has the files it was started for.
THEOREM TypeCorrect == Spec => []TypeOK
BY Control, ControlType, PTL

-----------------------------------------------------------------------------
(* What is written *)

\* A file that a driver may write on the way.
May(d, f) == f.dir = "tmp" \/ f \in Stands(cmd[d])

\* The names a driver chooses are among them, and so is its program.
LEMMA NamesMay ==
  ASSUME CInv, NEW d \in Drivers, n[d] <= Len(Inputs(cmd[d]))
  PROVE  \A f \in AsmNames(d) \cup ObjNames(d) \cup AsNames(d) : May(d, f)
<1>1. n[d] \in DOMAIN Inputs(cmd[d]) /\ Input(d) = Inputs(cmd[d])[n[d]]
  <2>1. n[d] \in 1..Len(Inputs(cmd[d])) /\ Inputs(cmd[d]) \in Seq(Files)
    BY NamesAreFiles
  <2> QED
    BY <2>1 DEF Input
<1>2. \A x \in {".s", ".o"} : \A f \in TmpName(x) : f.dir = "tmp"
  BY DEF TmpName
<1>3. "S" \in cmd[d].opts \/ "save" \in cmd[d].opts => Here(Input(d), ".s") \in Stands(cmd[d])
  BY <1>1 DEF Stands
<1>4. "c" \in cmd[d].opts \/ "save" \in cmd[d].opts => Here(Input(d), ".o") \in Stands(cmd[d])
  BY <1>1 DEF Stands
<1>5. cmd[d].out \in Stands(cmd[d])
  BY DEF Stands
<1>6. \A f \in AsmNames(d) : May(d, f)
  BY <1>2, <1>3, <1>5 DEF AsmNames, Opt, May, AsmMade, Out
<1>7. \A f \in ObjNames(d) : May(d, f)
  BY <1>2, <1>4, <1>5 DEF ObjNames, Opt, May, ObjMade, Out
<1>8. \A f \in AsNames(d) : May(d, f)
  BY <1>2, <1>4, <1>5 DEF AsNames, Opt, May, AsMade, Single
<1> QED
  BY <1>6, <1>7, <1>8

\* A driver writes only when it removes its assembly file; a child only what it
\* was started for.
LEMMA StepWrites ==
  ASSUME NEW d \in Drivers, DriverStep(d) \/ ToolStep(d)
  PROVE  \/ UNCHANGED <<fs, users>>
         \/ Assembled(d) /\ Write(d, s_path[d], Absent)
         \/ tool[d] # NoTool /\ ToolStep(d) /\ \E x : Write(d, tool[d].out, x)
<1>1. CASE DriverStep(d)
  BY <1>1 DEF DriverStep, ParseArgs, NoName, Compile, Compiled, Assembled, Assemble, AssembledInput,
              PassOn, LinkAll, Finish
<1>2. CASE ToolReads(d)
  BY <1>2 DEF ToolReads, ToolStep
<1>3. CASE ToolWrites(d)
  BY <1>3 DEF ToolWrites, ToolStep
<1>4. CASE ToolFails(d)
  BY <1>4 DEF ToolFails, ToolStep
<1> QED
  BY <1>1, <1>2, <1>3, <1>4 DEF ToolStep

\* What a step writes is a file its driver may write.
LEMMA WrittenMay ==
  ASSUME CInv, NEW d \in Drivers, DriverStep(d) \/ ToolStep(d)
  PROVE  \/ UNCHANGED <<fs, users>>
         \/ \E f \in Files : May(d, f) /\ \E x : Write(d, f, x)
<1>1. CASE Assembled(d) /\ Write(d, s_path[d], Absent)
  <2>1. n[d] <= Len(Inputs(cmd[d])) /\ s_path[d] \in AsmNames(d)
    BY <1>1 DEF Assembled, Ended, CInv, Going
  <2> QED
    BY <1>1, <2>1, NamesMay, ChoicesAreFiles
<1>2. CASE tool[d] # NoTool /\ \E x : Write(d, tool[d].out, x)
  <2>1. tool[d].out \in Files /\ at[d] \in Waits
    BY <1>2, WorkFacts
  <2>2. tool[d].out = IF at[d] = "cc1" THEN s_path[d]
                      ELSE IF at[d] = "ld" THEN OutFile(cmd[d]) ELSE o_path[d]
    BY <1>2, WorkFacts
  <2>3. /\ at[d] = "cc1" => n[d] <= Len(Inputs(cmd[d])) /\ s_path[d] \in AsmNames(d)
        /\ at[d] = "asm" => n[d] <= Len(Inputs(cmd[d])) /\ o_path[d] \in ObjNames(d)
        /\ at[d] = "as" => n[d] <= Len(Inputs(cmd[d])) /\ o_path[d] \in AsNames(d)
        /\ at[d] = "ld" => Linking(cmd[d])
    BY DEF CInv, Going
  <2>4. at[d] = "ld" => May(d, OutFile(cmd[d]))
    BY <2>3 DEF Stands, May
  <2>5. May(d, tool[d].out)
    BY <2>1, <2>2, <2>3, <2>4, NamesMay DEF Waits
  <2> QED
    BY <1>2, <2>1, <2>5
<1> QED
  BY <1>1, <1>2, StepWrites

\* Every step keeps to such files.
LEMMA NextNamed == CInv /\ WritesOnlyNamed /\ [Next]_vars => WritesOnlyNamed'
<1> SUFFICES ASSUME CInv, WritesOnlyNamed, [Next]_vars PROVE WritesOnlyNamed'
  OBVIOUS
<1>1. CASE UNCHANGED vars \/ Done
  BY <1>1 DEF vars, own, Done, WritesOnlyNamed
<1>2. ASSUME NEW d \in Drivers, DriverStep(d) \/ ToolStep(d) PROVE WritesOnlyNamed'
  <2>1. cmd' = cmd
    BY <1>2, Others DEF CInv
  <2>2. CASE UNCHANGED <<fs, users>>
    BY <2>1, <2>2 DEF WritesOnlyNamed
  <2>3. ASSUME NEW f \in Files, May(d, f), NEW x, Write(d, f, x) PROVE WritesOnlyNamed'
    <3>1. users' = [users EXCEPT ![f] = users[f] \cup {<<d, n[d]>>}] /\ DOMAIN users = Files
      BY <2>3 DEF Write, CInv, Fun
    <3>2. <<d, n[d]>>[1] = d
      OBVIOUS
    <3> DEFINE p == <<d, n[d]>>
    <3> HIDE DEF p
    <3>3. ASSUME NEW g \in Files, NEW u \in users'[g] PROVE g.dir = "tmp" \/ g \in Stands(cmd[u[1]])
      <4>1. u \in users[g] \/ (g = f /\ u = p)
        BY <3>1, <3>3 DEF p
      <4>2. p[1] = d
        BY DEF p
      <4> QED
        BY <2>3, <4>1, <4>2 DEF WritesOnlyNamed, May
    <3> QED
      BY <2>1, <3>3 DEF WritesOnlyNamed
  <2> QED
    BY <1>2, <2>2, <2>3, WrittenMay
<1> QED
  BY <1>1, <1>2 DEF Next

\* Whatever fails and wherever, no driver and no child of one writes a file that
\* its command line does not stand for, but in the directory for temporary ones.
THEOREM OnlyNamedWritten == Spec => []WritesOnlyNamed
<1>1. Init => WritesOnlyNamed
  BY DEF Init, WritesOnlyNamed
<1> QED
  BY <1>1, NextNamed, Control, PTL DEF Spec

-----------------------------------------------------------------------------
(* The assembly files *)

\* A name that mkstemp makes up for assembly is not one a command line stands
\* for.
LEMMA TempNames ==
  ASSUME CInv, NEW d \in Drivers, n[d] <= Len(Inputs(cmd[d]))
  PROVE  /\ \A f \in AsmNames(d) : Temporary(f) => ~Opt(d, "S") /\ ~Opt(d, "save")
         /\ \A f \in AsmNames(d) : ~Opt(d, "S") /\ ~Opt(d, "save") => f.ext = ".s" /\ Temporary(f)
         /\ \A f \in ObjNames(d) \cup AsNames(d) : Temporary(f) => f.ext = ".o"
         /\ ~Temporary(OutFile(cmd[d]))
<1>1. cmd[d].out # NoFile => ~Temporary(cmd[d].out)
  BY NamesAreFiles
<1>2. /\ ~Temporary(Here(Input(d), ".s")) /\ ~Temporary(Here(Input(d), ".o")) /\ ~Temporary(AOut)
  BY DEF Temporary, Here, AOut
<1>3. \A x \in {".s", ".o"} : \A f \in TmpName(x) : f.ext = x /\ Temporary(f)
  BY DEF TmpName, Temporary
<1> QED
  BY <1>1, <1>2, <1>3 DEF AsmNames, ObjNames, AsNames, OutFile, AsmMade, Out, ObjMade, AsMade, Single

\* The driver that an assembly file is there for.
Needs(d, f) ==
  /\ s_path[d] = f
  /\ at[d] \in {"cc1", "asm"} \/ bad[d] # {} \/ (at[d] = "died" /\ ObjMade(d))

\* A driver stops needing a temporary assembly file only when it removes it.
LEMMA NeedsKept ==
  ASSUME CInv, SInv, NEW d \in Drivers, DriverStep(d) \/ ToolStep(d), NEW f \in Files, Temporary(f),
         NEW e \in Drivers, Needs(e, f)
  PROVE  Needs(e, f)' \/ (d = e /\ Assembled(d) /\ Write(d, f, Absent))
<1>1. CASE e # d
  <2>1. Mine(e)' = Mine(e)
    BY <1>1, Others DEF CInv
  <2> QED
    BY <2>1, Others DEF Mine, Needs, ObjMade, Opt, CInv
<1>2. CASE e = d
  <2>0. Fun /\ StatusOf(d) /\ Going(d)
    BY DEF CInv, SInv
  <2>1. CASE ParseArgs(d)
    BY <1>2, <2>0, <2>1 DEF ParseArgs, Needs, StatusOf
  <2>10. CASE NoName(d)
    <3>1. at[d] = "cc1" /\ ObjMade(d)
      BY <1>2, <2>0, <2>10 DEF NoName, AtInput, Ended, Needs, StatusOf
    <3>2. at'[d] = "died" /\ s_path' = s_path /\ cmd' = cmd
      BY <2>0, <2>10 DEF NoName, Dies, Fun
    <3> QED
      BY <1>2, <3>1, <3>2 DEF Needs, ObjMade, Opt
  <2>2. CASE Compile(d)
    BY <1>2, <2>0, <2>2 DEF Compile, AtInput, Needs, StatusOf
  <2>3. CASE Compiled(d)
    <3>1. at[d] = "cc1" /\ n[d] <= Len(Inputs(cmd[d])) /\ s_path[d] \in AsmNames(d) /\ s_path' = s_path
      BY <2>0, <2>3 DEF Compiled, Ended, Going
    <3>2. ~Opt(d, "S")
      BY <1>2, <3>1, TempNames DEF Needs
    <3>3. at'[d] = "asm"
      BY <2>0, <2>3, <3>2 DEF Compiled, Start, Fun
    <3> QED
      BY <1>2, <3>1, <3>3 DEF Needs
  <2>4. CASE Assembled(d)
    <3>1. at[d] = "asm" /\ n[d] <= Len(Inputs(cmd[d])) /\ s_path[d] \in AsmNames(d)
      BY <2>0, <2>4 DEF Assembled, Ended, Going
    <3>2. ~Opt(d, "save")
      BY <1>2, <3>1, TempNames DEF Needs
    <3> QED
      BY <1>2, <2>4, <3>2 DEF Assembled, Needs
  <2>5. CASE Assemble(d) \/ PassOn(d)
    BY <1>2, <2>0, <2>5 DEF Assemble, PassOn, AtInput, Needs, StatusOf
  <2>6. CASE AssembledInput(d)
    BY <1>2, <2>0, <2>6 DEF AssembledInput, Ended, Needs, StatusOf
  <2>7. CASE LinkAll(d)
    BY <1>2, <2>0, <2>7 DEF LinkAll, Needs, StatusOf
  <2>8. CASE Finish(d)
    <3>1. bad[d] # {}
      BY <1>2, <2>0, <2>8 DEF Finish, Ended, Needs, StatusOf
    <3> QED
      BY <1>2, <2>8, <3>1 DEF Finish, Needs
  <2>9. CASE ToolStep(d)
    <3>1. at' = at /\ s_path' = s_path
      BY <2>9 DEF ToolStep, ToolReads, ToolWrites, ToolFails
    <3>2. bad' = bad \/ \E x : Ends(d, x)
      BY <2>9 DEF ToolStep, ToolReads, ToolWrites, ToolFails
    <3>3. bad[d] \subseteq bad'[d]
      BY <2>0, <3>2 DEF Ends, Fun
    <3>4. at[d] # "died"
      BY <2>0, <2>9 DEF ToolStep, ToolReads, ToolWrites, ToolFails, StatusOf, Waits
    <3> QED
      BY <1>2, <3>1, <3>3, <3>4 DEF Needs
  <2> QED
    BY <2>1, <2>2, <2>3, <2>4, <2>5, <2>6, <2>7, <2>8, <2>9, <2>10 DEF DriverStep
<1> QED
  BY <1>1, <1>2

\* Every step keeps it so.
LEMMA NextRemoved == CInv /\ SInv /\ AsmRemoved /\ [Next]_vars => AsmRemoved'
<1> SUFFICES ASSUME CInv, SInv, AsmRemoved, [Next]_vars PROVE AsmRemoved'
  OBVIOUS
<1>1. CASE UNCHANGED vars \/ Done
  BY <1>1 DEF vars, own, Done, AsmRemoved, ObjMade, Opt
<1>2. ASSUME NEW d \in Drivers, DriverStep(d) \/ ToolStep(d) PROVE AsmRemoved'
  <2> SUFFICES ASSUME NEW f \in Files, Temporary(f), f.ext = ".s", fs'[f] # Absent
               PROVE  \E e \in Drivers : Needs(e, f)'
    BY DEF AsmRemoved, Needs
  <2>1. CASE fs[f] # Absent
    <3>1. PICK e \in Drivers : Needs(e, f)
      BY <2>1 DEF AsmRemoved, Needs
    <3>2. ~Write(d, f, Absent)
      BY DEF Write, CInv, Fun
    <3> QED
      BY <1>2, <3>1, <3>2, NeedsKept
  <2>2. CASE fs[f] = Absent
    <3>1. ~(Assembled(d) /\ Write(d, s_path[d], Absent)) /\ ~UNCHANGED <<fs, users>>
      BY <2>2 DEF Write, CInv, Fun
    <3>2. PICK x : tool[d] # NoTool /\ ToolStep(d) /\ Write(d, tool[d].out, x)
      BY <1>2, <3>1, StepWrites
    <3>3. tool[d].out = f
      BY <2>2, <3>2 DEF Write, CInv, Fun
    <3>4. at[d] = "cc1"
      <4>1. at[d] \in Waits /\ f = IF at[d] = "cc1" THEN s_path[d]
                                   ELSE IF at[d] = "ld" THEN OutFile(cmd[d]) ELSE o_path[d]
        BY <3>2, <3>3, WorkFacts
      <4>2. CASE at[d] = "asm"
        <5>1. n[d] <= Len(Inputs(cmd[d])) /\ o_path[d] \in ObjNames(d) /\ f = o_path[d]
          BY <4>1, <4>2 DEF CInv, Going
        <5> QED
          BY <5>1, TempNames
      <4>3. CASE at[d] = "as"
        <5>1. n[d] <= Len(Inputs(cmd[d])) /\ o_path[d] \in AsNames(d) /\ f = o_path[d]
          BY <4>1, <4>3 DEF CInv, Going
        <5> QED
          BY <5>1, TempNames
      <4>4. CASE at[d] = "ld"
        <5>1. f = OutFile(cmd[d])
          BY <4>1, <4>4
        <5>2. cmd[d].out # NoFile => ~Temporary(cmd[d].out)
          BY NamesAreFiles
        <5> QED
          BY <5>1, <5>2 DEF OutFile, AOut, Temporary
      <4> QED
        BY <4>1, <4>2, <4>3, <4>4 DEF Waits
    <3>5. s_path[d] = f
      BY <3>2, <3>3, <3>4, WorkFacts
    <3>6. at' = at /\ s_path' = s_path
      BY <3>2 DEF ToolStep, ToolReads, ToolWrites, ToolFails
    <3> QED
      BY <3>4, <3>5, <3>6 DEF Needs
  <2> QED
    BY <2>1, <2>2
<1> QED
  BY <1>1, <1>2 DEF Next

\* For any number of drivers that share a directory of temporary files, and even
\* when a name is given out twice: an assembly file is there only while a driver
\* is at it, after a child of its driver failed, or where no name could be made
\* for its object.
THEOREM AssemblyDoesNotPileUp == Spec => []AsmRemoved
<1>1. Init => AsmRemoved
  BY CommandsAssumption DEF Init, AsmRemoved
<1> QED
  BY <1>1, InitSInv, NextSInv, NextRemoved, Control, PTL DEF Spec

-----------------------------------------------------------------------------
(* What a driver has made so far *)

\* A step of the driver, at one of its inputs or at the link, has left this.
Made(d, i, f, x) == f \in Files /\ <<d, i>> \in users[f] /\ fs[f] = x

AsmOf(f) == Result("cc1", <<Text(f)>>)
AsmOut(c, f) == IF c.out # NoFile THEN c.out ELSE Here(f, ".s")
ObjOut(c, f) == IF c.out # NoFile THEN c.out ELSE Here(f, ".o")
Program(c) == Result("ld", [i \in DOMAIN Inputs(c) |-> ObjectOf(Inputs(c)[i])])

\* What is left of an input that is done.
InputDone(d, i) ==
  LET c == cmd[d]
      f == Inputs(c)[i]
  IN  /\ f.ext = ".c" /\ "S" \in c.opts => Made(d, i, AsmOut(c, f), AsmOf(f))
      /\ f.ext = ".c" /\ c.opts \cap {"S", "c"} = {"c"} => Made(d, i, ObjOut(c, f), ObjectOf(f))
      /\ Linking(c) => IF f.ext \in {".c", ".s", ".S"}
                         THEN Made(d, i, ld_inputs[d][i], ObjectOf(f))
                         ELSE ld_inputs[d][i] = f

\* There is one thing to link for each input that is done.
Earlier(d) ==
  /\ Linking(cmd[d]) => Len(ld_inputs[d]) = n[d] - 1
  /\ \A i \in 1..(n[d] - 1) : InputDone(d, i)

\* A child that has read, has read x.
HasRead(d, x) == \A j \in 1..Len(tool[d].read) : tool[d].read[j] = x

\* What the child has read, or left when it ended well.
AtWork(d) ==
  /\ at[d] = "cc1" => HasRead(d, Text(Input(d)))
  /\ at[d] = "asm" =>
       HasRead(d, AsmOf(Input(d))) /\ Made(d, n[d], s_path[d], AsmOf(Input(d)))
  /\ at[d] = "as" => HasRead(d, Text(Input(d)))
  /\ at[d] = "ld" =>
       \A j \in 1..Len(tool[d].read) : tool[d].read[j] = ObjectOf(Inputs(cmd[d])[j])
AtEnd(d) ==
  /\ at[d] = "cc1" => Made(d, n[d], s_path[d], AsmOf(Input(d)))
  /\ at[d] \in {"asm", "as"} => Made(d, n[d], o_path[d], ObjectOf(Input(d)))
  /\ at[d] = "ld" => Made(d, n[d], OutFile(cmd[d]), Program(cmd[d]))

Right(d) ==
  /\ Earlier(d)
  /\ tool[d] # NoTool => AtWork(d)
  /\ tool[d] = NoTool /\ st[d] = 0 => AtEnd(d)
  /\ at[d] = "exit" /\ status[d] = 0 =>
       /\ n[d] = Len(Inputs(cmd[d])) + 1
       /\ Linking(cmd[d]) => Made(d, n[d], OutFile(cmd[d]), Program(cmd[d]))

\* A file that nobody wrote is as it was.
Untouched ==
  \A f \in Files : users[f] = {} => fs[f] = IF f \in Sources THEN Text(f) ELSE Absent

RInv == Untouched /\ (NoClash => \A d \in Drivers : Right(d))

\* The invariant says what the property says.
LEMMA RInvRight == RInv /\ CInv => OutputRight
<1> SUFFICES ASSUME RInv, CInv, NoClash, NEW d \in Drivers, Done0(d)
             PROVE  LET c == cmd[d] IN
                    /\ Linking(c) => fs[OutFile(c)] =
                         Result("ld", [i \in DOMAIN Inputs(c) |-> ObjectOf(Inputs(c)[i])])
                    /\ \A i \in DOMAIN Inputs(c) : Inputs(c)[i].ext = ".c" =>
                         LET f == Inputs(c)[i] IN
                         /\ "S" \in c.opts => fs[IF c.out # NoFile THEN c.out ELSE Here(f, ".s")]
                                                = Result("cc1", <<Text(f)>>)
                         /\ c.opts \cap {"S", "c"} = {"c"} =>
                              fs[IF c.out # NoFile THEN c.out ELSE Here(f, ".o")] = ObjectOf(f)
  BY DEF OutputRight
<1>1. Right(d) /\ at[d] = "exit" /\ status[d] = 0
  BY DEF RInv, Done0
<1>2. /\ n[d] = Len(Inputs(cmd[d])) + 1
      /\ Linking(cmd[d]) => Made(d, n[d], OutFile(cmd[d]), Program(cmd[d]))
  BY <1>1 DEF Right
<1>3. ASSUME NEW i \in DOMAIN Inputs(cmd[d]) PROVE InputDone(d, i)
  <2>1. Inputs(cmd[d]) \in Seq(Files)
    BY NamesAreFiles
  <2>2. i \in 1..Len(Inputs(cmd[d])) /\ Len(Inputs(cmd[d])) \in Nat
    BY <1>3, <2>1
  <2>3. i \in 1..(n[d] - 1)
    BY <1>2, <2>2
  <2> QED
    BY <1>1, <2>3 DEF Right, Earlier
<1> QED
  BY <1>2, <1>3 DEF InputDone, Made, Program, AsmOut, ObjOut, AsmOf

-----------------------------------------------------------------------------
(* Writing, and who wrote *)

\* A step of a driver writes no file, or one.
LEMMA WritesOne ==
  ASSUME CInv, NEW d \in Drivers, DriverStep(d) \/ ToolStep(d)
  PROVE  UNCHANGED <<fs, users>> \/ \E f \in Files : \E x : Write(d, f, x)
BY WrittenMay

\* Who writes a file is one of its users from then on.
LEMMA WriteFacts ==
  ASSUME CInv, NEW d \in Drivers, NEW f \in Files, NEW x, Write(d, f, x)
  PROVE  /\ fs'[f] = x /\ users'[f] = users[f] \cup {<<d, n[d]>>}
         /\ \A g \in Files : g # f => fs'[g] = fs[g] /\ users'[g] = users[g]
BY DEF CInv, Fun, Write

\* The users of a file only grow.
LEMMA UsersGrow ==
  ASSUME CInv, NEW d \in Drivers, DriverStep(d) \/ ToolStep(d)
  PROVE  \A f \in Files : users[f] \subseteq users'[f]
<1>1. CASE UNCHANGED <<fs, users>>
  BY <1>1
<1>2. ASSUME NEW f \in Files, NEW x, Write(d, f, x) PROVE \A g \in Files : users[g] \subseteq users'[g]
  BY <1>2, WriteFacts
<1> QED
  BY <1>1, <1>2, WritesOne

\* So names that do not clash now did not clash before.
LEMMA ClashStays ==
  ASSUME CInv, NEW d \in Drivers, DriverStep(d) \/ ToolStep(d), NoClash'
  PROVE  NoClash
<1>1. \A f \in Files : users[f] \subseteq users'[f]
  BY UsersGrow
<1>2. cmd' = cmd
  BY Others DEF CInv
<1>3. \A f \in Files : (\A u, v \in users[f] : u = v) /\ (f \in Sources => users[f] = {})
  BY <1>1 DEF NoClash
<1>4. ASSUME NEW e \in Drivers, NEW i \in DOMAIN Inputs(cmd[e]) PROVE users[Inputs(cmd[e])[i]] = {}
  <2>1. Inputs(cmd[e]) \in Seq(Files)
    BY NamesAreFiles
  <2>2. Inputs(cmd[e])[i] \in Files
    BY <1>4, <2>1
  <2>3. users'[Inputs(cmd[e])[i]] = {}
    BY <1>2, <1>4 DEF NoClash
  <2> QED
    BY <1>1, <2>2, <2>3
<1> QED
  BY <1>3, <1>4 DEF NoClash

\* Unless names clash, what one step made no other step writes.
LEMMA MadeKept ==
  ASSUME CInv, NEW d \in Drivers, DriverStep(d) \/ ToolStep(d), NoClash',
         NEW e, NEW i, NEW f, NEW x, Made(e, i, f, x), <<e, i>> # <<d, n[d]>>
  PROVE  Made(e, i, f, x)'
<1>1. CASE UNCHANGED <<fs, users>>
  BY <1>1 DEF Made
<1>2. ASSUME NEW g \in Files, NEW y, Write(d, g, y) PROVE Made(e, i, f, x)'
  <2>1. f \in Files /\ <<e, i>> \in users[f] /\ fs[f] = x
    BY DEF Made
  <2>2. CASE f = g
    <3>1. <<e, i>> \in users'[f] /\ <<d, n[d]>> \in users'[f]
      BY <1>2, <2>1, <2>2, WriteFacts
    <3> QED
      BY <2>1, <3>1 DEF NoClash
  <2>3. CASE f # g
    BY <1>2, <2>1, <2>3, WriteFacts DEF Made
  <2> QED
    BY <2>2, <2>3
<1> QED
  BY <1>1, <1>2, WritesOne

\* A file nobody wrote stays as it was.
LEMMA NextUntouched == CInv /\ Untouched /\ [Next]_vars => Untouched'
<1> SUFFICES ASSUME CInv, Untouched, [Next]_vars PROVE Untouched'
  OBVIOUS
<1>1. CASE UNCHANGED vars \/ Done
  BY <1>1 DEF vars, own, Done, Untouched
<1>2. ASSUME NEW d \in Drivers, DriverStep(d) \/ ToolStep(d) PROVE Untouched'
  <2>1. CASE UNCHANGED <<fs, users>>
    BY <2>1 DEF Untouched
  <2>2. ASSUME NEW f \in Files, NEW x, Write(d, f, x) PROVE Untouched'
    BY <2>2, WriteFacts DEF Untouched
  <2> QED
    BY <1>2, <2>1, <2>2, WritesOne
<1> QED
  BY <1>1, <1>2 DEF Next

\* An input that is there is as it was.
LEMMA InputText ==
  ASSUME CInv, Untouched, NoClash, NEW d \in Drivers, NEW i \in 1..Len(Inputs(cmd[d])),
         fs[Inputs(cmd[d])[i]] # Absent
  PROVE  fs[Inputs(cmd[d])[i]] = Text(Inputs(cmd[d])[i])
<1>1. Inputs(cmd[d]) \in Seq(Files)
  BY NamesAreFiles
<1>2. i \in DOMAIN Inputs(cmd[d]) /\ Inputs(cmd[d])[i] \in Files
  BY <1>1
<1> QED
  BY <1>2 DEF NoClash, Untouched

\* A step of one driver leaves what another has made.
LEMMA RightKept ==
  ASSUME CInv, NEW d \in Drivers, DriverStep(d) \/ ToolStep(d), NoClash',
         NEW e \in Drivers \ {d}, Right(e)
  PROVE  Right(e)'
<1>1. cmd' = cmd /\ Mine(e)' = Mine(e)
  BY Others DEF CInv
<1>2. /\ at'[e] = at[e] /\ n'[e] = n[e] /\ s_path'[e] = s_path[e] /\ o_path'[e] = o_path[e]
      /\ ld_inputs'[e] = ld_inputs[e] /\ tool'[e] = tool[e] /\ st'[e] = st[e] /\ status'[e] = status[e]
      /\ Input(e)' = Input(e)
  BY <1>1 DEF Mine, Input
<1>3. ASSUME NEW i, NEW f, NEW x, Made(e, i, f, x) PROVE Made(e, i, f, x)'
  <2>1. <<e, i>> # <<d, n[d]>>
    OBVIOUS
  <2> QED
    BY <1>3, <2>1, MadeKept
<1>4. Earlier(e)'
  <2>1. ASSUME NEW i, InputDone(e, i) PROVE InputDone(e, i)'
    BY <1>1, <1>2, <1>3, <2>1 DEF InputDone
  <2> QED
    BY <1>1, <1>2, <2>1 DEF Right, Earlier
<1>5. AtWork(e) => AtWork(e)'
  BY <1>1, <1>2, <1>3 DEF AtWork, HasRead
<1>6. AtEnd(e) => AtEnd(e)'
  BY <1>1, <1>2, <1>3 DEF AtEnd
<1> QED
  BY <1>1, <1>2, <1>3, <1>4, <1>5, <1>6 DEF Right

\* Nor does it leave anything of its own earlier inputs undone.
LEMMA EarlierKept ==
  ASSUME CInv, NEW d \in Drivers, DriverStep(d) \/ ToolStep(d), NoClash', Earlier(d),
         Linking(cmd[d]) => \A i \in 1..(n[d] - 1) : ld_inputs'[d][i] = ld_inputs[d][i]
  PROVE  \A i \in 1..(n[d] - 1) : InputDone(d, i)'
<1> SUFFICES ASSUME NEW i \in 1..(n[d] - 1) PROVE InputDone(d, i)'
  OBVIOUS
<1>1. cmd' = cmd
  BY Others DEF CInv
<1>2. ASSUME NEW f, NEW x, Made(d, i, f, x) PROVE Made(d, i, f, x)'
  <2>1. n[d] \in Nat
    BY DEF CInv, Fun
  <2>2. <<d, i>> # <<d, n[d]>>
    BY <2>1
  <2> QED
    BY <1>2, <2>2, MadeKept
<1> QED
  BY <1>1, <1>2 DEF Earlier, InputDone

\* A step that does not go on to the next input keeps the earlier ones done.
LEMMA EarlierStays ==
  ASSUME CInv, NEW d \in Drivers, DriverStep(d) \/ ToolStep(d), NoClash', Earlier(d),
         n'[d] = n[d], ld_inputs'[d] = ld_inputs[d]
  PROVE  Earlier(d)'
<1>1. cmd' = cmd
  BY Others DEF CInv
<1>2. \A i \in 1..(n[d] - 1) : InputDone(d, i)'
  BY EarlierKept
<1> QED
  BY <1>1, <1>2 DEF Earlier

-----------------------------------------------------------------------------
(* The steps of a driver *)

\* At the next input the last one must be done, and have been linked.
LEMMA NextInputR ==
  ASSUME CInv, NEW d \in Drivers, DriverStep(d), NoClash', Right(d), NextInput(d),
         tool'[d] = NoTool,
         Linking(cmd[d]) => \E f : Link(d, f), NEW i, i = n[d], InputDone(d, i)'
  PROVE  Right(d)'
<1>1. cmd' = cmd /\ n'[d] = n[d] + 1 /\ at'[d] = "input" /\ n[d] \in Nat
  BY Others DEF CInv, Fun, NextInput
<1>2. Linking(cmd[d]) => /\ Len(ld_inputs[d]) = n[d] - 1 /\ Len(ld_inputs'[d]) = n[d]
                         /\ \A j \in 1..(n[d] - 1) : ld_inputs'[d][j] = ld_inputs[d][j]
  <2> SUFFICES ASSUME Linking(cmd[d])
               PROVE  /\ Len(ld_inputs[d]) = n[d] - 1 /\ Len(ld_inputs'[d]) = n[d]
                      /\ \A j \in 1..(n[d] - 1) : ld_inputs'[d][j] = ld_inputs[d][j]
    OBVIOUS
  <2>1. PICK f : Link(d, f)
    OBVIOUS
  <2>2. Len(ld_inputs[d]) = n[d] - 1
    BY DEF Right, Earlier
  <2>3. ld_inputs \in [Drivers -> Seq(Files)]
    BY DEF CInv, Fun
  <2> DEFINE s == ld_inputs[d]
  <2>4. IsSeq(s) /\ ld_inputs'[d] = Append(s, f)
    BY <2>1, <2>3 DEF Link, IsSeq
  <2> HIDE DEF s
  <2>5. Len(Append(s, f)) = Len(s) + 1 /\ \A j \in 1..Len(s) : Append(s, f)[j] = s[j]
    BY <2>4, AppendFacts
  <2>6. Len(s) = n[d] - 1 /\ Len(s) + 1 = n[d]
    BY <1>1, <2>2 DEF s
  <2> QED
    BY <2>4, <2>5, <2>6 DEF s
<1>3. \A j \in 1..(n[d] - 1) : InputDone(d, j)'
  BY <1>2, EarlierKept DEF Right
<1>4. Earlier(d)'
  <2>1. n'[d] - 1 = n[d]
    BY <1>1
  <2>2. \A j \in 1..(n'[d] - 1) : j \in 1..(n[d] - 1) \/ j = i
    BY <1>1
  <2> QED
    BY <1>1, <1>2, <1>3, <2>1, <2>2 DEF Earlier
<1>5. AtEnd(d)'
  BY <1>1 DEF AtEnd
<1> QED
  BY <1>1, <1>4, <1>5 DEF Right

\* The last element of what is linked.
LEMMA LinkLast ==
  ASSUME CInv, NEW d \in Drivers, NEW f, Link(d, f), Len(ld_inputs[d]) = n[d] - 1
  PROVE  ld_inputs'[d][n[d]] = f
<1>1. ld_inputs \in [Drivers -> Seq(Files)] /\ n[d] \in Nat
  BY DEF CInv, Fun
<1> DEFINE s == ld_inputs[d]
<1>2. IsSeq(s) /\ ld_inputs'[d] = Append(s, f)
  BY <1>1 DEF Link, IsSeq
<1> HIDE DEF s
<1>3. Append(s, f)[Len(s) + 1] = f
  BY <1>2, AppendFacts
<1>4. Len(s) + 1 = n[d]
  BY <1>1 DEF s
<1> QED
  BY <1>2, <1>3, <1>4

\* Before the first input nothing has to be done.
LEMMA ParseArgsR ==
  ASSUME CInv, NEW d \in Drivers, ParseArgs(d), NoClash', Right(d)
  PROVE  Right(d)'
<1>1. /\ n' = n /\ ld_inputs' = ld_inputs /\ tool' = tool /\ at[d] = "args"
      /\ at'[d] \in {"input", "died"}
  BY DEF ParseArgs, Dies, CInv, Fun
<1>2. Earlier(d)'
  BY <1>1, EarlierStays DEF DriverStep, Right
<1>3. tool'[d] = NoTool
  BY <1>1 DEF CInv, Going, Works
<1>4. AtEnd(d)'
  BY <1>1 DEF AtEnd
<1> QED
  BY <1>1, <1>2, <1>3, <1>4 DEF Right

\* A driver that gives up claims nothing.
LEMMA NoNameR ==
  ASSUME CInv, NEW d \in Drivers, NoName(d), NoClash', Right(d)
  PROVE  Right(d)'
<1>1. n' = n /\ ld_inputs' = ld_inputs /\ tool' = tool /\ at'[d] = "died"
  BY DEF NoName, Dies, CInv, Fun
<1>2. Earlier(d)'
  BY <1>1, EarlierStays DEF DriverStep, Right
<1>3. tool'[d] = NoTool
  BY <1>1 DEF NoName, AtInput, Ended, CInv, Going, Works
<1>4. AtEnd(d)'
  BY <1>1 DEF AtEnd
<1> QED
  BY <1>1, <1>2, <1>3, <1>4 DEF Right

\* A child that has just been started has read nothing.
LEMMA StartR ==
  ASSUME CInv, NEW d \in Drivers, DriverStep(d), NoClash', Right(d),
         n' = n, ld_inputs' = ld_inputs, UNCHANGED <<fs, users>>,
         NEW stage \in Waits, NEW k \in {"cc1", "as", "ld"}, NEW ins \in Seq(Files), NEW f \in Files,
         Start(d, stage, k, ins, f),
         stage = "asm" => Made(d, n[d], s_path[d], AsmOf(Input(d))) /\ s_path' = s_path
  PROVE  Right(d)'
<1>1. /\ at'[d] = stage /\ tool'[d].read = <<>>
      /\ tool'[d] = [k |-> k, in |-> ins, out |-> f, read |-> <<>>]
  BY StartFacts
<1>2. cmd' = cmd /\ Input(d)' = Input(d)
  BY Others DEF CInv, Input
<1>3. tool'[d] # NoTool
  BY <1>1 DEF NoTool
<1>4. Len(<<>>) = 0
  OBVIOUS
<1>5. \A j \in 1..Len(tool'[d].read) : FALSE
  BY <1>1, <1>4
<1>6. AtWork(d)'
  BY <1>1, <1>2, <1>5 DEF AtWork, HasRead, Made
<1>7. Earlier(d)'
  BY EarlierStays DEF Right
<1> QED
  BY <1>1, <1>3, <1>6, <1>7 DEF Right, Waits

\* cc1 is started.
LEMMA CompileR ==
  ASSUME CInv, NEW d \in Drivers, Compile(d), NoClash', Right(d)
  PROVE  Right(d)'
<1>1. PICK s \in AsmNames(d) : Start(d, "cc1", "cc1", <<Input(d)>>, s)
  BY DEF Compile
<1>2. s \in Files /\ Input(d) \in Files
  BY <1>1, NamesAreFiles, ChoicesAreFiles DEF Compile, AtInput
<1> DEFINE ins == <<Input(d)>>
<1>3. ins \in Seq(Files) /\ Start(d, "cc1", "cc1", ins, s)
  BY <1>1, <1>2
<1> HIDE DEF ins
<1>4. n' = n /\ ld_inputs' = ld_inputs /\ UNCHANGED <<fs, users>>
  BY DEF Compile
<1> QED
  BY <1>2, <1>3, <1>4, StartR DEF DriverStep, Waits

\* The assembly is there: it is asked for, or goes to the assembler.
LEMMA CompiledR ==
  ASSUME CInv, NEW d \in Drivers, Compiled(d), NoClash', Right(d)
  PROVE  Right(d)'
<1>1. /\ at[d] = "cc1" /\ tool[d] = NoTool /\ st[d] = 0 /\ n[d] <= Len(Inputs(cmd[d]))
      /\ Input(d).ext = ".c" /\ s_path[d] \in AsmNames(d)
      /\ UNCHANGED <<cmd, s_path, ld_inputs, st, status, bad, fs, users>>
  BY DEF Compiled, Ended, CInv, Going
<1>2. Made(d, n[d], s_path[d], AsmOf(Input(d)))
  BY <1>1 DEF Right, AtEnd
<1>3. CASE Opt(d, "S")
  <2>1. PICK i : i = n[d]
    OBVIOUS
  <2>2. NextInput(d) /\ tool'[d] = NoTool /\ ~Linking(cmd[d])
    BY <1>1, <1>3 DEF Compiled, Opt, Linking
  <2>3. s_path[d] = AsmOut(cmd[d], Inputs(cmd[d])[i]) /\ Inputs(cmd[d])[i] = Input(d)
    BY <1>1, <1>3, <2>1 DEF AsmNames, AsmOut, Input, AsmMade, Out
  <2>4. InputDone(d, i)
    BY <1>2, <1>3, <2>1, <2>2, <2>3 DEF InputDone, Opt
  <2>5. InputDone(d, i)'
    BY <1>1, <2>2, <2>4 DEF InputDone, Made
  <2> QED
    BY <2>1, <2>2, <2>5, NextInputR DEF DriverStep
<1>4. CASE ~Opt(d, "S")
  <2>1. PICK o \in ObjNames(d) : Start(d, "asm", "as", <<s_path[d]>>, o) /\ n' = n
    BY <1>4 DEF Compiled
  <2>2. o \in Files /\ s_path[d] \in Files
    BY <1>1, <2>1, ChoicesAreFiles
  <2> DEFINE ins == <<s_path[d]>>
  <2>3. ins \in Seq(Files) /\ Start(d, "asm", "as", ins, o)
    BY <2>1, <2>2
  <2> HIDE DEF ins
  <2> QED
    BY <1>1, <1>2, <2>1, <2>2, <2>3, StartR DEF DriverStep, Waits
<1> QED
  BY <1>3, <1>4

\* The object is there, and only the assembly is removed.
LEMMA AssembledR ==
  ASSUME CInv, NEW d \in Drivers, Assembled(d), NoClash', Right(d)
  PROVE  Right(d)'
<1>0. PICK i, f, o : i = n[d] /\ f = Input(d) /\ o = o_path[d]
  OBVIOUS
<1>1. /\ at[d] = "asm" /\ tool[d] = NoTool /\ st[d] = 0 /\ n[d] <= Len(Inputs(cmd[d]))
      /\ f.ext = ".c" /\ s_path[d] \in AsmNames(d) /\ o \in ObjNames(d) /\ ~Opt(d, "S")
      /\ UNCHANGED <<cmd, s_path, o_path, tool, st, status, bad>> /\ NextInput(d)
  BY <1>0 DEF Assembled, Ended, CInv, Going
<1>2. Made(d, i, o, ObjectOf(f))
  BY <1>0, <1>1 DEF Right, AtEnd
<1>3. Made(d, i, o, ObjectOf(f))'
  <2>1. CASE Opt(d, "save")
    BY <1>1, <1>2, <2>1 DEF Assembled, Made
  <2>2. CASE ~Opt(d, "save")
    <3>1. Write(d, s_path[d], Absent)
      BY <2>2 DEF Assembled
    <3>2. s_path[d] \in Files /\ s_path[d].ext = ".s" /\ Temporary(s_path[d])
      BY <1>1, <2>2, TempNames, ChoicesAreFiles
    <3>3. Temporary(o) => o.ext = ".o"
      BY <1>1, TempNames
    <3>4. o # s_path[d] /\ o \in Files
      BY <1>2, <3>2, <3>3 DEF Made
    <3>5. fs'[o] = fs[o] /\ users'[o] = users[o]
      BY <3>1, <3>2, <3>4, WriteFacts
    <3> QED
      BY <1>2, <3>5 DEF Made
  <2> QED
    BY <2>1, <2>2
<1>4. Inputs(cmd[d])[i] = f
  BY <1>0 DEF Input
<1>5. Opt(d, "c") => o = ObjOut(cmd[d], f)
  BY <1>0, <1>1 DEF ObjNames, ObjOut, ObjMade, Out
<1>6. Linking(cmd[d]) => Link(d, o) /\ ld_inputs'[d][i] = o
  <2>1. Linking(cmd[d]) => Link(d, o) /\ Len(ld_inputs[d]) = n[d] - 1
    BY <1>0 DEF Linking, Assembled, Opt, Right, Earlier
  <2> QED
    BY <1>0, <2>1, LinkLast
<1>7. InputDone(d, i)'
  <2>1. "S" \notin cmd[d].opts /\ ("c" \in cmd[d].opts => o = ObjOut(cmd[d], f))
    BY <1>1, <1>5 DEF Opt
  <2> QED
    BY <1>1, <1>3, <1>4, <1>6, <2>1 DEF InputDone
<1> QED
  BY <1>0, <1>1, <1>6, <1>7, NextInputR DEF DriverStep

\* The assembler is started on an input.
LEMMA AssembleR ==
  ASSUME CInv, NEW d \in Drivers, Assemble(d), NoClash', Right(d)
  PROVE  Right(d)'
<1>1. PICK o \in AsNames(d) : Start(d, "as", "as", <<Input(d)>>, o)
  BY DEF Assemble, AsNames, AsMade, Single
<1>2. o \in Files /\ Input(d) \in Files
  BY <1>1, NamesAreFiles, ChoicesAreFiles DEF Assemble, AtInput
<1> DEFINE ins == <<Input(d)>>
<1>3. ins \in Seq(Files) /\ Start(d, "as", "as", ins, o)
  BY <1>1, <1>2
<1> HIDE DEF ins
<1>4. n' = n /\ ld_inputs' = ld_inputs /\ UNCHANGED <<fs, users>>
  BY DEF Assemble
<1> QED
  BY <1>2, <1>3, <1>4, StartR DEF DriverStep, Waits

\* The object of a .s input is there.
LEMMA AssembledInputR ==
  ASSUME CInv, NEW d \in Drivers, AssembledInput(d), NoClash', Right(d)
  PROVE  Right(d)'
<1>0. PICK i, f, o : i = n[d] /\ f = Input(d) /\ o = o_path[d]
  OBVIOUS
<1>1. /\ at[d] = "as" /\ tool[d] = NoTool /\ st[d] = 0 /\ f.ext \in {".s", ".S"}
      /\ UNCHANGED <<cmd, o_path, tool, fs, users>> /\ NextInput(d)
  BY <1>0 DEF AssembledInput, Ended, CInv, Going
<1>2. Made(d, i, o, ObjectOf(f))
  BY <1>0, <1>1 DEF Right, AtEnd
<1>3. Made(d, i, o, ObjectOf(f))'
  BY <1>1, <1>2 DEF Made
<1>4. Inputs(cmd[d])[i] = f
  BY <1>0 DEF Input
<1>5. Linking(cmd[d]) => Link(d, o) /\ ld_inputs'[d][i] = o
  <2>1. Linking(cmd[d]) => Link(d, o) /\ Len(ld_inputs[d]) = n[d] - 1
    BY <1>0 DEF Linking, AssembledInput, Opt, Right, Earlier
  <2> QED
    BY <1>0, <2>1, LinkLast
<1>6. InputDone(d, i)'
  BY <1>1, <1>3, <1>4, <1>5 DEF InputDone
<1> QED
  BY <1>0, <1>1, <1>5, <1>6, NextInputR DEF DriverStep

\* An input that is linked as it is.
LEMMA PassOnR ==
  ASSUME CInv, NEW d \in Drivers, PassOn(d), NoClash', Right(d)
  PROVE  Right(d)'
<1>0. PICK i, f : i = n[d] /\ f = Input(d)
  OBVIOUS
<1>1. /\ at[d] = "input" /\ f.ext \notin {".c", ".s", ".S"} /\ cmd' = cmd /\ tool' = tool
      /\ NextInput(d) /\ Link(d, f)
  BY <1>0 DEF PassOn, AtInput
<1>2. tool[d] = NoTool
  BY <1>1 DEF CInv, Going, Works
<1>3. Inputs(cmd[d])[i] = f
  BY <1>0 DEF Input
<1>4. Linking(cmd[d]) => ld_inputs'[d][i] = f
  <2>1. Linking(cmd[d]) => Len(ld_inputs[d]) = n[d] - 1
    BY DEF Right, Earlier
  <2> QED
    BY <1>0, <1>1, <2>1, LinkLast
<1>5. InputDone(d, i)'
  BY <1>1, <1>3, <1>4 DEF InputDone
<1> QED
  BY <1>0, <1>1, <1>2, <1>5, NextInputR DEF DriverStep

\* All inputs are done.
LEMMA LinkAllR ==
  ASSUME CInv, NEW d \in Drivers, LinkAll(d), NoClash', Right(d)
  PROVE  Right(d)'
<1>1. /\ at[d] = "input" /\ n[d] > Len(Inputs(cmd[d])) /\ tool[d] = NoTool
      /\ UNCHANGED <<cmd, n, s_path, o_path, ld_inputs, st, bad, fs, users>>
  BY DEF LinkAll, CInv, Going, Works
<1>2. CASE Opt(d, "c") \/ Opt(d, "S")
  <2>1. Exit(d, 0) /\ tool'[d] = NoTool /\ at'[d] = "exit" /\ ~Linking(cmd[d])
    BY <1>1, <1>2 DEF LinkAll, Exit, CInv, Fun, Linking, Opt
  <2>2. n[d] = Len(Inputs(cmd[d])) + 1
    <3>1. n[d] \in 1..(Len(Inputs(cmd[d])) + 1) /\ Len(Inputs(cmd[d])) \in Nat
      BY NamesAreFiles DEF CInv, Going
    <3> QED
      BY <1>1, <3>1
  <2>3. Earlier(d)'
    BY <1>1, EarlierStays DEF DriverStep, Right
  <2>4. AtEnd(d)'
    BY <2>1 DEF AtEnd
  <2> QED
    BY <1>1, <2>1, <2>2, <2>3, <2>4 DEF Right
<1>3. CASE ~(Opt(d, "c") \/ Opt(d, "S"))
  <2>1. Start(d, "ld", "ld", ld_inputs[d], OutFile(cmd[d]))
    BY <1>3 DEF LinkAll
  <2>2. ld_inputs[d] \in Seq(Files) /\ OutFile(cmd[d]) \in Files
    BY NamesAreFiles DEF CInv, Fun
  <2> DEFINE ins == ld_inputs[d]
             o == OutFile(cmd[d])
  <2>3. ins \in Seq(Files) /\ o \in Files /\ Start(d, "ld", "ld", ins, o)
    BY <2>1, <2>2
  <2> HIDE DEF ins, o
  <2> QED
    BY <1>1, <2>3, StartR DEF DriverStep, Waits
<1> QED
  BY <1>2, <1>3

\* The driver ends with the status of its last child.
LEMMA FinishR ==
  ASSUME CInv, NEW d \in Drivers, Finish(d), NoClash', Right(d)
  PROVE  Right(d)'
<1>1. /\ tool[d] = NoTool /\ (st[d] # 0 \/ at[d] = "ld")
      /\ UNCHANGED <<cmd, n, s_path, o_path, ld_inputs, tool, st, bad, fs, users>>
      /\ at'[d] = "exit" /\ status'[d] = st[d]
  BY DEF Finish, Ended, Exit, CInv, Fun
<1>2. Earlier(d)'
  BY <1>1, EarlierStays DEF DriverStep, Right
<1>3. AtEnd(d)'
  BY <1>1 DEF AtEnd
<1>4. st[d] = 0 => /\ n[d] = Len(Inputs(cmd[d])) + 1
                   /\ Made(d, n[d], OutFile(cmd[d]), Program(cmd[d]))
  BY <1>1 DEF CInv, Going, Right, AtEnd
<1>5. PICK i, f, x : i = n[d] /\ f = OutFile(cmd[d]) /\ x = Program(cmd[d])
  OBVIOUS
<1>6. st[d] = 0 => Made(d, i, f, x)'
  BY <1>1, <1>4, <1>5 DEF Made
<1> QED
  BY <1>1, <1>2, <1>3, <1>4, <1>5, <1>6 DEF Right

-----------------------------------------------------------------------------
(* The steps of a child *)

\* A child that fails leaves what was made before, and its driver knows.
LEMMA FailsR ==
  ASSUME CInv, NEW d \in Drivers, ToolStep(d), NoClash', Right(d),
         UNCHANGED <<cmd, at, n, s_path, o_path, ld_inputs, status>>,
         NEW x \in {1, 127}, Ends(d, x), at[d] \in Waits
  PROVE  Right(d)'
<1>1. st'[d] # 0 /\ tool'[d] = NoTool
  BY DEF Ends, CInv, Fun
<1>2. Earlier(d)'
  BY EarlierStays DEF Right
<1> QED
  BY <1>1, <1>2 DEF Right, Waits

\* The only element of a sequence of at most one.
LEMMA OneRead ==
  ASSUME NEW r, IsSeq(r), Len(r) = 1, NEW x, \A j \in 1..Len(r) : r[j] = x
  PROVE  r[1] = x
OBVIOUS

\* cc1, the assembler and the linker make what they should of what they read.
LEMMA ToolWritesR ==
  ASSUME CInv, NEW d \in Drivers, ToolWrites(d), NoClash', Right(d)
  PROVE  Right(d)'
<1>0. PICK i, f, o, x, r : /\ i = n[d] /\ f = Input(d) /\ o = tool[d].out
                           /\ r = tool[d].read /\ x = Result(tool[d].k, r)
  OBVIOUS
<1>1. /\ tool[d] # NoTool /\ Len(r) = Len(tool[d].in) /\ Write(d, o, x) /\ Ends(d, 0)
      /\ UNCHANGED <<cmd, at, n, s_path, o_path, ld_inputs, status>>
  BY <1>0 DEF ToolWrites
<1>2. /\ at[d] \in Waits /\ o \in Files /\ IsSeq(r) /\ Works(d) /\ AtWork(d)
      /\ o = IF at[d] = "cc1" THEN s_path[d]
             ELSE IF at[d] = "ld" THEN OutFile(cmd[d]) ELSE o_path[d]
      /\ tool[d].k = IF at[d] = "cc1" THEN "cc1" ELSE IF at[d] = "ld" THEN "ld" ELSE "as"
  BY <1>0, <1>1, WorkFacts DEF CInv, Going, Right
<1>3. tool'[d] = NoTool
  BY <1>1 DEF Ends, CInv, Fun
<1>4. Earlier(d)'
  BY <1>1, EarlierStays DEF Right, ToolStep
<1>5. Made(d, i, o, x)'
  BY <1>0, <1>1, <1>2, WriteFacts DEF Made
<1>6. CASE at[d] = "cc1"
  <2>1. Len(tool[d].in) = 1
    BY <1>2, <1>6 DEF Works, Job
  <2>2. r[1] = Text(f)
    BY <1>0, <1>1, <1>2, <1>6, <2>1, OneRead DEF AtWork, HasRead
  <2>3. x = AsmOf(f)
    BY <1>0, <1>2, <1>6, <2>2 DEF AsmOf, Result
  <2>4. AtEnd(d)'
    BY <1>0, <1>1, <1>2, <1>5, <1>6, <2>3 DEF AtEnd, Input
  <2> QED
    BY <1>1, <1>3, <1>4, <1>6, <2>4 DEF Right
<1>7. CASE at[d] = "asm"
  <2>1. Len(tool[d].in) = 1
    BY <1>2, <1>7 DEF Works, Job
  <2>2. r[1] = AsmOf(f)
    BY <1>0, <1>1, <1>2, <1>7, <2>1, OneRead DEF AtWork, HasRead
  <2>3. f.ext = ".c"
    BY <1>0, <1>7 DEF CInv, Going
  <2>4. x = ObjectOf(f)
    BY <1>0, <1>2, <1>7, <2>2, <2>3 DEF AsmOf, Result, ObjectOf
  <2>5. AtEnd(d)'
    BY <1>0, <1>1, <1>2, <1>5, <1>7, <2>4 DEF AtEnd, Input
  <2> QED
    BY <1>1, <1>3, <1>4, <1>7, <2>5 DEF Right
<1>8. CASE at[d] = "as"
  <2>1. Len(tool[d].in) = 1
    BY <1>2, <1>8 DEF Works, Job
  <2>2. r[1] = Text(f)
    BY <1>0, <1>1, <1>2, <1>8, <2>1, OneRead DEF AtWork, HasRead
  <2>3. f.ext \in {".s", ".S"}
    BY <1>0, <1>8 DEF CInv, Going
  <2>4. x = ObjectOf(f)
    BY <1>0, <1>2, <1>8, <2>2, <2>3 DEF Result, ObjectOf
  <2>5. AtEnd(d)'
    BY <1>0, <1>1, <1>2, <1>5, <1>8, <2>4 DEF AtEnd, Input
  <2> QED
    BY <1>1, <1>3, <1>4, <1>8, <2>5 DEF Right
<1>9. CASE at[d] = "ld"
  <2>1. Len(tool[d].in) = Len(ld_inputs[d])
    BY <1>2, <1>9 DEF Works, Job
  <2>2. Linking(cmd[d]) /\ n[d] = Len(Inputs(cmd[d])) + 1
    BY <1>9 DEF CInv, Going
  <2>3. Len(Inputs(cmd[d])) \in Nat /\ IsSeq(Inputs(cmd[d]))
    BY NamesAreFiles DEF IsSeq
  <2>4. Len(r) = Len(Inputs(cmd[d]))
    BY <1>1, <2>1, <2>2, <2>3 DEF Right, Earlier
  <2> DEFINE p == [j \in DOMAIN Inputs(cmd[d]) |-> ObjectOf(Inputs(cmd[d])[j])]
  <2>5. IsSeq(p) /\ Len(p) = Len(Inputs(cmd[d])) /\ \A j \in 1..Len(r) : p[j] = ObjectOf(Inputs(cmd[d])[j])
    <3>1. DOMAIN Inputs(cmd[d]) = 1..Len(r)
      BY <2>3, <2>4, SeqFacts
    <3>2. p = [j \in DOMAIN Inputs(cmd[d]) |-> p[j]]
      OBVIOUS
    <3>3. \A j \in 1..Len(r) : p[j] = ObjectOf(Inputs(cmd[d])[j])
      BY <3>1
    <3> HIDE DEF p
    <3> QED
      BY <2>3, <3>2, <3>3, MapFacts
  <2>6. \A j \in 1..Len(r) : r[j] = p[j]
    BY <1>0, <1>2, <1>9, <2>5 DEF AtWork
  <2>7. r = p
    <3> HIDE DEF p
    <3> QED
      BY <1>2, <2>4, <2>5, <2>6, IsSeqEqual
  <2>8. x = Program(cmd[d])
    BY <1>0, <1>2, <1>9, <2>7 DEF Program, Result
  <2> HIDE DEF p
  <2>9. AtEnd(d)'
    BY <1>0, <1>1, <1>2, <1>5, <1>9, <2>8 DEF AtEnd
  <2> QED
    BY <1>1, <1>3, <1>4, <1>9, <2>9 DEF Right
<1> QED
  BY <1>2, <1>6, <1>7, <1>8, <1>9 DEF Waits

\* A child that fails, at any point.
LEMMA ToolFailsR ==
  ASSUME CInv, NEW d \in Drivers, ToolFails(d), NoClash', Right(d)
  PROVE  Right(d)'
<1>1. PICK x \in {1, 127} : Ends(d, x)
  BY DEF ToolFails
<1>2. /\ tool[d] # NoTool
      /\ UNCHANGED <<cmd, at, n, s_path, o_path, ld_inputs, status>>
  BY DEF ToolFails
<1>3. at[d] \in Waits
  BY <1>2, WorkFacts
<1> QED
  BY <1>1, <1>2, <1>3, FailsR DEF ToolStep

\* What a child reads is what was in the file when its driver began, or what a
\* step of the same driver has made.
LEMMA ToolReadsR ==
  ASSUME CInv, Untouched, NEW d \in Drivers, ToolReads(d), NoClash', Right(d)
  PROVE  Right(d)'
<1>0. PICK f, g, r, j, ins : /\ r = tool[d].read /\ ins = tool[d].in /\ j = Len(r) + 1
                             /\ g = ins[j] /\ f = Input(d)
  OBVIOUS
<1>1. /\ tool[d] # NoTool /\ Len(r) < Len(ins)
      /\ UNCHANGED <<cmd, at, n, s_path, o_path, ld_inputs, status>>
  BY <1>0 DEF ToolReads
<1>2. at[d] \in Waits /\ Works(d) /\ AtWork(d) /\ IsSeq(r) /\ Len(r) \in Nat /\ NoClash
  <2>1. at[d] \in Waits /\ IsSeq(r)
    BY <1>0, <1>1, WorkFacts
  <2>2. Works(d) /\ AtWork(d)
    BY <1>1 DEF CInv, Going, Right
  <2>3. NoClash
    BY ClashStays DEF ToolStep
  <2> QED
    BY <2>1, <2>2, <2>3, SeqFacts
<1>3. Earlier(d)'
  BY <1>1, EarlierStays DEF Right, ToolStep
<1>4. CASE fs[g] = Absent
  <2>1. Ends(d, 1)
    BY <1>0, <1>4 DEF ToolReads
  <2> QED
    BY <1>1, <1>2, <2>1, FailsR DEF ToolStep
<1>5. CASE fs[g] # Absent
  <2>1. PICK x : /\ x = IF tool[d].k = "cc1" /\ g = tool[d].out THEN Empty ELSE fs[g]
                 /\ tool' = [tool EXCEPT ![d].read = Append(r, x)]
                 /\ IF tool[d].k = "cc1" THEN Write(d, tool[d].out, Empty) ELSE UNCHANGED <<fs, users>>
    BY <1>0, <1>5 DEF ToolReads
  <2>2. DOMAIN tool = Drivers /\ tool[d] = [k |-> tool[d].k, in |-> tool[d].in, out |-> tool[d].out, read |-> r]
    BY <1>0, <1>1, WorkFacts DEF CInv, Fun
  <2> DEFINE r2 == Append(r, x)
  <2>3. tool'[d] = [k |-> tool[d].k, in |-> tool[d].in, out |-> tool[d].out, read |-> r2]
    <3>1. tool' = [tool EXCEPT ![d].read = r2]
      BY <2>1
    <3> HIDE DEF r2
    <3> QED
      BY <2>2, <3>1
  <2>4. Len(r2) = Len(r) + 1 /\ r2[j] = x /\ \A i \in 1..Len(r) : r2[i] = r[i]
    BY <1>0, <1>2, AppendFacts
  <2>5. tool'[d].read = r2 /\ tool'[d] # NoTool
    <3> HIDE DEF r2
    <3>1. tool'[d].read = r2 /\ tool'[d].k = tool[d].k
      BY <2>3
    <3>2. tool[d].k \in {"cc1", "as", "ld"}
      BY <1>1, WorkFacts
    <3> QED
      BY <3>1, <3>2 DEF NoTool
  <2> HIDE DEF r2
  <2>6. ASSUME NEW y, HasRead(d, y), x = y PROVE HasRead(d, y)'
    <3>1. \A i \in 1..Len(r) : r[i] = y
      BY <1>0, <2>6 DEF HasRead
    <3>2. \A i \in 1..Len(r2) : r2[i] = y
      BY <1>0, <1>2, <2>4, <2>6, <3>1
    <3> QED
      BY <2>5, <3>2 DEF HasRead
  <2>7. tool[d].k = IF at[d] = "cc1" THEN "cc1" ELSE IF at[d] = "ld" THEN "ld" ELSE "as"
    BY <1>1, WorkFacts
  <2>8. Input(d)' = f
    BY <1>0, <1>1 DEF Input
  <2>9. AtWork(d)'
    <3>1. CASE at[d] = "cc1"
      <4>1. ins = <<f>> /\ n[d] \in 1..Len(Inputs(cmd[d])) /\ f = Inputs(cmd[d])[n[d]]
        <5>1. ins = <<f>>
          BY <1>0, <1>2, <3>1 DEF Works, Job
        <5>2. n[d] <= Len(Inputs(cmd[d]))
          BY <3>1 DEF CInv, Going
        <5> QED
          BY <1>0, <5>1, <5>2, NamesAreFiles DEF Input
      <4>2. Len(<<f>>) = 1 /\ <<f>>[1] = f
        OBVIOUS
      <4>3. g = f
        BY <1>0, <1>1, <1>2, <4>1, <4>2
      <4>4. f # tool[d].out
        <5>1. Write(d, tool[d].out, Empty) /\ tool[d].out \in Files
          BY <1>1, <2>1, <2>7, <3>1, WorkFacts
        <5>2. users'[tool[d].out] # {}
          <6>1. <<d, n[d]>> \in users'[tool[d].out]
            BY <5>1, WriteFacts
          <6> QED
            BY <6>1
        <5>3. n[d] \in DOMAIN Inputs(cmd[d])
          BY <4>1, NamesAreFiles
        <5> QED
          BY <1>1, <4>1, <5>2, <5>3 DEF NoClash
      <4>5. x = Text(f)
        BY <1>2, <1>5, <2>1, <4>1, <4>3, <4>4, InputText
      <4> QED
        BY <1>0, <1>1, <1>2, <2>6, <2>8, <3>1, <4>5 DEF AtWork, HasRead
    <3>2. CASE at[d] = "asm"
      <4>1. UNCHANGED <<fs, users>> /\ x = fs[g]
        BY <2>1, <2>7, <3>2
      <4>2. ins = <<s_path[d]>>
        BY <1>0, <1>2, <3>2 DEF Works, Job
      <4>3. Len(<<s_path[d]>>) = 1 /\ <<s_path[d]>>[1] = s_path[d]
        OBVIOUS
      <4>4. g = s_path[d]
        BY <1>0, <1>1, <1>2, <4>2, <4>3
      <4>5. HasRead(d, AsmOf(f)) /\ Made(d, n[d], s_path[d], AsmOf(f))
        BY <1>0, <1>2, <3>2 DEF AtWork
      <4>6. HasRead(d, AsmOf(f))'
        BY <2>6, <4>1, <4>4, <4>5 DEF Made
      <4> QED
        BY <1>1, <2>8, <3>2, <4>1, <4>5, <4>6 DEF AtWork, Made, HasRead
    <3>3. CASE at[d] = "as"
      <4>1. ins = <<f>> /\ n[d] \in 1..Len(Inputs(cmd[d])) /\ f = Inputs(cmd[d])[n[d]]
        <5>1. ins = <<f>>
          BY <1>0, <1>2, <3>3 DEF Works, Job
        <5>2. n[d] <= Len(Inputs(cmd[d]))
          BY <3>3 DEF CInv, Going
        <5> QED
          BY <1>0, <5>1, <5>2, NamesAreFiles DEF Input
      <4>2. Len(<<f>>) = 1 /\ <<f>>[1] = f
        OBVIOUS
      <4>3. g = f
        BY <1>0, <1>1, <1>2, <4>1, <4>2
      <4>4. x = Text(f)
        BY <1>2, <1>5, <2>1, <2>7, <3>3, <4>1, <4>3, InputText
      <4> QED
        BY <1>0, <1>1, <1>2, <2>6, <2>8, <3>3, <4>4 DEF AtWork, HasRead
    <3>4. CASE at[d] = "ld"
      <4>1. ins = ld_inputs[d] /\ Linking(cmd[d]) /\ n[d] = Len(Inputs(cmd[d])) + 1
        <5>1. ins = ld_inputs[d]
          BY <1>0, <1>2, <3>4 DEF Works, Job
        <5>2. Linking(cmd[d]) /\ n[d] = Len(Inputs(cmd[d])) + 1
          BY <3>4 DEF CInv, Going
        <5> QED
          BY <5>1, <5>2
      <4>2. Len(ins) = Len(Inputs(cmd[d])) /\ j \in 1..(n[d] - 1) /\ j \in 1..Len(Inputs(cmd[d]))
        <5>1. Len(Inputs(cmd[d])) \in Nat
          BY NamesAreFiles
        <5>2. Len(ins) = Len(Inputs(cmd[d]))
          BY <4>1, <5>1 DEF Right, Earlier
        <5> QED
          BY <1>0, <1>1, <1>2, <4>1, <5>1, <5>2
      <4>3. InputDone(d, j)
        BY <4>2 DEF Right, Earlier
      <4>4. x = fs[g] /\ g = ld_inputs[d][j]
        BY <1>0, <2>1, <2>7, <3>4, <4>1
      <4> DEFINE h == Inputs(cmd[d])[j]
      <4>5. x = ObjectOf(h)
        <5>1. CASE h.ext \in {".c", ".s", ".S"}
          BY <4>1, <4>3, <4>4, <5>1 DEF InputDone, Made
        <5>2. CASE h.ext \notin {".c", ".s", ".S"}
          <6>1. g = h
            BY <4>1, <4>3, <4>4, <5>2 DEF InputDone
          <6>2. x = Text(h)
            BY <1>2, <1>5, <4>2, <4>4, <6>1, InputText
          <6> QED
            BY <5>2, <6>2 DEF ObjectOf
        <5> QED
          BY <5>1, <5>2
      <4>6. \A i \in 1..Len(r) : r[i] = ObjectOf(Inputs(cmd[d])[i])
        BY <1>0, <1>2, <3>4 DEF AtWork
      <4>7. \A i \in 1..Len(r2) : i \in 1..Len(r) \/ i = j
        BY <1>0, <1>2, <2>4
      <4>8. \A i \in 1..Len(r2) : r2[i] = ObjectOf(Inputs(cmd[d])[i])
        BY <2>4, <4>5, <4>6, <4>7
      <4> QED
        BY <1>1, <2>5, <3>4, <4>8 DEF AtWork
    <3> QED
      BY <1>2, <3>1, <3>2, <3>3, <3>4 DEF Waits
  <2> QED
    BY <1>1, <1>2, <1>3, <2>5, <2>9 DEF Right, Waits
<1> QED
  BY <1>4, <1>5

\* Every step keeps the invariant.
LEMMA NextRight == CInv /\ RInv /\ [Next]_vars => RInv'
<1> SUFFICES ASSUME CInv, RInv, [Next]_vars PROVE RInv'
  OBVIOUS
<1>1. Untouched'
  BY NextUntouched DEF RInv
<1>2. CASE UNCHANGED vars \/ Done
  <2>1. UNCHANGED vars
    BY <1>2 DEF Done
  <2>2. NoClash' = NoClash
    BY <2>1 DEF vars, own, NoClash
  <2>3. ASSUME NEW d \in Drivers, Right(d) PROVE Right(d)'
    <3>1. Earlier(d)'
      BY <2>1, <2>3 DEF vars, own, Right, Earlier, InputDone, Made
    <3>2. AtWork(d) => AtWork(d)'
      BY <2>1 DEF vars, own, AtWork, HasRead, Made, Input
    <3>3. AtEnd(d) => AtEnd(d)'
      BY <2>1 DEF vars, own, AtEnd, Made, Input
    <3> QED
      BY <2>1, <2>3, <3>1, <3>2, <3>3 DEF vars, own, Right, Made
  <2> QED
    BY <1>1, <2>2, <2>3 DEF RInv
<1>3. ASSUME NEW d \in Drivers, DriverStep(d) \/ ToolStep(d), NoClash', NEW e \in Drivers
      PROVE  Right(e)'
  <2>1. NoClash /\ Right(d) /\ Right(e) /\ Untouched
    BY <1>3, ClashStays DEF RInv
  <2>2. CASE e # d
    BY <1>3, <2>1, <2>2, RightKept
  <2>3. CASE e = d
    BY <1>3, <2>1, <2>3, ParseArgsR, NoNameR, CompileR, CompiledR, AssembledR, AssembleR, AssembledInputR,
       PassOnR, LinkAllR, FinishR, ToolReadsR, ToolWritesR, ToolFailsR DEF DriverStep, ToolStep
  <2> QED
    BY <2>2, <2>3
<1> QED
  BY <1>1, <1>2, <1>3 DEF Next, RInv

\* Nothing has been written.
LEMMA InitRight == Init => RInv
<1> SUFFICES ASSUME Init PROVE RInv
  OBVIOUS
<1>1. Untouched
  BY DEF Init, Untouched
<1>2. ASSUME NEW d \in Drivers PROVE Right(d)
  <2>1. /\ n[d] = 1 /\ at[d] = "args" /\ tool[d] = NoTool /\ ld_inputs[d] = <<>>
    BY DEF Init
  <2>2. Len(<<>>) = 0 /\ 1..(n[d] - 1) = {}
    BY <2>1
  <2>3. Earlier(d) /\ AtEnd(d)
    BY <2>1, <2>2 DEF Earlier, AtEnd
  <2> QED
    BY <2>1, <2>3 DEF Right
<1> QED
  BY <1>1, <1>2 DEF RInv

\* For any number of drivers and any command lines, as long as no two steps of
\* theirs are given the same name to write: a driver that reports success has
\* made the program, the assembly or the objects it was asked for, out of its own
\* inputs in their order, whatever the others and the tools did meanwhile.
THEOREM SuccessIsTrue == Spec => []OutputRight
<1>1. Spec => []RInv
  BY InitRight, NextRight, Control, PTL DEF Spec
<1> QED
  BY <1>1, Control, RInvRight, PTL

=============================================================================
