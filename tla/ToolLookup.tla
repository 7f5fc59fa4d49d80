------------------------------ MODULE ToolLookup ------------------------------
(***************************************************************************)
(* How the driver finds its toolchain (cc/src/cc.c before the first input, *)
(* cc/src/driver_util.c): itself on PATH, the directories it takes itself  *)
(* to be installed in, the sysroot, and cc1, the assembler and the linker. *)
(* One look at the file system is one step; between two of them files may  *)
(* come and go, as when a toolchain is installed or removed meanwhile.     *)
(***************************************************************************)
EXTENDS Integers, Sequences, FiniteSets, SequencesExt

CONSTANTS
  Names,        \* the names of files and directories
  Invocations,  \* argv0, cwd, the segments of PATH, and where the driver really is
  Settings,     \* the options sysroot, target, tool_prefix and the environment's env
  Places,       \* what the file system may hold, as absolute names
  MaxChanges,   \* how often it may change meanwhile
  None          \* no path

VARIABLES
  run,          \* one of Invocations
  set,          \* one of Settings
  fs,           \* what there is now
  always,       \* what was there all the time
  ever,         \* what was there at some time
  changes,      \* how often fs changed
  stage,        \* where in main
  k,            \* the segment of PATH, or the candidate, that is next
  driver_path, driver_dir, prefix, cc_name,
  sysroot,      \* the directory, or None
  tool          \* cc1_path, as_path, ld_path

dirs == <<driver_path, driver_dir, prefix, cc_name>>
world == <<fs, always, ever, changes>>
vars == <<run, set, world, stage, k, dirs, sysroot, tool>>

Tools == {"cc1", "as", "ld"}

-----------------------------------------------------------------------------
(* Paths: from the root or not, and their components *)

Abs(c) == [abs |-> TRUE, c |-> c]
Rel(c) == [abs |-> FALSE, c |-> c]
Dot == Rel(<<".">>)
EmptyPath == Rel(<<>>)

HasSlash(p) == p.abs \/ Len(p.c) > 1
\* zdk_path_join, where both are something
Join(p, c) == [p EXCEPT !.c = @ \o c]
\* a mutant: a name without a slash is in no directory
DirnameEmpty(p) == [p EXCEPT !.c = SubSeq(@, 1, IF @ = <<>> THEN 0 ELSE Len(@) - 1)]
\* zdk_dirname goes by the letters of the name alone
Dirname(p) == IF ~HasSlash(p) THEN Dot
              ELSE [p EXCEPT !.c = SubSeq(@, 1, IF @ = <<>> THEN 0 ELSE Len(@) - 1)]
Basename(p) == Last(p.c)

\* what the system makes of a path, component by component
Enter(at, c) ==
  IF c = "." THEN at ELSE IF c # ".." THEN Append(at, c)
                     ELSE IF at = <<>> THEN at ELSE Front(at)
Walk(from, c) ==
  LET at[i \in 0..Len(c)] == IF i = 0 THEN from ELSE Enter(at[i - 1], c[i])
  IN  at[Len(c)]
PlaceFrom(cwd, p) == Walk(IF p.abs THEN <<>> ELSE cwd, p.c)
Place(p) == PlaceFrom(run.cwd, p)
\* zdk_file_exists: a file or a directory, to be executed or not
FileExists(p) == p # EmptyPath /\ Place(p) \in fs

Paths == [abs : BOOLEAN, c : Seq(Names)]

ASSUME NamesAssumption ==
  {".", "..", "bin", "libexec", "sysroot"} \cup Tools \subseteq Names
ASSUME ChangesAssumption == MaxChanges \in Nat
ASSUME PlacesAssumption == Places \subseteq Seq(Names)
\* not what a join makes
ASSUME NoneAssumption == None \in Paths /\ ~None.abs /\ Len(None.c) = 1
\* argv0 is a name; one with a slash is where the driver is
ASSUME InvocationAssumption ==
  \A r \in Invocations :
    /\ r.argv0 \in Paths /\ r.argv0.c # <<>> /\ Last(r.argv0.c) \notin {".", ".."}
    /\ r.cwd \in Seq(Names) /\ r.path \in Seq(Paths) /\ r.real \in Seq(Names)
    /\ HasSlash(r.argv0) => PlaceFrom(r.cwd, r.argv0) = r.real
ASSUME SettingAssumption ==
  \A s \in Settings :
    /\ s.sysroot \in Paths /\ s.target \in Paths /\ s.env \in [Tools -> Paths]
    /\ \A t \in Tools : s.tool_prefix \o t \in Names

Init ==
  /\ run \in Invocations /\ set \in Settings
  /\ fs \in SUBSET Places /\ always = fs /\ ever = fs /\ changes = 0
  /\ stage = "resolve" /\ k = 1
  /\ driver_path = None /\ driver_dir = None /\ prefix = None /\ cc_name = "cc"
  /\ sysroot = None /\ tool = [t \in Tools |-> None]

-----------------------------------------------------------------------------
(* zdk_resolve_exe_path *)

Found(p) ==
  /\ driver_path' = p /\ stage' = "dirs" /\ k' = 1
  /\ UNCHANGED <<run, set, world, driver_dir, prefix, cc_name, sysroot, tool>>

ByName == stage = "resolve" /\ HasSlash(run.argv0) /\ Found(run.argv0)

\* a mutant: an empty segment is joined like any other
SegmentJoined == Join(IF run.path[k] = EmptyPath THEN Abs(<<>>) ELSE run.path[k], run.argv0.c)
Segment == IF run.path[k] = EmptyPath THEN run.argv0 ELSE Join(run.path[k], run.argv0.c)
\* an empty segment at the end is not seen
SegmentLeft ==
  /\ k <= Len(run.path)
  /\ k = Len(run.path) => run.path[k] # EmptyPath

\* a mutant: the colon is not stepped over
AtColon == k
NextSegment == k + 1

OnPath ==
  /\ stage = "resolve" /\ ~HasSlash(run.argv0) /\ SegmentLeft
  /\ IF FileExists(Segment) THEN Found(Segment)
     ELSE k' = NextSegment /\ UNCHANGED <<run, set, world, stage, dirs, sysroot, tool>>

\* main goes on with argv[0] then
NotOnPath == stage = "resolve" /\ ~HasSlash(run.argv0) /\ ~SegmentLeft /\ Found(run.argv0)

-----------------------------------------------------------------------------
(* main: the directories and the sysroot *)

Dirs ==
  /\ stage = "dirs" /\ stage' = "sysroot"
  /\ driver_dir' = Dirname(driver_path)
  /\ cc_name' = Basename(driver_path)
  /\ prefix' = Dirname(Dirname(Dirname(driver_path)))
  /\ UNCHANGED <<run, set, world, k, driver_path, sysroot, tool>>

Sysroot(s, to) ==
  /\ sysroot' = s /\ stage' = to
  /\ UNCHANGED <<run, set, world, k, dirs, tool>>

\* zdk_die, where a part of a path is empty
Die ==
  /\ stage = "sysroot"
  /\ set.sysroot = EmptyPath \/ (set.sysroot = None /\ set.target = EmptyPath)
  /\ Sysroot(None, "died")

GivenSysroot ==
  /\ stage = "sysroot" /\ set.sysroot \notin {None, EmptyPath}
  /\ Sysroot(set.sysroot, "cc1")

TargetDir == Join(prefix, set.target.c)
Default(names) == Join(TargetDir, names \o <<"sysroot">>)
\* a mutant: the default is the same for every name of the driver
SharedNames == <<>>
ToolchainNames == <<cc_name>>

NamedSysroot ==
  /\ stage = "sysroot" /\ set.sysroot = None /\ set.target # EmptyPath
  /\ IF FileExists(Default(ToolchainNames)) THEN Sysroot(Default(ToolchainNames), "cc1")
     ELSE Sysroot(None, "default")

DefaultSysroot ==
  /\ stage = "default"
  /\ Sysroot(IF FileExists(Default(<<>>)) THEN Default(<<>>) ELSE None, "cc1")

-----------------------------------------------------------------------------
(* zdk_find_tool *)

Prefixed(t) == set.tool_prefix \o t
Bin(names) == Join(prefix, names)

\* a mutant: the GNU tools come first
GnuFirst(t) ==
  << Join(driver_dir, <<t>>), Bin(<<"bin", Prefixed(t)>>), Bin(<<"bin", t>>),
     Join(TargetDir, <<"bin", Prefixed(t)>>) >>
\* where a tool is looked for, in this order; cc1 is looked for beside the
\* driver twice
Candidates(t) ==
  (IF t = "cc1" THEN << Join(driver_dir, <<t>>), Join(driver_dir, <<t>>),
                        Bin(<<"libexec", cc_name, t>>) >>
   ELSE << Join(driver_dir, <<t>>) >>)
  \o << Bin(<<"bin", t>>), Bin(<<"bin", Prefixed(t)>>),
        Join(TargetDir, <<"bin", Prefixed(t)>>) >>

\* without a target there is no last candidate
Last0(t) == Len(Candidates(t)) - (IF set.target = EmptyPath THEN 1 ELSE 0)
\* found on PATH when it is started
OnItsOwn(t) == Rel(<<IF t = "cc1" THEN t ELSE Prefixed(t)>>)

Choose(t, p) ==
  /\ stage = t /\ tool' = [tool EXCEPT ![t] = p] /\ k' = 1
  /\ stage' = CASE t = "cc1" -> "as" [] t = "as" -> "ld" [] t = "ld" -> "done"
  /\ UNCHANGED <<run, set, world, dirs, sysroot>>

FromEnv(t) == set.env[t] # None /\ Choose(t, set.env[t])

Look(t) ==
  /\ stage = t /\ set.env[t] = None /\ k <= Last0(t)
  /\ IF FileExists(Candidates(t)[k]) THEN Choose(t, Candidates(t)[k])
     ELSE k' = k + 1 /\ UNCHANGED <<run, set, world, stage, dirs, sysroot, tool>>

\* so cc1 is never looked for a second time, in libexec/zdk
GiveUp(t) == set.env[t] = None /\ k > Last0(t) /\ Choose(t, OnItsOwn(t))

-----------------------------------------------------------------------------
(* The file system meanwhile *)

Change(to) ==
  /\ changes < MaxChanges /\ changes' = changes + 1
  /\ fs' = to /\ always' = always \cap to /\ ever' = ever \cup to
  /\ UNCHANGED <<run, set, stage, k, dirs, sysroot, tool>>

Comes == stage \notin {"done", "died"} /\ \E f \in Places \ fs : Change(fs \cup {f})
Goes == stage \notin {"done", "died"} /\ \E f \in fs : Change(fs \ {f})

Driver == \/ ByName \/ OnPath \/ NotOnPath \/ Dirs
          \/ Die \/ GivenSysroot \/ NamedSysroot \/ DefaultSysroot
          \/ \E t \in Tools : FromEnv(t) \/ Look(t) \/ GiveUp(t)
Over == stage \in {"done", "died"} /\ UNCHANGED vars
Next == Driver \/ Comes \/ Goes \/ Over
\* the driver is a running process
Spec == Init /\ [][Next]_vars /\ WF_vars(Driver)

-----------------------------------------------------------------------------
(* Properties *)

\* The type invariant; the directories can be joined to, which takes more than
\* an empty name.
TypeOK ==
  /\ run \in Invocations /\ set \in Settings
  /\ always \subseteq fs /\ fs \subseteq ever /\ ever \subseteq Places
  /\ changes \in 0..MaxChanges
  /\ stage \in {"resolve", "dirs", "sysroot", "default", "died", "done"} \cup Tools
  /\ k \in Nat \ {0} /\ \A t \in Tools : stage = t => k <= Len(Candidates(t)) + 1
  /\ \A p \in {driver_path, driver_dir, prefix, sysroot} \cup {tool[t] : t \in Tools} : p \in Paths
  /\ stage \notin {"resolve", "dirs"} =>
       EmptyPath \notin {driver_dir, prefix} /\ cc_name = Basename(driver_path)

\* The first of these places, at the least, that was there all the time is not
\* passed over, and the one chosen was there at some time.
FirstOf(p, places) ==
  \A i \in DOMAIN places :
    /\ Place(places[i]) \in always => \E j \in 1..i : p = places[j]
    /\ p = places[i] => Place(p) \in ever

\* A tool next to the driver is the one that runs, in whatever way the driver
\* was started, unless something else by its name is on PATH before it: no
\* mistake about its own directory leads it to another toolchain.
BesideDriver ==
  \A t \in Tools :
    LET beside == Append(Front(run.real), t)
        led == \/ HasSlash(run.argv0)
               \/ \E i \in DOMAIN run.path :
                    LET At(j) == Append(Place(run.path[j]), run.argv0.c[1]) IN
                    /\ At(i) = run.real /\ run.real \in always
                    /\ \A j \in 1..(i - 1) : At(j) \notin ever \/ At(j) = run.real
                    /\ i = Len(run.path) => run.path[i] # EmptyPath
    IN tool[t] # None /\ set.env[t] = None /\ beside \in always /\ led
         => Place(tool[t]) = beside

\* The order in which zdk_find_tool prefers tools, under the prefix the driver
\* takes for its own: the environment's, the one next to the driver, one with
\* the plain name, one with the prefixed name; whatever is installed or
\* removed meanwhile, none that was there all the time is passed over.  It is
\* not TOOLCHAIN.md's, which has libexec/zdk/cc1 besides, and the prefixed name
\* next to the driver.
OrderOfPreference ==
  \A t \in Tools : tool[t] # None =>
    IF set.env[t] # None THEN tool[t] = set.env[t]
    ELSE FirstOf(tool[t], << Join(driver_dir, <<t>>) >>
                          \o (IF t = "cc1" THEN << Bin(<<"libexec", cc_name, t>>) >> ELSE <<>>)
                          \o << Bin(<<"bin", t>>), Bin(<<"bin", Prefixed(t)>>) >>)

\* The sysroot is the one asked for, or the one of the driver's own name before
\* the shared one, so that toolchains of two names do not mix.
SysrootOfName ==
  stage \in Tools \cup {"done"} =>
    IF set.sysroot # None THEN sysroot = set.sysroot
    ELSE LET shared == Join(TargetDir, <<"sysroot">>)
             named == Join(TargetDir, <<cc_name, "sysroot">>)
         IN /\ FirstOf(sysroot, <<named, shared>>)
            /\ sysroot \in {named, shared, None}

\* The search is over at last, or the driver refuses.
Ends == <>(stage \in {"done", "died"})

\* where the driver is installed: it is PREFIX/bin/cc (TOOLCHAIN.md, "Layout")
Installation == Front(Front(run.real))

\* TOOLCHAIN.md, "Driver goals": the default sysroot is under PREFIX when there
\* is one.
SysrootUnderPrefix ==
  LET named == Installation \o set.target.c \o <<Last(run.real), "sysroot">>
  IN stage = "done" /\ set.sysroot = None /\ set.target # EmptyPath /\ HasSlash(run.argv0)
       /\ named \in always => sysroot # None /\ Place(sysroot) = named
=============================================================================
