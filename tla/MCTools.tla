------------------------------ MODULE MCTools ------------------------------
(***************************************************************************)
(* The tools that remaken drives, on projects and systems of their own:    *)
(* packaging tools of two systems (SystemTools), conan 1 and 2             *)
(* (ConanTool), and the generators of build information (BuildInfo).       *)
(*                                                                         *)
(* A behaviour is one of them, the part: they are different calls of the   *)
(* program and share nothing but the names of what a call has in hand.     *)
(***************************************************************************)
EXTENDS Integers, FiniteSets, SequencesExt, TLC

CONSTANT
  Faulty   \* the tools of the linux system may fail when they need not

VARIABLES
  part,
  next, pc, command, deps, remotes,                        \* of several
  installed, script, hasScript, made, listed, begun,       \* SystemTools
  built, project, collected, refs, room, found,            \* ConanTool
  paths, size, moved, file                                 \* BuildInfo

systemOnly == <<installed, script, hasScript, made, listed, begun>>
conanOnly == <<built, project, collected, refs, room, found>>
infoOnly == <<paths, size, moved, file>>
vars == <<part, next, pc, command, deps, remotes, systemOnly, conanOnly, infoOnly>>

NoSystem ==
  installed = 0 /\ script = 0 /\ hasScript = 0 /\ made = 0 /\ listed = 0 /\ begun = 0
NoConan == built = 0 /\ project = 0 /\ collected = 0 /\ refs = 0 /\ room = 0 /\ found = 0
NoInfo == paths = 0 /\ size = 0 /\ moved = 0 /\ file = 0

----------------------------------------------------------------------------
(* Packaging tools *)

None == [id |-> <<>>, url |-> FALSE]
R(id) == [id |-> id, url |-> FALSE]
Url(id) == [id |-> id, url |-> TRUE]
D(p, t, r) == [pkg |-> p, tool |-> t, repo |-> r]

LinuxTools == <<"apt-get", "conan", "vcpkg", "brew">>
WindowsTools == <<"scoop", "vcpkg">>
ListsOver(S) == UNION {[1..n -> S] : n \in 1..2}
LinuxLists ==
  ListsOver({D("a", "apt-get", None), D("b", "apt-get", R(<<"m">>)), D("k", "brew", R(<<"t">>)),
             D("l", "brew", Url(<<"u">>)), D("v", "vcpkg", None)})
WindowsLists ==
  ListsOver({D("s", "scoop", Url(<<"x">>)), D("z", "scoop", R(<<"y">>)), D("v", "vcpkg", None)})
Names == {"a", "b", "k", "l", "v", "s", "z"}

Linux == INSTANCE SystemTools WITH
  Present <- LinuxTools, Lists <- LinuxLists, Unlisted <- {}, Unknown <- {"v"}, MaxCommands <- 2,
  Origin <- [p \in Names |-> CASE p = "b" -> <<"m">> [] p = "k" -> <<"t">>
                               [] p = "l" -> <<"u">> [] OTHER -> <<>>],
  Known <- [t \in ToSet(LinuxTools) |-> IF t \in {"apt-get", "brew"} THEN {<<"w">>} ELSE {}]
Windows == INSTANCE SystemTools WITH Faulty <- FALSE,
  Present <- WindowsTools, Lists <- WindowsLists, Unlisted <- {"vcpkg"}, Unknown <- {}, MaxCommands <- 2,
  Origin <- [p \in Names |-> IF p = "s" THEN <<"x">> ELSE <<>>],
  Known <- [t \in ToSet(WindowsTools) |-> {<<"m">>}]

----------------------------------------------------------------------------
(* Conan *)

Option(p, o) == [on |-> p, opt |-> <<o>>]
C(p, r, m, o) == [pkg |-> p, name |-> p, remote |-> r, mode |-> m, opts |-> o, user |-> "u/stable"]
Url3(n) == <<n, n \o ".org", "0">>

FirstLines(o) == {C("a", r, m, o) : r \in {<<"conancenter">>, Url3("x"), <<"y", "x.org", "1">>},
                                    m \in {"static", "shared", "na"}}
SecondLines == {C("b", r, m, <<Option("", "q")>>) : r \in {<<"conan-center", "c.org", "0">>, <<"z", "x.org", "0">>},
                                                    m \in {"static", "shared"}}
Pairs(S) == {<<s>> : s \in S} \union {<<s, t>> : s \in S, t \in SecondLines}
Plain == Pairs(FirstLines(<<Option("", "o")>>) \union FirstLines(<<>>))
\* ... and a line whose remote has no position.
Prefixed == Pairs(FirstLines(<<Option("a", "o")>>)) \union {<<C("a", <<"x", "x.org">>, "na", <<>>)>>}

Packages == {"a", "b", "t", "v"}
Answer(r, p) == [remote |-> r, pkgs |-> p]
SomeAnswers ==
  {<<>>, <<Answer("x", <<"a", "b">>), Answer("y", <<"a">>)>>, <<Answer("x", <<>>), Answer("y", <<"b", "t">>)>>}

\* Conan 1 with a profile for another system.
Conan1 == INSTANCE ConanTool WITH
  Version <- 1, Projects <- Prefixed, CrossCompile <- TRUE, Profile <- "p", Translated <- TRUE, Room <- 1,
  Order <- <<"t", "a", "v", "b">>, Needs <- [p \in Packages |-> {}],
  Remotes <- {[alias |-> "conancenter", url |-> "c.org"]}, Answers <- SomeAnswers
\* Conan 2, packages that need others.
Conan2 == INSTANCE ConanTool WITH
  Version <- 2, Projects <- Plain, CrossCompile <- FALSE, Profile <- "p", Translated <- TRUE, Room <- 1,
  Order <- <<"t", "a", "v", "b">>,
  Needs <- [p \in Packages |-> CASE p = "a" -> {"t", "v"} [] p = "b" -> {"t", "b"} [] OTHER -> {}],
  Remotes <- {[alias |-> "conancenter", url |-> "c.org"]}, Answers <- SomeAnswers

----------------------------------------------------------------------------
(* Build information *)

PcFile(p, d, n) == [pre |-> p, debug |-> d, name |-> n]
Flag(l, u, v) == [flag |-> l, under |-> u, value |-> v]
PcOf(d, f, c, l) == [dir |-> d, file |-> f, cflags |-> c, libs |-> l]
Pkg(n, d) == [name |-> n, folder |-> d]
Inc == Flag("I", TRUE, <<"/", "i">>)
LibDir == Flag("L", TRUE, <<"/", "l">>)
Lib(n) == Flag("l", FALSE, <<n>>)
Def(n) == Flag("D", FALSE, <<n>>)

Ab == Pkg(<<"a">>, <<"/", "r", "/", "a", "/", "1">>)
Bb == Pkg(<<"b", "+">>, <<"/", "r", "/", "b", "/", "1">>)
Cc == Pkg(<<"c">>, <<"/", "r", "/", "c", "/", "1">>)
Dd == Pkg(<<"d">>, <<"/", "q", "/", "d", "/", "1">>)
No == Pkg(<<"n">>, <<"/", "r", "/", "n", "/", "1">>)

\* Files of each naming, one package with several, one with none.
RemakenPc ==
  {PcOf(Ab.folder, PcFile("remaken-", FALSE, <<"a">>), <<Inc, Def("x")>>, <<LibDir, Lib("a")>>),
   PcOf(Ab.folder, PcFile("remaken-", TRUE, <<"a">>), <<Inc, Def("g")>>, <<LibDir, Lib("g")>>),
   PcOf(Bb.folder, PcFile("bcom-", FALSE, <<"b", "+">>), <<Inc, Flag("o", FALSE, <<"t">>)>>, <<Lib("b"), Lib("m")>>),
   PcOf(Cc.folder, PcFile("bcom-", TRUE, <<"c">>), <<Inc, Flag("I", TRUE, <<"/", "i", "/", "x">>)>>, <<Lib("c")>>),
   PcOf(Cc.folder, PcFile("bcom-", FALSE, <<"c">>), <<Inc>>, <<Lib("d")>>),
   PcOf(Dd.folder, PcFile("remaken-", FALSE, <<"d">>), <<Def("x"), Inc>>, <<>>)}

Orders(S) == UNION {{s \in [1..n -> S] : IsInjective(s)} : n \in 1..3}
RemakenProjects == Orders({Ab, Bb, Cc, Dd, No})

Usr == <<"/", "u", "p">>
SysPc ==
  {PcOf(Usr, PcFile("", FALSE, <<"a">>), <<Flag("I", FALSE, <<"/", "u", "/", "a">>), Def("x")>>, <<Lib("a")>>),
   PcOf(Usr, PcFile("", FALSE, <<"b">>), <<Flag("I", FALSE, <<"/", "u", "/", "a">>)>>, <<Lib("b"), Flag("L", FALSE, <<"/", "v">>)>>),
   PcOf(Usr, PcFile("", FALSE, <<"c">>), <<>>, <<Lib("c")>>)}
Sys(n) == Pkg(<<n>>, <<>>)
SysProjects == Orders({Sys("a"), Sys("b"), Sys("c"), Sys("n")})

\* k is kept apart and a needs it; e is kept apart itself, b needs nothing.
BrewPc ==
  {PcOf(Usr, PcFile("", FALSE, <<n>>), <<>>, <<Lib(n)>>) : n \in {"a", "b", "c"}}
  \union {PcOf(<<"/", "k", "/", "p">>, PcFile("", FALSE, <<"k">>), <<>>, <<Lib("k")>>),
          PcOf(<<"/", "e", "/", "p">>, PcFile("", FALSE, <<"e">>), <<>>, <<Lib("e")>>)}
NoKeg == <<"-">>
Formula(ds, k) == [deps |-> ds, keg |-> k]
BrewFormulae ==
  (<<"a">> :> Formula(<< <<"k">> >>, NoKeg)) @@ (<<"b">> :> Formula(<<>>, NoKeg))
  @@ (<<"c">> :> Formula(<< <<"b">> >>, NoKeg))
  @@ (<<"k">> :> Formula(<<>>, <<"/", "k">>)) @@ (<<"e">> :> Formula(<<>>, <<"/", "e">>))
BrewProjects == Orders({Sys("a"), Sys("b"), Sys("c"), Sys("e")})

Qmake == INSTANCE BuildInfo WITH
  Kind <- "REMAKEN", Generator <- "qmake", Debug <- FALSE, Projects <- RemakenProjects,
  Pc <- RemakenPc, GlobalDir <- Usr, Formulae <- <<>>
Bazel == INSTANCE BuildInfo WITH
  Kind <- "REMAKEN", Generator <- "bazel", Debug <- TRUE, Projects <- RemakenProjects,
  Pc <- RemakenPc, GlobalDir <- Usr, Formulae <- <<>>
System == INSTANCE BuildInfo WITH
  Kind <- "SYSTEM", Generator <- "qmake", Debug <- FALSE, Projects <- SysProjects,
  Pc <- SysPc, GlobalDir <- Usr, Formulae <- <<>>
Brew == INSTANCE BuildInfo WITH
  Kind <- "BREW", Generator <- "qmake", Debug <- FALSE, Projects <- BrewProjects,
  Pc <- BrewPc, GlobalDir <- Usr, Formulae <- BrewFormulae

ASSUME ToolsAssumption ==
  /\ Linux!SystemToolsAssumption /\ Linux!OneScripted
  /\ Windows!SystemToolsAssumption /\ Windows!OneScripted
  /\ Conan1!ConanToolAssumption /\ Conan2!ConanToolAssumption
  /\ Qmake!BuildInfoAssumption /\ Bazel!BuildInfoAssumption
  /\ System!BuildInfoAssumption /\ Brew!BuildInfoAssumption

----------------------------------------------------------------------------

ToolsInit ==
  \/ part = "linux" /\ Linux!SystemInit /\ NoConan /\ NoInfo
  \/ part = "windows" /\ Windows!SystemInit /\ NoConan /\ NoInfo
  \/ part = "conan1" /\ Conan1!Init /\ NoSystem /\ NoInfo /\ deps = 0
  \/ part = "conan2" /\ Conan2!Init /\ NoSystem /\ NoInfo /\ deps = 0
  \/ /\ NoSystem /\ NoConan /\ command = 0 /\ remotes = 0
     /\ \/ part = "qmake" /\ Qmake!Init
        \/ part = "bazel" /\ Bazel!Init
        \/ part = "system" /\ System!Init
        \/ part = "brew" /\ Brew!Init

ToolsNext ==
  /\ part' = part
  /\ \/ /\ part = "linux" /\ Linux!SystemNext
        /\ UNCHANGED <<conanOnly, infoOnly>>
     \/ /\ part = "windows" /\ Windows!SystemNext
        /\ UNCHANGED <<conanOnly, infoOnly>>
     \/ /\ part = "conan1" /\ Conan1!Next
        /\ UNCHANGED <<deps, systemOnly, infoOnly>>
     \/ /\ part = "conan2" /\ Conan2!Next
        /\ UNCHANGED <<deps, systemOnly, infoOnly>>
     \/ /\ \/ part = "qmake" /\ Qmake!Next
           \/ part = "bazel" /\ Bazel!Next
           \/ part = "system" /\ System!Next
           \/ part = "brew" /\ Brew!Next
        /\ UNCHANGED <<command, remotes, systemOnly, conanOnly>>

ToolsSpec == ToolsInit /\ [][ToolsNext]_vars

----------------------------------------------------------------------------


\* The same for scoop, on a system whose tools fail only where they must, and for conan.
RemotesAdded ==
  [][/\ part = "windows" => Windows!RepositoryAddedStep
     /\ part = "conan1" => Conan1!RemoteKnown'
     /\ part = "conan2" => Conan2!RemoteKnown']_vars

\* The install script holds the commands of the bundle it was made for, in their order
\* and once each, also after another bundle before it.
ScriptIsBundle == part = "linux" => Linux!ScriptIsBundle

\* What install had conan build is what configure and bundle ask it for: the lines of
\* conanfile.txt and the options of two command lines mean the same binaries.
BinariesAgree ==
  /\ part = "conan1" => Conan1!ConfigureFinds /\ Conan1!BundleFinds
  /\ part = "conan2" => Conan2!ConfigureFinds /\ Conan2!BundleFinds

\* "parse data from json in order to generates for specified generator" (l.518): the flags
\* of every package of the graph are in the list that the generator gets.
InfoCollected ==
  /\ part = "conan1" => Conan1!InfoCollected
  /\ part = "conan2" => Conan2!InfoCollected

\* Every dependency gets the flags of a .pc file of its own package, of a debug file if
\* there is one and --config is debug, and one that has a file is found.
OwnFlags ==
  /\ part = "qmake" => Qmake!OwnFlags
  /\ part = "bazel" => Bazel!OwnFlags
  /\ part = "system" => System!OwnFlags

\* The Bazel file, its links followed, names the folders, defines and libraries that
\* pkg-config gave, as the QMake file does, and no others.
FileIsInfo == part = "bazel" => Bazel!FileIsInfo

\* A formula that brew keeps apart is among the dependencies whose flags are written,
\* once the formulae that need it were looked at.
KegsWritten == part = "brew" => Brew!KegsWritten
============================================================================
