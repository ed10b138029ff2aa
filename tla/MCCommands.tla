----------------------------- MODULE MCCommands -----------------------------
(***************************************************************************)
(* Commands that stand alone, on instances of their own: run and info over *)
(* installed packages (Environment), init (InitRules), options and         *)
(* profiles (CommandLine).                                                 *)
(*                                                                         *)
(* A behaviour is one of them, the part: they are different calls of the   *)
(* program; the variables of the other parts do not change.                *)
(***************************************************************************)
EXTENDS Environment, CommandLine, TLC

CONSTANTS rule, wizard   \* files of the archive of the rules

VARIABLES
  part,
  tool, folders, link, wizards, vcpkg, packager, pc, left   \* InitRules, with cmd and outcome

environmentOnly == <<world, app, xml, depsFile, depsVect, depsMap, shown, environment, launched, stage>>
initOnly == <<tool, folders, link, wizards, vcpkg, packager, pc, left>>
partVars == <<part, cmd, outcome, environmentOnly, initOnly, vars>>

NoEnvironment ==
  /\ world = 0 /\ app = 0 /\ xml = 0 /\ depsFile = 0 /\ depsVect = 0 /\ depsMap = 0
  /\ shown = 0 /\ environment = <<>> /\ launched = 0 /\ stage = 0
NoInit ==
  /\ tool = 0 /\ folders = 0 /\ link = 0 /\ wizards = 0 /\ vcpkg = 0 /\ packager = 0
  /\ pc = 0 /\ left = 0
NoLine ==
  /\ env = 0 /\ lines = 0 /\ project = 0 /\ version = 0 /\ profiles = 0
  /\ proc = [q \in Process |-> Idle] /\ count = 0 /\ wish = 0

----------------------------------------------------------------------------
(* run and info: packages A and M need B in two versions. *)

D(n, v, t, m) == [name |-> n, version |-> v, type |-> t, mode |-> m]
A == D(<<"a">>, <<"1">>, "REMAKEN", "shared")
B1 == D(<<"b">>, <<"1">>, "REMAKEN", "shared")
B2 == D(<<"b">>, <<"2">>, "REMAKEN", "shared")
M == D(<<"m">>, <<"1">>, "REMAKEN", "shared")
N == D(<<"n">>, <<"1">>, "REMAKEN", "shared")
Brew == D(<<"y">>, <<"1">>, "BREW", "shared")
Vcpkg(m) == D(<<"v">>, <<"1">>, "VCPKG", m)

OneFile(ds) == [k \in {"plain", "static"} |-> IF k = "plain" THEN <<ds>> ELSE << >>]
TwoFiles(ds, es) == [k \in {"plain", "static"} |-> IF k = "plain" THEN <<ds, es>> ELSE << >>]

App(n, b, also) == [name |-> n, built |-> b, mentioned |-> {b} \union also]
Pkg(bin, arch, apps, xmls) ==
  [found |-> TRUE, bin |-> bin, arch |-> arch, apps |-> apps, xmls |-> xmls]
Absent == [Pkg(FALSE, FALSE, {}, <<{}, {}>>) EXCEPT !.found = FALSE]
Both(also) == {App(n, b, also) : n \in {<<"a">>, <<"x">>}, b \in {"release", "debug"}}

\* Folder only has the dependency file of the system alone.
World(files, only, packages, libs) ==
  [lines |-> files,
   named |-> DOMAIN files \ {only},
   package |-> (<<<<"a">>, <<"1">>>> :> packages) @@ (<<<<"z">>, <<"1">>>> :> Absent),
   modules |-> ("good" :> <<Folder(M), Folder(N)>>) @@ ("one" :> <<Folder(N)>>),
   lib |-> {<<k, f>> : k \in {"lib", "bin"}, f \in libs \union {<<"brew">>}}]

Needs(cwd, a) ==
  (Cwd :> OneFile(cwd)) @@ (Folder(A) :> a) @@ (Folder(M) :> OneFile(<<B1>>)) @@ (Folder(N) :> OneFile(<<B2, Brew>>))
  @@ (Folder(B1) :> OneFile(<<Brew>>))
All == {Folder(d) : d \in {A, B1, B2, M, N}}

Files == {<<{}, {}>>, <<{"good"}, {"one"}>>, <<{}, {"one"}>>}
Ordinary ==
  {World(Needs(c, TwoFiles(<<B1>>, e)), o, Pkg(TRUE, arch, Both({}), x), All) :
     c \in {<< >>, <<A>>, <<A, B2>>}, e \in {<< >>, <<B2>>}, o \in {Folder(B2), Folder(A), Folder(M)},
     arch \in BOOLEAN, x \in Files}
Unusual ==
  {World(Needs(<<A>>, OneFile(<<B1, t>>)), Folder(B2), Pkg(b, TRUE, Both({}), x), All \union l) :
     b \in BOOLEAN, t \in {Vcpkg("na"), Vcpkg("static"), Brew}, x \in Files, l \in {{}, {Folder(Vcpkg("na"))}}}

Installations == Ordinary \union Unusual

Run(e, a, n, r, x, d) ==
  [is |-> "run", env |-> e, app |-> a, name |-> n, ref |-> r, xml |-> x, deps |-> d,
   config |-> "release", paths |-> FALSE]
Ref == <<<<"a">>, <<"1">>>>
RunCommands ==
  {Run(FALSE, NoApp, n, r, x, d) :
     n \in {<< >>, <<"x">>}, r \in {Ref, <<<<"z">>, <<"1">>>>}, x \in {NoFile, "one", "bad"}, d \in {Cwd, Folder(M)}}
  \union {Run(TRUE, NoApp, << >>, r, x, d) :
            r \in {<< >>, Ref}, x \in {NoFile, "good"}, d \in {Cwd, Folder(M)}}
  \union {Run(FALSE, a, << >>, r, NoFile, Cwd) : a \in {GivenApp, Missing}, r \in {<< >>, Ref}}
InfoCommands == {[Run(TRUE, NoApp, << >>, << >>, NoFile, Cwd) EXCEPT !.is = "info", !.paths = p] : p \in BOOLEAN}
Every == RunCommands \union InfoCommands

----------------------------------------------------------------------------
(* init: every command, with either unpacker.  Tag 0 is for vcpkg without a tag. *)

I(s, fo, o, t, w) == [sub |-> s, force |-> fo, override |-> o, tag |-> t, wizards |-> w]
Rule(forces, ws) ==
  {I("", fo, fo \/ o, t, w) : fo \in forces, o \in BOOLEAN, t \in {1, 2}, w \in ws}
Inits ==
  Rule(BOOLEAN, BOOLEAN) \union {I("wizards", FALSE, FALSE, 2, FALSE)}
    \union {I(s, FALSE, FALSE, 0, FALSE) : s \in {"vcpkg", "brew", "artifactpkg"}}

Rules == INSTANCE InitRules WITH
  Tag <- {0, 1, 2}, File <- {rule, wizard}, FolderOf <- [t \in 0..2 |-> "rules"], Commands <- Inits,
  Unpackers <- {"unzip", "7z"}

----------------------------------------------------------------------------
(* Command lines. *)

Cmd(path, tail) == [path |-> path, head |-> None, tail |-> tail]
With(i, o, v) == [i EXCEPT !.tail = (o :> v) @@ i.tail]
Before(i, o, v) == [i EXCEPT !.head = (o :> v) @@ i.head]

InitProfile == Cmd(<<"profile", "init">>, None)
InstallLine == Cmd(<<"install">>, None)
RunLine == Cmd(<<"run">>, None)

\* Profiles made, used, copied under another name.
Profiles ==
  {With(InitProfile, "--cpp-std", "17"), With(InitProfile, "profile_name", "arm"),
   Before(With(InitProfile, "--config", "debug"), "--profile", "arm"),
   InstallLine, Before(InstallLine, "--profile", "arm"), With(InstallLine, "--cpp-std", "20"),
   Cmd(<<"profile", "display">>, None), With(InitProfile, "profile_name", "sub/arm"),
   With(InitProfile, "--with-default", "true"),
   With(With(InitProfile, "profile_name", "arm"), "--with-default", "true")}

\* Commands with and without what they require, and values that are not valid.
CommandLines ==
  {Cmd(n, None) : n \in {<<"configure">>, <<"bundleXpcf">>, <<"run">>, <<"remote">>, <<"init", "vcpkg">>}}
  \union
  {With(Cmd(<<"info", "pkg_systemfile">>, None), "--destination", "d"),
   With(With(RunLine, "--ref", "r"), "--name", "n"), With(With(RunLine, "--env", "true"), "--name", "n"),
   With(InstallLine, "--type", "artifactory"), With(InstallLine, "--generator", "ninja"),
   With(Cmd(<<"search">>, None), "--restrict", "pip"),
   With(Cmd(<<"package">>, None), "--cpp-std", "17"), Before(InstallLine, "--profile", "none")}

\* Both, and a folder that reads like an option of run; profiles edited by hand.
Everything == Profiles \union CommandLines \union {With(InitProfile, "--remaken-root", "/opt/run.d")}
HandEdits == {<<<<None, "--generator">>, "ninja">>, <<<<<<"run">>, "--app">>, "b">>}
RunAltered == "/opt/run.d" :> "/opt/#run.d"
Contents == {<<"absent">>, <<"/a", "/b", "">>}
TwoReleases == <<"4.9.0", "4.10.0">>

\* Keys are not taken for others, and no package that is not shared has files of its own.
ASSUME InstanceAssumption ==
  KeysApart /\ StaticFilesSuffice /\ Rules!InitRulesAssumption

----------------------------------------------------------------------------

CommandsInit ==
  \/ part = "environment" /\ EnvironmentInit /\ NoInit /\ NoLine
  \/ part = "init" /\ Rules!Init /\ NoEnvironment /\ NoLine
  \/ part = "line" /\ Init /\ NoEnvironment /\ NoInit /\ cmd = 0 /\ outcome = 0

CommandsNext ==
  /\ part' = part
  /\ \/ part = "environment" /\ EnvironmentNext /\ UNCHANGED <<initOnly, vars>>
     \/ part = "init" /\ Rules!Next /\ UNCHANGED <<environmentOnly, vars>>
     \/ part = "line" /\ Next /\ UNCHANGED <<cmd, outcome, environmentOnly, initOnly>>

CommandsSpec == CommandsInit /\ [][CommandsNext]_partVars

----------------------------------------------------------------------------
(* LibrariesOnPath and ModulesOnPath of Environment, Kept and GeneratorKnown of
   CommandLine hold in the other parts, which have no path and no process. *)

\* After a successful init there are rules and no file of theirs is missing, whatever
\* was killed before; none is cut short where files are replaced (InitCommand::execute).
RulesWhole == part = "init" => Rules!RulesWhole

\* After a successful init --force the rules are those of the release asked for.
ForceInstalls == part = "init" => Rules!ForceInstalls
=============================================================================
