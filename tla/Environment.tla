----------------------------- MODULE Environment -----------------------------
(***************************************************************************)
(* remaken run and remaken info: commands/RunCommand.cpp,                  *)
(* commands/InfoCommand.cpp and the walks of utils/DepUtils.cpp over the   *)
(* dependency files of installed packages.                                 *)
(*                                                                         *)
(* A folder is that of a package, <<name, version>>, or the current one.   *)
(* Names and versions are sequences, so that they can be put together.     *)
(* Both commands only read what is installed, a world.                     *)
(***************************************************************************)
EXTENDS Integers, FiniteSets, SequencesExt

CONSTANTS
  Worlds,   \* what may be installed: [lines, named, package, modules, lib], see below
  Commands, \* "run" and "info" commands
  Depth     \* how many dependency files are on the longest way

\* lines[f][k]: the dependency files of folder f, "plain" or "static", in order.
\* named: the folders that have packagedependencies.txt itself, not one of the system only.
\* package[f]: [found, bin, arch, apps, xmls]; an application has a name, the
\* configuration it was built with and those its path mentions; xmls has those of the
\* bin folder and those of the package.  lib: the folders that exist.
\* modules[x]: the folders of the modules of configuration x.

NoFile == "no file"
Cwd == <<<<"current">>, <<"folder">>>>    \* its packagedependencies.txt is the default
AppFile(n) == [name |-> <<n>>, built |-> "none", mentioned |-> {}]
NoApp == AppFile("none")
Missing == AppFile("missing")
GivenApp == AppFile("given")

Dependency ==
  [name : Seq(STRING), version : Seq(STRING), type : {"REMAKEN", "BREW", "VCPKG", "SYSTEM"},
   mode : {"shared", "static", "na"}]

ASSUME EnvironmentAssumption ==
  /\ Depth \in Nat
  /\ \A w \in Worlds :
       /\ \A f \in DOMAIN w.lines : w.lines[f] \in [{"plain", "static"} -> Seq(Seq(Dependency))]
       /\ w.named \subseteq {f \in DOMAIN w.lines : w.lines[f]["plain"] # << >>}
       /\ \A x \in DOMAIN w.modules : w.modules[x] \in Seq(Seq(Seq(STRING)))
  /\ \A c \in Commands :
       /\ c.is \in {"run", "info"}
       /\ c.is = "run" => ~(c.env /\ c.app # NoApp) /\ (c.env \/ c.app # NoApp \/ c.ref # << >>)

VARIABLES
  world, cmd,
  app, xml, depsFile, \* members of RunCommand
  depsVect,           \* the vector of dependencies
  depsMap,            \* without redundant ones
  shown,              \* info: sections printed, each a set
  environment,        \* the search path: what is printed or handed on, << >> when none
  launched,           \* the application that ran
  stage, outcome      \* outcome: "none", "ok", "failed", "aborted"

environmentVars ==
  <<world, cmd, app, xml, depsFile, depsVect, depsMap, shown, environment, launched, stage, outcome>>

EnvironmentInit ==
  /\ world \in Worlds /\ cmd \in Commands
  /\ app = NoApp /\ xml = NoFile /\ depsFile = Cwd
  /\ depsVect = << >> /\ depsMap = << >> /\ shown = << >>
  /\ environment = << >> /\ launched = NoApp /\ stage = "idle" /\ outcome = "none"

Folder(d) == <<d.name, d.version>>

----------------------------------------------------------------------------
(* The walks *)

\* getFileHandler: the root folder of vcpkg is that of a mode it knows.
Rooted(d) == d.type = "VCPKG" => d.mode \in {"static", "shared"}

\* The dependency file that parseRecurse opens for d.
OwnFile(d) == IF d.mode = "shared" THEN "plain" ELSE "static"

\* The lines ds of a file, then what their packages need, with their own files or those
\* of a shared package.
Behind(lines, ds, own, deeper) ==
  ds \o FlattenSeq([j \in DOMAIN ds |->
          LET f == Folder(ds[j])
          IN IF f \in DOMAIN lines THEN deeper[f][IF own THEN OwnFile(ds[j]) ELSE "plain"] ELSE << >>])

\* So for every folder, the files of one kind one after the other.
OneDeeper(lines, own, deeper) ==
  [f \in DOMAIN lines |-> [k \in {"plain", "static"} |->
     FlattenSeq([i \in DOMAIN lines[f][k] |-> Behind(lines, lines[f][k][i], own, deeper)])]]

\* What the walk from the plain files of f collects.
Walk(lines, f, own) ==
  LET walk[n \in 0..Depth] ==
        IF n = 0 THEN [g \in DOMAIN lines |-> [k \in {"plain", "static"} |-> << >>]]
        ELSE OneDeeper(lines, own, walk[n-1])
  IN IF f \in DOMAIN lines THEN walk[Depth][f]["plain"] ELSE << >>

parseRecurse(f) == Walk(world.lines, f, TRUE)
readInfos(f) == Walk(world.lines, f, FALSE)
Fails(walk) == \E i \in DOMAIN walk : ~Rooted(walk[i])

\* The keys of the map that filters redundant dependencies.
key(d) == d.name \o d.version

\* insert_or_assign: the last one stays.
Filtered(v) ==
  [k \in {key(v[i]) : i \in DOMAIN v} |->
     v[Max({i \in DOMAIN v : key(v[i]) = k})]]

\* Mutant: packages of remaken only.
libPathsOwn(d) == IF d.type = "REMAKEN" THEN {<<"lib", Folder(d)>>} ELSE {}

\* The folders that a retriever says; vcpkg knows no include folder.
libPaths(d) ==
  CASE d.type = "REMAKEN" -> {<<"lib", Folder(d)>>}
    [] d.type = "BREW" -> {<<"lib", <<"brew">>>>}
    [] d.type = "VCPKG" -> {<<"lib", Folder(d)>>} \intersect world.lib
    [] d.type = "SYSTEM" -> {}
includePaths(d) ==
  CASE d.type = "REMAKEN" -> {<<"include", Folder(d)>>}
    [] d.type = "BREW" -> {<<"include", <<"brew">>>>}
    [] d.type = "VCPKG" -> {<<"throws">>}
    [] d.type = "SYSTEM" -> {}
\* Brew finds its folder and returns another vector.
binPaths(d) ==
  CASE d.type = "REMAKEN" -> {<<"bin", Folder(d)>>}
    [] d.type = "VCPKG" -> {<<"bin", Folder(d)>>} \intersect world.lib
    [] d.type \in {"BREW", "SYSTEM"} -> {}

----------------------------------------------------------------------------
(* remaken run *)

Stop(o) == stage' = "done" /\ outcome' = o

\* RunCommand's constructor; a reference in two parts leads to findBinary.
run ==
  /\ stage = "idle" /\ cmd.is = "run"
  /\ xml' = cmd.xml
  /\ depsFile' = cmd.deps
  /\ app' = IF cmd.name # << >> THEN NoApp ELSE cmd.app
  /\ stage' = IF Len(cmd.ref) = 2 THEN "binary" ELSE "modules"
  /\ UNCHANGED <<world, cmd, depsVect, depsMap, shown, environment, launched, outcome>>

Package == world.package[cmd.ref]
appName == IF cmd.name # << >> THEN cmd.name ELSE cmd.ref[1]

\* A file of the package takes the place of one that was not given.
Replaced(none, given, found) == IF given = none THEN found ELSE given

\* Applications of this name whose path mentions the configuration.
Matching(p) == {a \in p.apps : a.name = appName /\ cmd.config \in a.mentioned}

\* There is no package, or no folder of this architecture: iterating throws.
noFolder ==
  /\ stage = "binary" /\ (~Package.found \/ (Package.bin /\ ~Package.arch))
  /\ Stop("failed")
  /\ UNCHANGED <<world, cmd, app, xml, depsFile, depsVect, depsMap, shown, environment, launched>>

noBin ==
  /\ stage = "binary" /\ Package.found /\ ~Package.bin
  /\ stage' = "modules"
  /\ UNCHANGED <<world, cmd, app, xml, depsFile, depsVect, depsMap, shown, environment, launched, outcome>>

\* The files of the bin folder come first.
FirstOf(xmls) ==
  CASE xmls[1] # {} -> xmls[1]
    [] xmls[1] = {} /\ xmls[2] # {} -> xmls[2]
    [] xmls[1] \union xmls[2] = {} -> {NoFile}

\* The order of a folder is that of the file system.
findBinary ==
  /\ stage = "binary" /\ Package.found /\ Package.bin /\ Package.arch
  /\ IF Matching(Package) = {} THEN UNCHANGED app ELSE app' \in Matching(Package)
  /\ \E x \in FirstOf(Package.xmls) : xml' = Replaced(NoFile, xml, x)
  /\ depsFile' = IF cmd.ref \in world.named THEN Replaced(Cwd, depsFile, cmd.ref)
                 ELSE depsFile
  /\ stage' = "modules"
  /\ UNCHANGED <<world, cmd, depsVect, depsMap, shown, environment, launched, outcome>>

\* What the package f of a module needs; one that has no packagedependencies.txt itself
\* is passed over with a warning.
OfModule(f) == IF f \in world.named THEN parseRecurse(f) ELSE << >>

\* Mutant: the dependencies of the last module only.
ModulesLast(x) ==
  LET ms == world.modules[x] IN IF ms = << >> THEN << >> ELSE OfModule(Last(ms))

\* A module outside of any package has the files of the current folder read.
ModulesOf(x) ==
  LET ms == world.modules[x]
  IN FlattenSeq([i \in DOMAIN ms |-> OfModule(ms[i])])

noModules ==
  /\ stage = "modules" /\ xml = NoFile /\ stage' = "parse"
  /\ UNCHANGED <<world, cmd, app, xml, depsFile, depsVect, depsMap, shown, environment, launched, outcome>>

\* The file is missing or no xpcf configuration, or a walk throws.
badModules ==
  /\ stage = "modules" /\ xml # NoFile
  /\ xml \in DOMAIN world.modules => Fails(ModulesOf(xml))
  /\ Stop("failed")
  /\ UNCHANGED <<world, cmd, app, xml, depsFile, depsVect, depsMap, shown, environment, launched>>

parseModules ==
  /\ stage = "modules" /\ xml \in DOMAIN world.modules /\ ~Fails(ModulesOf(xml))
  /\ depsVect' = ModulesOf(xml) /\ stage' = "parse"
  /\ UNCHANGED <<world, cmd, app, xml, depsFile, depsMap, shown, environment, launched, outcome>>

parse ==
  LET walk == parseRecurse(depsFile) IN
  /\ stage = "parse"
  /\ IF Fails(walk) THEN Stop("failed") /\ UNCHANGED depsVect
     ELSE depsVect' = depsVect \o walk /\ stage' = "filter" /\ UNCHANGED outcome
  /\ UNCHANGED <<world, cmd, app, xml, depsFile, depsMap, shown, environment, launched>>

filter ==
  /\ stage = "filter"
  /\ depsMap' = Filtered(depsVect)
  /\ stage' = IF cmd.is = "info" THEN "include" ELSE IF cmd.env THEN "env" ELSE "launch"
  /\ UNCHANGED <<world, cmd, app, xml, depsFile, depsVect, shown, environment, launched, outcome>>

Gathered(kind) ==
  UNION {CASE kind = "lib" -> libPaths(depsMap[k])
           [] kind = "include" -> includePaths(depsMap[k])
           [] kind = "bin" -> binPaths(depsMap[k]) : k \in DOMAIN depsMap}

\* The search path and its script: what was gathered, then what the shell has.
printEnvironment ==
  /\ stage = "env"
  /\ environment' = <<Gathered("lib"), {<<"inherited">>}>>
  /\ Stop("ok")
  /\ UNCHANGED <<world, cmd, app, xml, depsFile, depsVect, depsMap, shown, launched>>

\* The gathered paths are appended to the variable; without application nothing runs.
launch ==
  /\ stage = "launch"
  /\ IF app \notin {NoApp, Missing}
       THEN launched' = app /\ environment' = <<{<<"inherited">>}, Gathered("lib")>>
       ELSE UNCHANGED <<launched, environment>>
  /\ Stop(IF app = Missing THEN "failed" ELSE "ok")
  /\ UNCHANGED <<world, cmd, app, xml, depsFile, depsVect, depsMap, shown>>

----------------------------------------------------------------------------
(* remaken info *)

\* The tree, or an error; --paths and pkg_systemfile come after either.
info ==
  LET walk == readInfos(Cwd) IN
  /\ stage = "idle" /\ cmd.is = "info"
  /\ shown' = [tree |-> {Folder(walk[i]) : i \in DOMAIN walk}]
  /\ depsFile' = Cwd
  /\ IF cmd.paths THEN stage' = "parse" /\ UNCHANGED outcome
     ELSE Stop(IF Fails(walk) THEN "failed" ELSE "ok")
  /\ UNCHANGED <<world, cmd, app, xml, depsVect, depsMap, environment, launched>>

\* A path that a retriever cannot tell ends the program: main catches other exceptions.
displayInclude ==
  /\ stage = "include"
  /\ IF <<"throws">> \in Gathered("include")
       THEN Stop("aborted") /\ UNCHANGED shown
       ELSE shown' = shown @@ [include |-> Gathered("include")] /\ stage' = "lib" /\ UNCHANGED outcome
  /\ UNCHANGED <<world, cmd, app, xml, depsFile, depsVect, depsMap, environment, launched>>

displayLib ==
  /\ stage = "lib"
  /\ shown' = shown @@ [lib |-> Gathered("lib") \intersect world.lib]
  /\ stage' = "bin"
  /\ UNCHANGED <<world, cmd, app, xml, depsFile, depsVect, depsMap, environment, launched, outcome>>

displayBin ==
  /\ stage = "bin"
  /\ shown' = shown @@ [bin |-> Gathered("bin") \intersect world.lib]
  /\ Stop(IF Fails(readInfos(Cwd)) THEN "failed" ELSE "ok")
  /\ UNCHANGED <<world, cmd, app, xml, depsFile, depsVect, depsMap, environment, launched>>

----------------------------------------------------------------------------
EnvironmentNext ==
  \/ run \/ noFolder \/ noBin \/ findBinary
  \/ noModules \/ badModules \/ parseModules \/ parse \/ filter
  \/ printEnvironment \/ launch
  \/ info \/ displayInclude \/ displayLib \/ displayBin

EnvironmentSpec == EnvironmentInit /\ [][EnvironmentNext]_environmentVars

----------------------------------------------------------------------------
(* Properties *)

Applied == environment # << >>

\* What install would have installed for the current folder or the package.
Installed(f) == Range(readInfos(f))

\* Where the libraries of d are.
LibraryFolder(d) == <<"lib", IF d.type = "BREW" THEN <<"brew">> ELSE Folder(d)>>

\* Every library package that the project or the package needs, at any depth, is on
\* the search path, that of RunCommand::execute l.131-144.
LibrariesOnPath ==
  Applied => \A d \in Installed(depsFile) :
    d.type \in {"REMAKEN", "BREW"} /\ d.mode \in {"shared", "na"}
      => LibraryFolder(d) \in UNION Range(environment)

\* So is what the packages of the modules of the xpcf configuration need, of those that
\* have packagedependencies.txt itself: RunCommand.cpp:118 passes over the others.
ModulesOnPath ==
  Applied /\ xml # NoFile => \A i \in DOMAIN world.modules[xml] :
    world.modules[xml][i] \in world.named => \A d \in Installed(world.modules[xml][i]) :
      d.type = "REMAKEN" /\ d.mode = "shared" => LibraryFolder(d) \in UNION Range(environment)

----------------------------------------------------------------------------
\* What is installed where both properties hold.

\* The packages that a dependency file of folder f, or any dependency file, lists.
ListedIn(lines, f, k) == UNION {Range(lines[f][k][i]) : i \in DOMAIN lines[f][k]}
Listed(lines) == UNION {ListedIn(lines, f, k) : f \in DOMAIN lines, k \in {"plain", "static"}}

\* The key of a package says where its libraries are.
KeysApart ==
  \A w \in Worlds : \A d, e \in Listed(w.lines) :
    key(d) = key(e) => Folder(d) = Folder(e) /\ d.type = e.type

\* A package that is not shared lists all that it needs in its file for static builds too.
StaticFilesSuffice ==
  \A w \in Worlds : \A d \in Listed(w.lines) :
    d.mode # "shared" /\ Folder(d) \in DOMAIN w.lines
      => ListedIn(w.lines, Folder(d), "plain") \subseteq ListedIn(w.lines, Folder(d), "static")
=============================================================================
