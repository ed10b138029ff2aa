----------------------------- MODULE SystemTools -----------------------------
(***************************************************************************)
(* The packaging tools of the system (tools/SystemTools.cpp,               *)
(* NativeSystemTools.cpp, BrewSystemTool.cpp, VCPKGSystemTool.cpp), as the *)
(* commands install, bundle, remote and search drive them on linux.        *)
(*                                                                         *)
(* The tools themselves are external: each keeps a list of repositories    *)
(* and what is installed, an installation needs the repository of the      *)
(* package, and a call may fail.  A repository is the sequence of           *)
(* characters of its name, and whether a url is given behind "#".          *)
(***************************************************************************)
EXTENDS Integers, FiniteSets, SequencesExt

CONSTANTS
  Present,     \* the tools found, in the order of retrieveTools
  Lists,       \* dependencies of a project: [pkg, tool, repo] each
  Origin,      \* the repository that a package is in
  Known,       \* the repositories of each tool at first
  Unlisted,    \* tools whose list of repositories cannot be read
  Unknown,     \* packages that no tool finds
  Faulty,      \* the calls of the tools may fail when they need not
  MaxCommands  \* commands in a row

None == [id |-> <<>>, url |-> FALSE]
\* Those that write an install script instead of bundling, that have repositories.
Scripted == {"apt-get", "yum", "pacman", "zypper"}
WithRemotes == {"apt-get", "brew", "scoop"}
Tool == Scripted \union {"brew", "scoop", "vcpkg", "conan"}
Command == {"install", "bundle", "remote add", "remote list", "search"}

SystemToolsAssumption ==
  /\ ToSet(Present) \subseteq Tool
  /\ Lists \subseteq Seq([pkg : DOMAIN Origin, tool : ToSet(Present),
                          repo : [id : Seq(STRING), url : BOOLEAN]]) \ {<<>>}
  /\ Known \in [ToSet(Present) -> SUBSET Seq(STRING)]
  /\ Faulty \in BOOLEAN /\ MaxCommands \in Nat

VARIABLES
  remotes,    \* what each tool lists
  installed,  \* packages of each tool
  script,     \* lines of the install script, behind its first
  hasScript,  \* the script exists
  command, deps, next, made,   \* the command that runs, the tools with a retriever
  listed,     \* tools a listing or a search got to
  begun,      \* commands so far
  pc          \* "idle", "run", "done", "failed"

systemVars == <<remotes, installed, script, hasScript, command, deps, next, made, listed, begun, pc>>
machine == <<remotes, installed, script, hasScript>>

SystemInit ==
  /\ remotes = Known /\ installed = [t \in ToSet(Present) |-> {}]
  /\ script = <<>> /\ hasScript = FALSE
  /\ command = "install" /\ deps = <<>> /\ next = 1 /\ made = {}
  /\ listed = {} /\ begun = 0 /\ pc = "idle"

start ==
  /\ pc \in {"idle", "done", "failed"} /\ begun < MaxCommands
  /\ command' \in Command /\ deps' \in Lists
  /\ next' = 1 /\ made' = {} /\ listed' = {} /\ begun' = begun + 1 /\ pc' = "run"
  /\ UNCHANGED machine

Dep == deps[next]
Fail == pc' = "failed"
Step == next' = next + 1

\* Mutant: the script of an earlier bundle is kept.
makeRetrieverKeeping ==
  /\ pc = "run" /\ command \in {"install", "bundle"} /\ next <= Len(deps) /\ Dep.tool \notin made
  /\ made' = made \union {Dep.tool}
  /\ IF Dep.tool \in Scripted THEN hasScript' = TRUE ELSE UNCHANGED hasScript
  /\ UNCHANGED <<remotes, installed, script, command, deps, next, listed, begun, pc>>

\* The constructor of SystemFileRetriever, once per tool: the script, in the destination
\* or, without one, in the current folder, begins anew whatever the command.
makeRetriever ==
  /\ pc = "run" /\ command \in {"install", "bundle"} /\ next <= Len(deps) /\ Dep.tool \notin made
  /\ made' = made \union {Dep.tool}
  /\ IF Dep.tool \in Scripted THEN hasScript' = TRUE /\ script' = <<>> ELSE UNCHANGED <<script, hasScript>>
  /\ UNCHANGED <<remotes, installed, command, deps, next, listed, begun, pc>>

\* A repository counts as known when its name is found in the text of the list.
Occurs(s, t) == \E i \in 0..(Len(t) - Len(s)) : SubSeq(t, i + 1, i + Len(s)) = s
Mentioned(t, r) == \E k \in remotes[t] : Occurs(r.id, k)

\* Mutant: a tool with some repository needs no other.
NeedsFirst(d) == d.tool \in WithRemotes /\ d.repo # None /\ remotes[d.tool] = {}

\* addRemote of the tool does something.
Needs(d) == d.tool \in WithRemotes /\ d.repo # None /\ ~Mentioned(d.tool, d.repo)

Added(d) == remotes' = [remotes EXCEPT ![d.tool] = @ \union {d.repo.id}]

\* The call that adds: "sudo apt-get add-apt-repository", which apt-get does not know;
\* "brew tap <url> <name>", the wrong way round for brew.
Accepted(d) ==
  CASE d.tool = "apt-get" -> FALSE
    [] d.tool = "brew" -> ~d.repo.url
    [] OTHER -> TRUE

\* run, runAsRoot and bp::system: a result other than 0 is an exception.
addFails(d) == Needs(d) /\ (Faulty \/ ~Accepted(d)) /\ Fail /\ UNCHANGED remotes

\* A package is found in its repository only.
Reachable(d) == Origin[d.pkg] \in remotes'[d.tool] \union {<<>>}

installPackage(d) ==
  \/ (Faulty \/ ~Reachable(d)) /\ Fail /\ UNCHANGED <<installed, next>>
  \/ /\ Reachable(d) /\ Step /\ UNCHANGED pc
     /\ installed' = [installed EXCEPT ![d.tool] = @ \union {d.pkg}]

\* addRemote and the installation of apt-get and scoop; the other tools install only.
installAdding(d) ==
  \/ addFails(d) /\ UNCHANGED <<installed, next>>
  \/ /\ IF Needs(d) THEN Accepted(d) /\ Added(d) ELSE UNCHANGED remotes
     /\ installPackage(d)

\* brew looks whether the package is there first.
installBrew(d) ==
  IF d.pkg \in installed["brew"]
  THEN Step /\ UNCHANGED <<remotes, installed, pc>>
  ELSE installAdding(d)

install ==
  /\ pc = "run" /\ command = "install" /\ next <= Len(deps) /\ Dep.tool \in made
  /\ IF Dep.tool = "brew" THEN installBrew(Dep) ELSE installAdding(Dep)
  /\ UNCHANGED <<script, hasScript, command, deps, made, listed, begun>>

\* The command that would install, without its repository.
retrieveInstallCommand(d) == [tool |-> d.tool, pkg |-> d.pkg]
bundleScript(d) == script' = Append(script, retrieveInstallCommand(d)) /\ UNCHANGED pc

\* The libraries that brew or vcpkg list for the package and those it needs are copied,
\* or asking for them fails.
bundleLibs == UNCHANGED script /\ ((Faulty /\ Fail) \/ UNCHANGED pc)

\* bundleArtefact of the retriever.
bundle ==
  /\ pc = "run" /\ command = "bundle" /\ next <= Len(deps) /\ Dep.tool \in made
  /\ IF Dep.tool \in Scripted THEN bundleScript(Dep) ELSE bundleLibs
  /\ Step
  /\ UNCHANGED <<remotes, installed, hasScript, command, deps, made, listed, begun>>

\* remote add: the repositories of all lines, nothing installed.
remoteAdd ==
  /\ pc = "run" /\ command = "remote add" /\ next <= Len(deps)
  /\ \/ /\ ~Needs(Dep) /\ Step /\ UNCHANGED <<remotes, pc>>
     \/ addFails(Dep) /\ UNCHANGED next
     \/ Needs(Dep) /\ Accepted(Dep) /\ Added(Dep) /\ Step /\ UNCHANGED pc
  /\ UNCHANGED <<installed, script, hasScript, command, deps, made, listed, begun>>

\* listRemotes and search of the tool at hand: an answer, or an exception that ends all.
answered(fails) ==
  IF fails THEN Fail /\ UNCHANGED <<listed, next>>
           ELSE listed' = listed \union {Present[next]} /\ Step /\ UNCHANGED pc

\* remote list: apt-get's files are read with grep, the other tools are asked.
listRemotes(t) == t \in Unlisted
remoteList ==
  /\ pc = "run" /\ command = "remote list" /\ next <= Len(Present)
  /\ answered(listRemotes(Present[next]))
  /\ UNCHANGED <<machine, command, deps, made, begun>>

\* search: brew answers that it found nothing with a result that is not 0.
searchTool(t) == t = "brew" /\ deps[1].pkg \in Unknown
search ==
  /\ pc = "run" /\ command = "search" /\ next <= Len(Present)
  /\ answered(searchTool(Present[next]))
  /\ UNCHANGED <<machine, command, deps, made, begun>>

Rounds == IF command \in {"remote list", "search"} THEN Len(Present) ELSE Len(deps)

finishCommand ==
  /\ pc = "run" /\ next > Rounds
  /\ pc' = "done"
  /\ UNCHANGED <<machine, command, deps, next, made, listed, begun>>

SystemNext == start \/ makeRetriever \/ install \/ bundle \/ remoteAdd \/ remoteList \/ search \/ finishCommand

SystemSpec == SystemInit /\ [][SystemNext]_systemVars

-----------------------------------------------------------------------------

\* "For brew, scoop, apt and conan, the repository will be added before the dependency
\* installation" (README.md:355), and by remote add (README.md:178): when tools fail only
\* where they must, what has dealt with a dependency, well or not, has its repository in
\* the tool's list, unless brew has the package already.
RepositoryAddedStep ==
  /\ pc = "run" /\ command \in {"install", "remote add"}
  /\ next' = next + 1 \/ pc' = "failed"
  /\ Dep.repo # None /\ Dep.tool \in WithRemotes
  /\ ~(command = "install" /\ Dep.tool = "brew" /\ Dep.pkg \in installed["brew"])
  => Dep.repo.id \in remotes'[Dep.tool]

\* The lines whose package an install script installs.
ScriptLines == {i \in DOMAIN deps : deps[i].tool \in Scripted}

\* The script holds the commands of the lines, in their order and once each.
ScriptOf(lines) ==
  \E line \in [DOMAIN script -> lines] :
    /\ \A i, j \in DOMAIN script : i < j => line[i] < line[j]
    /\ lines = {line[i] : i \in DOMAIN script}
    /\ \A i \in DOMAIN script : script[i] = retrieveInstallCommand(deps[line[i]])

\* The script is that of the bundle it was made for, also after another bundle before it.
ScriptIsBundle ==
  pc = "done" /\ command = "bundle" /\ ScriptLines # {} => ScriptOf(ScriptLines)

-----------------------------------------------------------------------------
(* What the proofs ask of systems and projects. *)

\* A system has one of the tools that write a script.
OneScripted == \A t, u \in ToSet(Present) \intersect Scripted : t = u

============================================================================
