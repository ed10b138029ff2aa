------------------------------- MODULE Bundle -------------------------------
(***************************************************************************)
(* remaken bundle and bundleXpcf: class BundleManager                      *)
(* (src/src/managers/BundleManager.cpp), bundleArtefact of the retrievers, *)
(* OsUtils::copyLibraries, and XpcfXmlManager for the XPCF modules.        *)
(*                                                                         *)
(* The mutual recursion bundleDependencies / bundleDependency is an agenda:*)
(* the calls, dependencies and modules still to come, in order.  Files are *)
(* copied one by one into a destination folder that earlier bundles        *)
(* filled, from packages that are upgraded between two bundles.            *)
(*                                                                         *)
(* Abstractions.  A library folder maps the names in it to entries; a file *)
(* is known by its content, a symbolic link by its target in the same      *)
(* folder.  A library folder that exists is not empty.  What conan, brew   *)
(* or vcpkg copy themselves is not modelled.                               *)
(***************************************************************************)
EXTENDS Integers, FiniteSets, SequencesExt

CONSTANTS
  Dep,          \* dependencies, known by their package name
  Type,         \* Type[d]: "REMAKEN", "CONAN", or "CHOCO" for types not bundled
  Static,       \* dependencies in mode static
  Files,        \* Files[o][t]: dependency files of type t of folder o, in order
  IgnoreLines,  \* lines of packageignoreinstall.txt, each the set of its names
  Name,         \* file names
  Suffixed,     \* names with the suffix of shared libraries, last or not
  Content,      \* contents of library files
  Releases,     \* Releases[d]: library folders that d may have over time
  HeaderOnly,   \* packages whose .pkginfo or mode says that they have no library
  Modules,      \* the modules of the XPCF configuration, in order
  Commands,     \* commands with their options
  MaxDepth      \* calls the native stack holds

Project == "project"
FileType == {"EXTRA_DEPS", "PACKAGE"}
NoName == "-"
NoContent == "-"
Absent == [kind |-> "none", to |-> NoName, content |-> NoContent]
Entry ==
  {Absent} \union [kind : {"file"}, to : {NoName}, content : Content]
           \union [kind : {"link"}, to : Name, content : {NoContent}]
Folder == [Name -> Entry]

Command == [xpcf : BOOLEAN, recurse : BOOLEAN, override : BOOLEAN, ignoreErrors : BOOLEAN]
Config == {"good", "unreadable", "alien"}

ASSUME BundleAssumption ==
  /\ IsFiniteSet(Dep) /\ IsFiniteSet(Name)
  /\ Type \in [Dep -> {"REMAKEN", "CONAN", "CHOCO"}]
  /\ \A o \in Dep \union {Project}, t \in FileType :
       Files[o][t] \in Seq([valid : BOOLEAN, deps : Seq(Dep)])
  /\ \A line \in IgnoreLines : line \in SUBSET Dep
  /\ Suffixed \subseteq Name
  /\ Static \subseteq Dep /\ HeaderOnly \subseteq Dep
  /\ \A d \in Dep : Releases[d] \subseteq Folder
  /\ Modules \in Seq([name : STRING, dep : Dep, rooted : BOOLEAN])
  /\ Commands \subseteq Command
  /\ MaxDepth \in Nat \ {0}

VARIABLES
  lib,      \* lib[d]: the library folder of d, all Absent if there is none
  dest,     \* the folder libraries go to: -d of bundle, its modules folder for bundleXpcf
  paths,    \* the path attributes of the copied configuration: "none", "old", "new"
  pc,       \* "idle", "bundle", "config", "modules", "done"
  cmd,
  config,   \* what the configuration file is
  agenda,   \* what is still to do
  left,     \* names still to copy of the first item of the agenda
  copying,  \* it is being copied
  outcome,  \* "none", "ok", "failed" or "killed"
  bundled   \* history: what was copied to the destination by this command

vars == <<lib, dest, paths, pc, cmd, config, agenda, left, copying, outcome, bundled>>
command == <<cmd, config>>

NoFolder == [n \in Name |-> Absent]
NoCommand == [xpcf |-> FALSE, recurse |-> FALSE, override |-> FALSE, ignoreErrors |-> FALSE]

----------------------------------------------------------------------------
(* The agenda *)

Call(o, t, k) == [is |-> "call", at |-> o, type |-> t, next |-> 1, depth |-> k]
Visit(d, t, k) == [is |-> "dependency", at |-> d, type |-> t, next |-> 0, depth |-> k]
Module(i) == [is |-> "module", at |-> Modules[i].dep, type |-> "PACKAGE", next |-> i, depth |-> 0]

First == agenda[1]
At(what) == pc \in {"bundle", "modules"} /\ agenda # << >> /\ First.is = what

\* m_ignoredPackages: a line is trimmed and taken for one name.
Ignored == {d \in Dep : {d} \in IgnoreLines}

\* Mutant: a package's own dependencies are forgotten.
RecursionExtraOnly(d, t, k) ==
  IF Type[d] = "REMAKEN" /\ cmd.recurse THEN <<Call(d, "EXTRA_DEPS", k)>> ELSE << >>

\* The calls bundleDependency makes for a dependency it bundled.
Recursion(d, t, k) ==
  CASE Type[d] # "REMAKEN" \/ ~cmd.recurse -> << >>
    [] Type[d] = "REMAKEN" /\ cmd.recurse /\ (t = "EXTRA_DEPS" \/ d \in Static) ->
         <<Call(d, "EXTRA_DEPS", k)>>
    [] Type[d] = "REMAKEN" /\ cmd.recurse /\ t # "EXTRA_DEPS" /\ d \notin Static ->
         <<Call(d, "EXTRA_DEPS", k), Call(d, t, k)>>

----------------------------------------------------------------------------
(* Library folders *)

\* The name that name n of folder f stands for, links followed.
End(f, n) ==
  LET hop[i \in 0..Cardinality(Name)] ==
        IF i = 0 THEN n
        ELSE IF f[hop[i-1]].kind = "link" THEN f[hop[i-1]].to ELSE hop[i-1]
  IN hop[Cardinality(Name)]
Exists(f, n) == f[End(f, n)].kind = "file"

FilesOf(f) == {n \in Name : f[n].kind = "file"}
LinksOf(f) == {n \in Name : f[n].kind = "link"}

\* copyLibrary takes extensions off until it meets the suffix.
IsLibrary(n) == n \in Suffixed

\* Mutant: a link that is there already is kept.
CopyLinkOnce(f, n, entry) == IF f[n].kind = "link" THEN f ELSE [f EXCEPT ![n] = entry]

\* copyLibrary of a link: a link of this name is removed first.
CopyLink(f, n, entry) == [f EXCEPT ![n] = entry]

\* copyLibrary of a file: copy_file writes through a link of this name.
CopyFile(f, n, entry) ==
  IF ~Exists(f, n) \/ cmd.override THEN [f EXCEPT ![End(f, n)] = entry] ELSE f

----------------------------------------------------------------------------
(* bundle *)

Finish(result) ==
  /\ pc' = "done"
  /\ outcome' = result
  /\ agenda' = << >> /\ left' = {} /\ copying' = FALSE

\* A runtime_error: bundle returns -1; bundleXpcf does not look at what its call of
\* bundle returns and goes on.
Fail ==
  IF cmd.xpcf /\ pc = "bundle"
  THEN /\ pc' = "config" /\ agenda' = << >> /\ left' = {} /\ copying' = FALSE
       /\ UNCHANGED outcome
  ELSE Finish("failed")

\* bundle and bundleXpcf up to the first call of bundleDependencies.
bundle ==
  /\ pc = "idle"
  /\ \E c \in Commands : cmd' = c
  /\ IF cmd'.xpcf THEN config' \in Config ELSE config' = "good"
  /\ pc' = "bundle"
  /\ agenda' = <<Call(Project, "EXTRA_DEPS", 1), Call(Project, "PACKAGE", 1)>>
  /\ UNCHANGED <<lib, dest, paths, left, copying, outcome, bundled>>

\* The next dependency file of a call; a line that is not valid ends the command.
bundleDependencies ==
  /\ At("call")
  /\ First.next <= Len(Files[First.at][First.type])
  /\ LET file == Files[First.at][First.type][First.next]
         lines == [i \in DOMAIN file.deps |-> Visit(file.deps[i], First.type, First.depth)]
     IN IF file.valid
        THEN /\ agenda' = lines \o <<[First EXCEPT !.next = @ + 1]>> \o Tail(agenda)
             /\ UNCHANGED <<pc, left, copying, outcome>>
        ELSE Fail
  /\ UNCHANGED <<lib, dest, paths, command, bundled>>

returns ==
  /\ At("call")
  /\ First.next > Len(Files[First.at][First.type])
  /\ agenda' = Tail(agenda)
  /\ UNCHANGED <<lib, dest, paths, pc, command, left, copying, outcome, bundled>>

\* A dependency of another type, or in packageignoreinstall.txt.
ignoreDependency ==
  /\ At("dependency")
  /\ Type[First.at] = "CHOCO" \/ First.at \in Ignored
  /\ agenda' = Tail(agenda)
  /\ UNCHANGED <<lib, dest, paths, pc, command, left, copying, outcome, bundled>>

ToBundle ==
  At("dependency") /\ Type[First.at] # "CHOCO" /\ First.at \notin Ignored /\ ~copying

\* conan, brew or vcpkg copy the libraries, or fail.
bundleByTool ==
  /\ ToBundle
  /\ Type[First.at] = "CONAN"
  /\ \/ agenda' = Tail(agenda) /\ UNCHANGED <<pc, left, copying, outcome>>
     \/ Fail
  /\ UNCHANGED <<lib, dest, paths, command, bundled>>

\* bundleArtefact without a library folder: a warning, or the end of the command;
\* the empty path it returns stops the recursion at this package.
withoutLibrary ==
  /\ ToBundle
  /\ Type[First.at] = "REMAKEN"
  /\ lib[First.at] = NoFolder
  /\ IF cmd.ignoreErrors \/ First.at \in HeaderOnly
     THEN agenda' = Tail(agenda) /\ UNCHANGED <<pc, left, copying, outcome>>
     ELSE Fail
  /\ UNCHANGED <<lib, dest, paths, command, bundled>>

\* copyLibraries begins, for a dependency or for an XPCF module; a module without
\* folder is an error whether or not --ignore-errors is given, as the folder is
\* iterated over all the same.
copyLibraries ==
  /\ \/ ToBundle /\ Type[First.at] = "REMAKEN"
     \/ At("module") /\ ~copying
  /\ lib[First.at] # NoFolder
  /\ copying' = TRUE
  /\ left' = FilesOf(lib[First.at]) \union LinksOf(lib[First.at])
  /\ UNCHANGED <<lib, dest, paths, pc, command, agenda, outcome, bundled>>

withoutModule ==
  /\ At("module") /\ ~copying
  /\ lib[First.at] = NoFolder
  /\ Fail
  /\ UNCHANGED <<lib, dest, paths, command, bundled>>

\* Files first, ...
copyFile ==
  /\ copying
  /\ \E n \in left \intersect FilesOf(lib[First.at]) :
       /\ left' = left \ {n}
       /\ IF IsLibrary(n)
          THEN /\ dest' = CopyFile(dest, n, lib[First.at][n])
               /\ bundled' = bundled \union {<<First.at, n>>}
          ELSE UNCHANGED <<dest, bundled>>
  /\ UNCHANGED <<lib, paths, pc, command, agenda, copying, outcome>>

\* ... then links; copy_symlink fails where a file has the name.
copyLink ==
  /\ copying
  /\ left \intersect FilesOf(lib[First.at]) = {}
  /\ \E n \in left :
       IF ~IsLibrary(n)
       THEN left' = left \ {n} /\ UNCHANGED <<dest, bundled, pc, agenda, copying, outcome>>
       ELSE IF dest[n].kind = "file"
       THEN Fail /\ UNCHANGED <<dest, bundled>>
       ELSE /\ left' = left \ {n}
            /\ dest' = CopyLink(dest, n, lib[First.at][n])
            /\ bundled' = bundled \union {<<First.at, n>>}
            /\ UNCHANGED <<pc, agenda, copying, outcome>>
  /\ UNCHANGED <<lib, paths, command>>

\* No further call fits on the native stack.
StackFull == First.depth = MaxDepth

\* The libraries are copied: on with the package's own dependencies.
copied ==
  /\ copying /\ left = {}
  /\ copying' = FALSE
  /\ LET calls == IF First.is = "module" THEN << >>
                  ELSE Recursion(First.at, First.type, First.depth + 1)
     IN IF calls # << >> /\ StackFull
        THEN Finish("killed")
        ELSE agenda' = calls \o Tail(agenda) /\ UNCHANGED <<pc, left, outcome>>
  /\ UNCHANGED <<lib, dest, paths, command, bundled>>

----------------------------------------------------------------------------
(* bundleXpcf *)

\* Nothing is left to do.
bundleDone ==
  /\ pc \in {"bundle", "modules"}
  /\ agenda = << >>
  /\ IF pc = "bundle" /\ cmd.xpcf
     THEN pc' = "config" /\ UNCHANGED <<agenda, left, copying, outcome>>
     ELSE Finish("ok")
  /\ UNCHANGED <<lib, dest, paths, command, bundled>>

\* Mutant: a module declared twice is forgotten.
DeclaredOnce ==
  {i \in DOMAIN Modules : \A j \in DOMAIN Modules \ {i} : Modules[j].name # Modules[i].name}

\* declareModule: the first module of each name.
Declared ==
  {i \in DOMAIN Modules : \A j \in 1..(i-1) : Modules[j].name # Modules[i].name}

\* A file that cannot be loaded declares no module.
declareModules == IF config = "good" THEN Declared ELSE {}

\* updateXpcfModulesPath on the copy.
newPaths == IF config = "good" THEN "new" ELSE "old"

\* The dependency file next to the version folder found in the module's path, or in
\* the working directory.
DependenciesOfModule(i) ==
  Call(IF Modules[i].rooted THEN Modules[i].dep ELSE Project, "PACKAGE", 1)

\* The configuration is copied, then parsed: another root is an error.  Then the
\* libraries of each module, then the dependencies of their packages.
bundleXpcf ==
  /\ pc = "config"
  /\ IF config = "alien"
     THEN Finish("failed") /\ paths' = "old"
     ELSE /\ pc' = "modules"
          /\ paths' = newPaths
          /\ \E order \in SetToSeqs(declareModules) :
               agenda' = [i \in DOMAIN order |-> Module(order[i])] \o
                         [i \in DOMAIN order |-> DependenciesOfModule(order[i])]
          /\ UNCHANGED <<left, copying, outcome>>
  /\ UNCHANGED <<lib, dest, command, bundled>>

exit ==
  /\ pc = "done"
  /\ pc' = "idle" /\ cmd' = NoCommand /\ config' = "good"
  /\ outcome' = "none" /\ bundled' = {}
  /\ UNCHANGED <<lib, dest, paths, agenda, left, copying>>

\* The process is killed.
kill ==
  /\ pc \notin {"idle", "done"}
  /\ Finish("killed")
  /\ UNCHANGED <<lib, dest, paths, command, bundled>>

\* Another release of a package is installed.
upgrade ==
  /\ pc = "idle"
  /\ \E d \in Dep : \E f \in Releases[d] : lib' = [lib EXCEPT ![d] = f]
  /\ UNCHANGED <<dest, paths, pc, command, agenda, left, copying, outcome, bundled>>

----------------------------------------------------------------------------

Step ==
  \/ bundleDependencies \/ returns \/ ignoreDependency \/ bundleByTool
  \/ withoutLibrary \/ copyLibraries \/ withoutModule \/ copyFile \/ copyLink
  \/ copied \/ bundleDone \/ bundleXpcf \/ exit

Init ==
  /\ lib \in [Dep -> UNION {Releases[d] : d \in Dep}] /\ \A d \in Dep : lib[d] \in Releases[d]
  /\ dest = NoFolder /\ paths = "none"
  /\ pc = "idle" /\ cmd = NoCommand /\ config = "good"
  /\ agenda = << >> /\ left = {} /\ copying = FALSE
  /\ outcome = "none" /\ bundled = {}

Next == bundle \/ Step \/ kill \/ upgrade

Spec == Init /\ [][Next]_vars
=============================================================================
