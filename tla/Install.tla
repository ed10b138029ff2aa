------------------------------ MODULE Install ------------------------------
(***************************************************************************)
(* remaken install: DependencyManager::retrieve and what it calls          *)
(* (src/src/managers/DependencyManager.cpp), together with the two other   *)
(* users of the same DependencyManager and of its Cache (info/parse and    *)
(* clean).                                                                 *)
(*                                                                         *)
(* Any number of remaken processes share the packages folder, the system   *)
(* package tools, the cache file and the projects' folders.  The mutual    *)
(* recursion retrieveDependencies / retrieveDependency is an explicit      *)
(* stack of frames, one per call of retrieveDependencies, top first.       *)
(*                                                                         *)
(* Abstractions.  A package folder is the set of its parts (directories    *)
(* and files the program tests for); an archive is the set of parts it     *)
(* unpacks.  A part that is being written, or was when its writer stopped, *)
(* is there but cut.  One build configuration (os, architecture, mode,     *)
(* config).  The dependency lists are given: a part of that name is on     *)
(* disk or not, whole or cut.                                              *)
(***************************************************************************)
EXTENDS Integers, Sequences, Cache

CONSTANTS
  Proc,        \* remaken processes
  Project,     \* root folders holding a packagedependencies.txt
  Dep,         \* dependencies (one package, one version)
  Cond,        \* configure conditions
  Type,        \* Type[d]: "REMAKEN", "CONAN" or "SYSTEM" (any other type)
  Mode,        \* Mode[d]: link mode, "shared", "static" or "na"
  Archive,     \* Archive[o]: parts of a complete folder of o
  Lists,       \* Lists[o][f]: the lines of dependency file f of folder o
  CondOn,      \* CondOn[o]: conditions with DEFINES += in o's conditions file
  CondOff,     \* CondOff[o]: conditions with DEFINES -= there
  Options,     \* option records a user may start install with
  MaxDepth,    \* frames the native stack holds
  Torn,        \* Torn[u]: other sources that a piece of the line of u spells
  Interruptible \* TRUE if an extraction, a clean or a write of the cache may be
                \* seen, or stop, half-way

\* The project of a process that runs no install.
NoProject == "none"

Owner == Project \union Dep

PackageFiles == {"packagedependencies", "packagedependencies-os"}
ExtraFiles == {"extra-packages", "extra-packages-os"}
FileName == PackageFiles \union ExtraFiles \union {"packagedependencies-static"}
Marker == {".lib", ".bin", ".headers"}
Directory == {"pkginfo", "lib", "bin", "interfaces"}
Part == FileName \union Marker \union Directory

FileType == {"PACKAGE", "EXTRA_DEPS"}
Line == [dep : Dep, conds : SUBSET Cond, valid : BOOLEAN]
OptionRecord ==
  [cache : BOOLEAN, force : BOOLEAN, invert : BOOLEAN, remoteOnly : BOOLEAN,
   alternate : BOOLEAN, on : SUBSET Cond, off : SUBSET Cond]
Url == Dep \X {"primary", "alternate"}

ASSUME ConstantsAssumption ==
  /\ Project \intersect Dep = {}
  /\ NoProject \notin Project
  /\ Type \in [Dep -> {"REMAKEN", "CONAN", "SYSTEM"}]
  /\ Mode \in [Dep -> {"shared", "static", "na"}]
  /\ Archive \in [Owner -> SUBSET Part]
  /\ Lists \in [Owner -> [FileName -> Seq(Line)]]
  /\ CondOn \in [Owner -> SUBSET Cond]
  /\ CondOff \in [Owner -> SUBSET Cond]
  /\ \A o \in Owner : CondOn[o] \intersect CondOff[o] = {}
  /\ \A o \in Options : o.on \intersect o.off = {}
  /\ Options \subseteq OptionRecord
  /\ MaxDepth \in Nat
  /\ Torn \in [Url -> SUBSET Url]
  /\ \A u \in Url : \A v \in Torn[u] : Torn[v] \subseteq Torn[u]
  /\ Interruptible \in BOOLEAN

VARIABLES
  \* shared: the file system and the system's package databases
  disk,       \* disk[o]: parts present in folder o ({}: no folder)
  cut,        \* <<d, x>>: not all that belongs to part x of package d is there
  system,     \* dependencies installed by system tools, conan, vcpkg
  remotes,    \* dependencies whose remote was added to its tool
  cacheFile,  \* .remaken-cache
  root,       \* the remaken root folder exists
  generated,  \* generated[o]: conditions in o's generated conditions file
  \* per process
  pc,         \* what the process is doing
  project,    \* the project of the command
  opts,       \* its options
  stack,      \* calls of retrieveDependencies in progress or to come
  seen,       \* entries of the archive that the unzip it runs has come to
  open,       \* the entry that this unzip is writing (at most one)
  mem,        \* the Cache object
  outcome,    \* what the command will return: "none" while it runs
  done,       \* history: <<d, type>> that retrieveDependency went past
  begun,      \* history: dependencies this command began to install
  disturbed   \* history: those of them that another process unpacked into since

shared == <<disk, cut, system, remotes, cacheFile, root, generated>>
extraction == <<seen, open>>
history == <<done, begun, disturbed>>
local == <<pc, project, opts, stack, extraction, mem, outcome, history>>
vars == <<shared, local>>
files == <<disk, cut, system, remotes, root, generated>>
command == <<project, opts>>

NoOptions ==
  [cache |-> FALSE, force |-> FALSE, invert |-> FALSE, remoteOnly |-> FALSE,
   alternate |-> FALSE, on |-> {}, off |-> {}]

Frame ==
  [owner : Owner, type : FileType, opened : BOOLEAN, files : SUBSET FileName,
   file : FileName, todo : SUBSET Nat, conds : SUBSET Cond]

----------------------------------------------------------------------------
(* Helpers *)

\* Dependency files of a type, in the order getChildrenDependencies lists them.
BaseFile(t) == IF t = "PACKAGE" THEN "packagedependencies" ELSE "extra-packages"
FilesOf(t) == IF t = "PACKAGE" THEN PackageFiles ELSE ExtraFiles

\* Mutant: the type and the file swapped.
NewFrameSwapped(o, t) ==
  [owner |-> o, type |-> BaseFile(t), opened |-> FALSE, files |-> {},
   file |-> t, todo |-> {}, conds |-> {}]

NewFrame(o, t) ==
  [owner |-> o, type |-> t, opened |-> FALSE, files |-> {},
   file |-> BaseFile(t), todo |-> {}, conds |-> {}]

\* Mutant: only the extra packages of a package.
RecursionExtraOnly(d, t) ==
  IF Type[d] = "REMAKEN" THEN <<NewFrame(d, "EXTRA_DEPS")>> ELSE << >>

\* The calls retrieveDependency makes after an installation: extra-packages
\* always, the file of its own type unless that is extra-packages.
Recursion(d, t) ==
  CASE Type[d] # "REMAKEN" -> << >>
    [] Type[d] = "REMAKEN" /\ t = "EXTRA_DEPS" -> <<NewFrame(d, "EXTRA_DEPS")>>
    [] Type[d] = "REMAKEN" /\ t # "EXTRA_DEPS" ->
         <<NewFrame(d, "EXTRA_DEPS"), NewFrame(d, t)>>

\* A condition's value for the files of folder o: --condition overrides the
\* conditions file of the folder; a condition in neither is asked for.
Enabled(op, o, c) == c \in op.on \union (CondOn[o] \ op.off)
Disabled(op, o, c) == c \in op.off \union (CondOff[o] \ op.on)
Mandatory(op, o, line) == \A c \in line.conds : Enabled(op, o, c)
SwitchedOff(op, o, line) == \E c \in line.conds : Disabled(op, o, c)

\* What .pkginfo says of an installed package, or the values assumed without.
WithLib(d) == "pkginfo" \in disk[d] => ".lib" \in disk[d]
WithBin(d) == "pkginfo" \in disk[d] /\ ".bin" \in disk[d]
WithHeaders(d) == "pkginfo" \in disk[d] => ".headers" \in disk[d]
LibOrBinMissing(d) ==
  \/ WithLib(d) /\ "lib" \notin disk[d]
  \/ WithBin(d) /\ "bin" \notin disk[d]

\* DependencyManager::installDep: is there something to install?
installDep(p, d, url) ==
  CASE Type[d] = "SYSTEM" ->
         opts[p].cache => ~contains(mem[p], cacheFile, url)
    [] Type[d] # "SYSTEM" /\ opts[p].cache ->
         IF Mode[d] = "na" \/ (WithHeaders(d) /\ ~WithBin(d) /\ ~WithLib(d))
         THEN disk[d] = {}
         ELSE LibOrBinMissing(d)
    [] Type[d] # "SYSTEM" /\ ~opts[p].cache ->
         IF Mode[d] = "na" THEN disk[d] = {} ELSE LibOrBinMissing(d)

Top(p) == stack[p][1]
FileLines(fr) == Lists[fr.owner][fr.file]

\* The top frame's file is at line i: the first of the lines left of it.
Left(p) == IF stack[p] = << >> THEN {} ELSE Top(p).todo
AtLine(p, i) == i \in Left(p) /\ \A j \in Left(p) : i <= j
LineAt(p, i) == FileLines(Top(p))[i]

\* --invert-remote-order concerns remaken packages only.
Inverted(p, d) == opts[p].invert /\ Type[d] = "REMAKEN"
FirstRepo(p, d) == IF Inverted(p, d) THEN "alternate" ELSE "primary"
SecondRepo(p, d) == IF Inverted(p, d) THEN "primary" ELSE "alternate"

\* Mutants: the conditions of the line are forgotten; a visit is made only once.
AfterLineNoConditions(p, i) ==
  LET rest == [Top(p) EXCEPT !.todo = @ \ {i}]
  IN Recursion(LineAt(p, i).dep, Top(p).type) \o <<rest>> \o Tail(stack[p])
AfterLineOnce(p, i) ==
  LET line == LineAt(p, i)
      rest == [Top(p) EXCEPT !.todo = @ \ {i}, !.conds = @ \union line.conds]
      again == <<line.dep, Top(p).type>> \in done[p]
  IN (IF again THEN << >> ELSE Recursion(line.dep, Top(p).type))
       \o <<rest>> \o Tail(stack[p])

\* The stack when retrieveDependency returns to its caller's loop at line i:
\* the recursive calls first, the line is gone and its conditions are kept.
AfterLine(p, i) ==
  LET line == LineAt(p, i)
      rest == [Top(p) EXCEPT !.todo = @ \ {i}, !.conds = @ \union line.conds]
  IN Recursion(line.dep, Top(p).type) \o <<rest>> \o Tail(stack[p])

Fits(p, i) == Len(AfterLine(p, i)) <= MaxDepth

\* The unzip that p runs has ended, or is killed with p.
NoExtraction(p) ==
  /\ seen' = [seen EXCEPT ![p] = {}]
  /\ open' = [open EXCEPT ![p] = {}]

\* An exception caught in retrieve(), or its normal end: the DependencyManager
\* is destroyed next.
Stop(p, result) ==
  /\ pc' = [pc EXCEPT ![p] = "flush"]
  /\ outcome' = [outcome EXCEPT ![p] = result]
  /\ stack' = [stack EXCEPT ![p] = << >>]
  /\ NoExtraction(p)

\* The process is gone: everything it kept in memory with it.
Gone(p) ==
  /\ pc' = [pc EXCEPT ![p] = "idle"]
  /\ project' = [project EXCEPT ![p] = NoProject]
  /\ opts' = [opts EXCEPT ![p] = NoOptions]
  /\ stack' = [stack EXCEPT ![p] = << >>]
  /\ NoExtraction(p)
  /\ mem' = [mem EXCEPT ![p] = EmptyCache]
  /\ outcome' = [outcome EXCEPT ![p] = "none"]
  /\ done' = [done EXCEPT ![p] = {}]
  /\ begun' = [begun EXCEPT ![p] = {}]
  /\ disturbed' = [disturbed EXCEPT ![p] = {}]

----------------------------------------------------------------------------
(* remaken install *)

NobodyCleans == \A q \in Proc : pc[q] # "clean"

\* DependencyManager::retrieve: extra-packages of the project first, then its
\* packagedependencies; without the latter the command fails at once.
retrieve(p) ==
  /\ pc[p] = "idle"
  /\ NobodyCleans
  /\ \E pr \in Project, o \in Options :
       /\ project' = [project EXCEPT ![p] = pr]
       /\ opts' = [opts EXCEPT ![p] = o]
       /\ IF BaseFile("PACKAGE") \in disk[pr]
          THEN /\ pc' = [pc EXCEPT ![p] = "run"]
               /\ stack' = [stack EXCEPT ![p] = <<NewFrame(pr, "EXTRA_DEPS"),
                                                 NewFrame(pr, "PACKAGE")>>]
               /\ UNCHANGED <<extraction, outcome>>
          ELSE Stop(p, "failed")
  /\ UNCHANGED <<shared, mem, history>>

\* Entry of retrieveDependencies: which of the two files of the type exist.
retrieveDependencies(p) ==
  /\ pc[p] = "run"
  /\ stack[p] # << >>
  /\ ~Top(p).opened
  /\ stack' = [stack EXCEPT ![p][1] =
       [Top(p) EXCEPT !.opened = TRUE,
                      !.files = FilesOf(Top(p).type) \intersect disk[Top(p).owner]]]
  /\ UNCHANGED <<shared, pc, command, extraction, mem, outcome, history>>

\* The next file of the loop is f: the file of all systems before -os's.
AtFile(p, f) ==
  /\ pc[p] = "run"
  /\ stack[p] # << >>
  /\ Top(p).opened
  /\ Top(p).todo = {}
  /\ f \in Top(p).files
  /\ BaseFile(Top(p).type) \in Top(p).files => f = BaseFile(Top(p).type)

\* How many lines of file f of folder o are read: none if an unzip has just removed
\* the file, and only the first ones of a file that is cut.
LinesRead(o, f) ==
  IF f \notin disk[o] THEN {0}
  ELSE IF <<o, f>> \in cut THEN 0 .. Len(Lists[o][f]) ELSE {Len(Lists[o][f])}

\* Mutant: every line is kept, whatever its conditions.
FilteredNot(op, o, f, n, kept) == kept = 1 .. n

\* filterConditionDependencies: of the first n lines of file f, those in kept are
\* left; a line behind a condition that is off is dropped, the user refuses some of the
\* undecided ones.
Filtered(op, o, f, n, kept) ==
  /\ kept \subseteq 1 .. n
  /\ \A i \in 1 .. n :
       /\ Mandatory(op, o, Lists[o][f][i]) => i \in kept
       /\ SwitchedOff(op, o, Lists[o][f][i]) => i \notin kept

\* parse: an invalid line of the file ends the command before anything of the file is
\* installed.
parseFile(p) ==
  \E f \in FileName :
    LET o == Top(p).owner
    IN /\ AtFile(p, f)
       /\ \E n \in LinesRead(o, f) : \E kept \in SUBSET DOMAIN Lists[o][f] :
            /\ \A i \in 1 .. n : Lists[o][f][i].valid
            /\ Filtered(opts[p], o, f, n, kept)
            /\ stack' = [stack EXCEPT ![p][1] =
                 [Top(p) EXCEPT !.files = @ \ {f}, !.file = f, !.todo = kept]]
       /\ UNCHANGED <<shared, pc, command, extraction, mem, outcome, history>>

\* The line at which a file is cut is ignored, read as it was, or refused.
invalidFile(p) ==
  \E f \in FileName :
    LET o == Top(p).owner
    IN /\ AtFile(p, f)
       /\ \/ \E n \in LinesRead(o, f) : \E i \in 1 .. n : ~Lists[o][f][i].valid
          \/ f \in disk[o] /\ <<o, f>> \in cut
       /\ Stop(p, "failed")
       /\ UNCHANGED <<shared, command, mem, history>>

\* End of retrieveDependencies: the conditions file is removed, and written
\* again if a kept line had conditions; the call returns.
generateConditions(p) ==
  /\ pc[p] = "run"
  /\ stack[p] # << >>
  /\ Top(p).opened /\ Top(p).todo = {} /\ Top(p).files = {}
  /\ generated' = [generated EXCEPT ![Top(p).owner] = Top(p).conds]
  /\ IF Len(stack[p]) = 1
     THEN Stop(p, "ok")
     ELSE /\ stack' = [stack EXCEPT ![p] = Tail(@)]
          /\ UNCHANGED <<pc, extraction, outcome>>
  /\ UNCHANGED <<disk, cut, system, remotes, cacheFile, root, command, mem, history>>

\* retrieveDependency with --remote-only: nothing is installed or visited.
addArtefactRemote(p) ==
  \E i \in Left(p) :
    /\ pc[p] = "run" /\ AtLine(p, i)
    /\ opts[p].remoteOnly
    /\ LET d == LineAt(p, i).dep
       IN \/ /\ Inverted(p, d) => opts[p].alternate
             /\ stack' = [stack EXCEPT ![p][1] =
                  [Top(p) EXCEPT !.todo = @ \ {i},
                                 !.conds = @ \union LineAt(p, i).conds]]
             /\ remotes' = remotes \union ({d} \ {e \in Dep : Type[e] = "REMAKEN"})
             /\ UNCHANGED <<pc, extraction, outcome>>
          \/ /\ Type[d] # "REMAKEN" \* the tool refuses
             /\ Stop(p, "failed")
             /\ UNCHANGED remotes
    /\ UNCHANGED <<disk, cut, system, cacheFile, root, generated, command, mem, history>>

\* retrieveDependency, --invert-remote-order without an alternate repository.
noAlternate(p) ==
  \E i \in Left(p) :
    /\ pc[p] = "run" /\ AtLine(p, i)
    /\ Inverted(p, LineAt(p, i).dep) /\ ~opts[p].alternate
    /\ Stop(p, "failed")
    /\ UNCHANGED <<shared, command, mem, history>>

\* retrieveDependency is at line i, past its early exits.
Visiting(p, i) ==
  /\ pc[p] = "run" /\ AtLine(p, i)
  /\ ~opts[p].remoteOnly
  /\ Inverted(p, LineAt(p, i).dep) => opts[p].alternate

ToInstall(p, d) == installDep(p, d, <<d, FirstRepo(p, d)>>) \/ opts[p].force

\* Past the installation of line i: on with the recursive calls.
GoPast(p, i) ==
  /\ Fits(p, i)
  /\ stack' = [stack EXCEPT ![p] = AfterLine(p, i)]
  /\ done' = [done EXCEPT ![p] =
                @ \union {<<LineAt(p, i).dep, Top(p).type>>}]
  /\ pc' = [pc EXCEPT ![p] = "run"]
  /\ NoExtraction(p)

\* Nothing to install; the message looks into the cache, which loads it.
alreadyInstalled(p) ==
  \E i \in Left(p) :
    /\ Visiting(p, i)
    /\ ~ToInstall(p, LineAt(p, i).dep)
    /\ mem' = [mem EXCEPT ![p] = load(@, cacheFile)]
    /\ GoPast(p, i)
    /\ UNCHANGED <<shared, command, outcome, begun, disturbed>>

startInstall(p) ==
  \E i \in Left(p) :
    /\ Visiting(p, i)
    /\ ToInstall(p, LineAt(p, i).dep)
    /\ begun' = [begun EXCEPT ![p] = @ \union {LineAt(p, i).dep}]
    /\ pc' = [pc EXCEPT ![p] = "install"]
    /\ mem' = IF Type[LineAt(p, i).dep] = "SYSTEM" /\ opts[p].cache
              THEN [mem EXCEPT ![p] = load(@, cacheFile)]
              ELSE mem
    /\ UNCHANGED <<shared, command, stack, extraction, outcome, done, disturbed>>

\* Line i is being installed, from repository repo.
Installing(p, i, repo) ==
  /\ AtLine(p, i)
  /\ \/ pc[p] = "install" /\ repo = FirstRepo(p, LineAt(p, i).dep)
     \/ pc[p] = "alternate" /\ repo = SecondRepo(p, LineAt(p, i).dep)

\* Declared repositories of system, conan, ... dependencies are tools; remaken
\* repositories and every alternate repository hold archives.
ByTool(d, repo) == Type[d] # "REMAKEN" /\ repo = "primary"

\* p runs unzip, or 7z, on an archive of d: installArtefactImpl.
Extracting(p, d) ==
  \E i \in Left(p), repo \in {"primary", "alternate"} :
    /\ Installing(p, i, repo)
    /\ LineAt(p, i).dep = d
    /\ ~ByTool(d, repo)

\* Those who began to install d before see it change under them.
disturb(p, d) ==
  disturbed' = [q \in Proc |->
    IF q # p /\ d \in begun[q] THEN disturbed[q] \union {d} ELSE disturbed[q]]

\* The next entry x of the archive is opened for writing, a new one or, with
\* --override, 7z or unzip -u and a newer archive, one that is there.  From now on
\* who wrote it before writes a file that nobody sees.
openEntry(p) ==
  \E d \in Dep : \E x \in Archive[d] \ seen[p] :
    /\ Extracting(p, d)
    /\ open[p] = {}
    /\ disk' = [disk EXCEPT ![d] = @ \union {x}]
    /\ cut' = cut \union {<<d, x>>}
    /\ open' = [q \in Proc |-> IF q = p THEN {<<d, x>>} ELSE open[q] \ {<<d, x>>}]
    /\ seen' = [seen EXCEPT ![p] = @ \union {x}]
    /\ disturb(p, d)
    /\ root' = TRUE
    /\ UNCHANGED <<system, remotes, cacheFile, generated, pc, command, stack, mem,
                   outcome, done, begun>>

\* unzip removes a file that it is going to write again (its folder stays).
unlinkEntry(p) ==
  \E d \in Dep : \E x \in (disk[d] \intersect Archive[d]) \ (seen[p] \union Directory) :
    /\ Extracting(p, d)
    /\ open[p] = {}
    /\ disk[d] # {x}
    /\ disk' = [disk EXCEPT ![d] = @ \ {x}]
    /\ cut' = cut \ {<<d, x>>}
    /\ open' = [q \in Proc |-> open[q] \ {<<d, x>>}]
    /\ disturb(p, d)
    /\ UNCHANGED <<system, remotes, cacheFile, root, generated, pc, command, stack,
                   seen, mem, outcome, done, begun>>

\* The rest of the entry is written.
writeEntry(p) ==
  /\ open[p] # {}
  /\ cut' = cut \ open[p]
  /\ open' = [open EXCEPT ![p] = {}]
  /\ UNCHANGED <<disk, system, remotes, cacheFile, root, generated, pc, command, stack,
                 seen, mem, outcome, history>>

\* Mutant: unzip -u also for --force.
skipEntryForced(p) ==
  \E d \in Dep : \E x \in (disk[d] \intersect Archive[d]) \ seen[p] :
    /\ Extracting(p, d)
    /\ open[p] = {}
    /\ seen' = [seen EXCEPT ![p] = @ \union {x}]
    /\ UNCHANGED <<shared, pc, command, stack, open, mem, outcome, history>>

\* unzip -u leaves alone what is there and not older, cut or not; --force passes -o.
skipEntry(p) ==
  \E d \in Dep : \E x \in (disk[d] \intersect Archive[d]) \ seen[p] :
    /\ Extracting(p, d)
    /\ open[p] = {}
    /\ ~opts[p].force
    /\ seen' = [seen EXCEPT ![p] = @ \union {x}]
    /\ UNCHANGED <<shared, pc, command, stack, open, mem, outcome, history>>

extract(p) == openEntry(p) \/ unlinkEntry(p) \/ writeEntry(p) \/ skipEntry(p)

\* installArtefact returns: the tool has done it, or unzip came to the end of an
\* archive; one without d's folder is refused.
Delivered(p, d, repo) ==
  \/ ByTool(d, repo)
  \/ Archive[d] # {} /\ seen[p] = Archive[d] /\ open[p] = {}

\* The source that the dependency was found at goes to the cache.
installSucceeds(p) ==
  \E i \in Left(p), repo \in {"primary", "alternate"} :
    /\ Installing(p, i, repo)
    /\ LET d == LineAt(p, i).dep
       IN /\ Delivered(p, d, repo)
          /\ system' = IF ByTool(d, repo) THEN system \union {d} ELSE system
          /\ mem' = IF Type[d] # "CONAN" /\ opts[p].cache
                    THEN [mem EXCEPT ![p] = add(@, cacheFile, <<d, repo>>)]
                    ELSE mem
    /\ GoPast(p, i)
    /\ UNCHANGED <<disk, cut, remotes, cacheFile, root, generated, command, outcome,
                   begun, disturbed>>

\* With ~Interruptible an archive is unpacked completely or not at all.
CanStop(d) ==
  Interruptible \/ (disk[d] \in {{}, Archive[d]} /\ \A x \in Part : <<d, x>> \notin cut)

\* The download, the tool or the extraction fails: the other repository, ...
tryAlternate(p) ==
  \E i \in Left(p) :
    /\ pc[p] = "install" /\ AtLine(p, i)
    /\ CanStop(LineAt(p, i).dep)
    /\ opts[p].alternate
    /\ pc' = [pc EXCEPT ![p] = "alternate"]
    /\ NoExtraction(p)
    /\ UNCHANGED <<shared, command, stack, mem, outcome, history>>

\* Mutants: after the alternate repository the first one again; the source goes to
\* the cache although nothing was installed; the failure is caught and forgotten.
installFailsRetries(p) ==
  \E i \in Left(p) :
    /\ pc[p] \in {"install", "alternate"} /\ AtLine(p, i)
    /\ CanStop(LineAt(p, i).dep)
    /\ IF pc[p] = "alternate"
       THEN pc' = [pc EXCEPT ![p] = "install"] /\ NoExtraction(p) /\ UNCHANGED <<stack, outcome>>
       ELSE ~opts[p].alternate /\ Stop(p, "failed")
    /\ UNCHANGED <<shared, command, mem, history>>
installFailsCached(p) ==
  \E i \in Left(p) :
    /\ pc[p] \in {"install", "alternate"} /\ AtLine(p, i)
    /\ pc[p] = "install" => ~opts[p].alternate
    /\ mem' = [mem EXCEPT ![p] = add(@, cacheFile, <<LineAt(p, i).dep, "primary">>)]
    /\ Stop(p, "failed")
    /\ UNCHANGED <<shared, command, history>>

installFailsIgnored(p) ==
  \E i \in Left(p) :
    /\ pc[p] \in {"install", "alternate"} /\ AtLine(p, i)
    /\ CanStop(LineAt(p, i).dep)
    /\ pc[p] = "install" => ~opts[p].alternate
    /\ GoPast(p, i)
    /\ UNCHANGED <<shared, command, mem, outcome, begun, disturbed>>

\* ... and if there is none, or it fails too, the command fails.
installFails(p) ==
  \E i \in Left(p) :
    /\ pc[p] \in {"install", "alternate"} /\ AtLine(p, i)
    /\ CanStop(LineAt(p, i).dep)
    /\ pc[p] = "install" => ~opts[p].alternate
    /\ Stop(p, "failed")
    /\ UNCHANGED <<shared, command, mem, history>>

\* The recursion is deeper than the native stack: the process dies.
stackOverflow(p) ==
  \E i \in Left(p) :
    /\ \/ Visiting(p, i) /\ ~ToInstall(p, LineAt(p, i).dep)
       \/ \E repo \in {"primary", "alternate"} :
            /\ Installing(p, i, repo)
            /\ Delivered(p, LineAt(p, i).dep, repo)
    /\ ~Fits(p, i)
    /\ Gone(p)
    /\ UNCHANGED shared

----------------------------------------------------------------------------
(* The other commands, and the end of every command *)

\* info, parse, a declined clean: a DependencyManager that never uses its cache.
otherCommand(p) ==
  /\ pc[p] = "idle"
  /\ NobodyCleans
  /\ Stop(p, "ok")
  /\ UNCHANGED <<shared, command, mem, history>>

\* clean, confirmed by the user, who runs no other command meanwhile.
clean(p) ==
  /\ \A q \in Proc : pc[q] = "idle"
  /\ pc' = [pc EXCEPT ![p] = "clean"]
  /\ UNCHANGED <<shared, command, stack, extraction, mem, outcome, history>>

\* fs::remove_all(remaken root), one entry after the other in any order.
removeEntry(p) ==
  /\ pc[p] = "clean"
  /\ \/ \E d \in Dep : \E x \in disk[d] :
          /\ disk' = [disk EXCEPT ![d] = @ \ {x}]
          /\ cut' = cut \ {<<d, x>>}
          /\ UNCHANGED cacheFile
     \/ /\ cacheFile.exists
        /\ cacheFile' = NoCacheFile
        /\ UNCHANGED <<disk, cut>>
  /\ UNCHANGED <<system, remotes, root, generated, local>>

cleanDone(p) ==
  /\ pc[p] = "clean"
  /\ \A d \in Dep : disk[d] = {}
  /\ ~cacheFile.exists
  /\ root' = FALSE
  /\ generated' = [o \in Owner |-> IF o \in Dep THEN {} ELSE generated[o]]
  /\ Stop(p, "ok")
  /\ UNCHANGED <<disk, cut, system, remotes, cacheFile, command, mem, history>>

cleanFails(p) ==
  /\ pc[p] = "clean"
  /\ Interruptible
  /\ Stop(p, "failed")
  /\ UNCHANGED <<shared, command, mem, history>>

\* ~DependencyManager, ~Cache: the file is opened for writing, then written.
flush(p) ==
  /\ pc[p] = "flush"
  /\ cacheFile' = truncate(cacheFile, root)
  /\ IF root
     THEN /\ pc' = [pc EXCEPT ![p] = "write"]
          /\ UNCHANGED <<command, stack, extraction, mem, outcome, history>>
     ELSE Gone(p)
  /\ UNCHANGED files

\* What may be read of lines some of which are there in part only: a file cut at its
\* end, or what one process leaves of the longer file of another.
Pieces(urls) == urls \union UNION {Torn[u] : u \in {v \in urls : Interruptible}}

\* Pieces of the lines have reached the file, over those of another process.
writePart(p) ==
  /\ pc[p] = "write"
  /\ Interruptible
  /\ \E urls \in SUBSET (Pieces(mem[p].urls) \union Pieces(cacheFile.urls)) :
       cacheFile' = write([mem[p] EXCEPT !.urls = urls], cacheFile, {})
  /\ UNCHANGED <<files, local>>

writeCache(p) ==
  /\ pc[p] = "write"
  /\ \E kept \in SUBSET Pieces(cacheFile.urls) :
       cacheFile' = write(mem[p], cacheFile, kept)
  /\ Gone(p)
  /\ UNCHANGED files

\* The process is killed, or the machine stops.
crash(p) ==
  /\ pc[p] # "idle"
  /\ pc[p] = "clean" => Interruptible
  /\ pc[p] \in {"install", "alternate"} =>
       \A i \in Left(p) : AtLine(p, i) => CanStop(LineAt(p, i).dep)
  /\ Gone(p)
  /\ UNCHANGED shared

----------------------------------------------------------------------------
(* Specification *)

\* A process's own steps once a command is started.
Step(p) ==
  \/ retrieveDependencies(p) \/ parseFile(p) \/ invalidFile(p)
  \/ generateConditions(p) \/ addArtefactRemote(p) \/ noAlternate(p)
  \/ alreadyInstalled(p) \/ startInstall(p) \/ extract(p)
  \/ installSucceeds(p) \/ tryAlternate(p) \/ installFails(p)
  \/ stackOverflow(p) \/ removeEntry(p) \/ cleanDone(p) \/ cleanFails(p)
  \/ flush(p) \/ writeCache(p)

\* What users and the machine do.
Environment(p) ==
  retrieve(p) \/ otherCommand(p) \/ clean(p) \/ writePart(p) \/ crash(p)

Init ==
  /\ disk = [o \in Owner |-> IF o \in Project THEN Archive[o] ELSE {}]
  /\ cut = {}
  /\ system = {}
  /\ remotes = {}
  /\ cacheFile = NoCacheFile
  /\ root \in BOOLEAN
  /\ generated = [o \in Owner |-> {}]
  /\ pc = [p \in Proc |-> "idle"]
  /\ project = [p \in Proc |-> NoProject]
  /\ opts = [p \in Proc |-> NoOptions]
  /\ stack = [p \in Proc |-> << >>]
  /\ seen = [p \in Proc |-> {}]
  /\ open = [p \in Proc |-> {}]
  /\ mem = [p \in Proc |-> EmptyCache]
  /\ outcome = [p \in Proc |-> "none"]
  /\ done = [p \in Proc |-> {}]
  /\ begun = [p \in Proc |-> {}]
  /\ disturbed = [p \in Proc |-> {}]

Next == \E p \in Proc : Step(p) \/ Environment(p)

Spec == Init /\ [][Next]_vars

\* The program runs on once started: downloads and tools return, users answer.
FairSpec == Spec /\ \A p \in Proc : WF_vars(Step(p))
============================================================================
