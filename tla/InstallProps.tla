---------------------------- MODULE InstallProps ----------------------------
(***************************************************************************)
(* What remaken install promises, and what its code guarantees of it:      *)
(* properties of module Install.                                           *)
(***************************************************************************)
EXTENDS Install

\* Every variable stays in its domain.
TypeOK ==
  /\ disk \in [Owner -> SUBSET Part]
  /\ cut \subseteq Dep \X Part
  /\ system \subseteq Dep
  /\ remotes \subseteq Dep
  /\ cacheFile \in [exists : BOOLEAN, urls : SUBSET Url]
  /\ root \in BOOLEAN
  /\ generated \in [Owner -> SUBSET Cond]
  /\ pc \in [Proc -> {"idle", "run", "install", "alternate", "clean",
                      "flush", "write"}]
  /\ project \in [Proc -> Project \union {NoProject}]
  /\ opts \in [Proc -> OptionRecord]
  /\ stack \in [Proc -> Seq(Frame)]
  /\ seen \in [Proc -> SUBSET Part]
  /\ open \in [Proc -> SUBSET (Dep \X Part)]
  /\ mem \in [Proc -> [loaded : BOOLEAN, urls : SUBSET Url]]
  /\ outcome \in [Proc -> {"none", "ok", "failed"}]
  /\ done \in [Proc -> SUBSET (Dep \X FileType)]
  /\ begun \in [Proc -> SUBSET Dep]
  /\ disturbed \in [Proc -> SUBSET Dep]

----------------------------------------------------------------------------
(* What a project needs *)

\* A visit is a call of retrieveDependency: a dependency, found as a package
\* dependency or as an extra package.
Visit == Dep \X FileType

\* The file types that are read in a folder visited as type t.
ReadTypes(t) == IF t = "EXTRA_DEPS" THEN {"EXTRA_DEPS"} ELSE FileType

\* Line i of file f of folder o leads from a visit of o as type t to visit v.
Leads(o, t, f, i, v) ==
  /\ v[2] \in ReadTypes(t)
  /\ f \in FilesOf(v[2]) \intersect Archive[o]
  /\ i \in DOMAIN Lists[o][f]
  /\ v[1] = Lists[o][f][i].dep

\* A line of o that no condition can remove from a run with options op asks for v.
Needs(op, o, t, v) ==
  \E f \in FileName : \E i \in DOMAIN Lists[o][f] :
    Leads(o, t, f, i, v) /\ Mandatory(op, o, Lists[o][f][i])

\* A line of o that is not switched off by op asks for v.
MayNeed(op, o, t, v) ==
  \E f \in FileName : \E i \in DOMAIN Lists[o][f] :
    Leads(o, t, f, i, v) /\ ~SwitchedOff(op, o, Lists[o][f][i])

\* The smallest set of visits that holds roots and what its members lead to.
Reachable(roots, edges) ==
  LET closed == {S \in SUBSET Visit :
                   /\ roots \subseteq S
                   /\ \A e \in edges : e[1] \in S => e[2] \in S}
  IN {v \in Visit : \A S \in closed : v \in S}

\* The visits of packages in which retrieveDependency goes on to others.
Recursive == {v \in Visit : Type[v[1]] = "REMAKEN"}

NeedEdges(op) ==
  {e \in Recursive \X Visit : Needs(op, e[1][1], e[1][2], e[2])}
MayNeedEdges(op) ==
  {e \in Recursive \X Visit : MayNeed(op, e[1][1], e[1][2], e[2])}

\* <<pr, op, v>>: project pr requires visit v of an install with options op;
\* such an install may ask for v.
requires == UNION {{<<pr, op, v>> : v \in
  Reachable({u \in Visit : Needs(op, pr, "PACKAGE", u)}, NeedEdges(op))} :
    pr \in Project, op \in Options}
permits == UNION {{<<pr, op, v>> : v \in
  Reachable({u \in Visit : MayNeed(op, pr, "PACKAGE", u)}, MayNeedEdges(op))} :
    pr \in Project, op \in Options}

\* The same for the command that p runs.
Required(p) == {v \in Visit : <<project[p], opts[p], v>> \in requires}
Permitted(p) == {v \in Visit : <<project[p], opts[p], v>> \in permits}

\* Every part of d's archive is there, with all that belongs to it.
Unpacked(d) ==
  /\ Archive[d] # {}
  /\ Archive[d] \subseteq disk[d]
  /\ \A x \in Archive[d] : <<d, x>> \notin cut

\* A package is installed when its folder is complete; one that is not a remaken
\* package, also when its tool installed it.
Installed(d) ==
  Unpacked(d) \/ (Type[d] # "REMAKEN" /\ d \in system)

\* p's install command is about to return 0.
Succeeded(p) ==
  outcome[p] = "ok" /\ project[p] # NoProject /\ ~opts[p].remoteOnly

Complete(p) == \A v \in Required(p) : Installed(v[1])

----------------------------------------------------------------------------
(* Safety *)

\* "install --force" that returns 0 leaves everything its project requires
\* complete, whatever earlier crashes, half-done extractions and cut files left in
\* the packages folder, whatever the cache file says, and whoever was unpacking a
\* package when this command came to it; unless another process opened an entry of a
\* package after this command had begun to install it, for then the other, forced or
\* not, may leave it cut (AbstractFileRetriever.cpp l.126 locks nothing).
ForcedRunComplete ==
  \A p \in Proc : Succeeded(p) /\ opts[p].force /\ disturbed[p] = {} => Complete(p)

\* Without --force the same holds of one process at a time, on a machine that
\* never stops in the middle of an extraction, a clean or a write of the cache: a
\* lib folder that exists, or a cached source, then stands for a complete package.
SuccessComplete == \A p \in Proc : Succeeded(p) => Complete(p)

\* The sources whose lines a cache entry may come from: itself, and those that a torn
\* line, when there are any, turns into it.
Origins(u) == {u} \union {w \in Url : Interruptible /\ u \in Torn[w]}

\* u is no system dependency, or its tool installed it.
Honest(u) == Type[u[1]] = "SYSTEM" /\ u[2] = "primary" => u[1] \in system

\* An entry of the cache (file or loaded) is wrong only by a tear: it comes from the
\* line of a dependency that its tool did install.  Concurrent writers, truncation
\* and crashes lose entries, so that a tool is called again, and may turn 'libfoo-dev'
\* into 'libfoo' (Cache.cpp l.50-56), which is then skipped; with no name a piece of
\* another, or no torn write, every cached system dependency is installed.
CachedIsInstalled ==
  \A u \in Url :
    (u \in cacheFile.urls \/ \E p \in Proc : u \in mem[p].urls) =>
      \E w \in Origins(u) : Honest(w)

\* When install returns, with success or not, it has begun to install nothing that
\* every path from the project reaches through a condition switched off by
\* --condition or by a conditions file.
SwitchedOffStaysOut ==
  \A p \in Proc : outcome[p] # "none" /\ project[p] # NoProject =>
    begun[p] \subseteq {v[1] : v \in Permitted(p)}

\* After a successful install the generated conditions file of the project
\* holds every condition of its enabled package dependencies, and none that is
\* switched off (one process at a time).
GeneratedConditions ==
  \A p \in Proc : Succeeded(p) =>
    LET o == project[p]
    IN /\ \A c \in generated[o] : ~Disabled(opts[p], o, c)
       /\ \A f \in PackageFiles \intersect Archive[o] : \A i \in DOMAIN Lists[o][f] :
            Mandatory(opts[p], o, Lists[o][f][i]) => Lists[o][f][i].conds \subseteq generated[o]

\* <<op, v>>: what visit v needs leads back to v.
cycles == UNION {{<<op, v>> : v \in {u \in Recursive :
  u \in Reachable({e[2] : e \in {x \in NeedEdges(op) : x[1] = u}}, NeedEdges(op))}} :
    op \in Options}

\* A successful run never went round a cycle: a project one of whose required
\* packages requires itself is never installed, even when all of its packages
\* already are.
CycleNeverSucceeds ==
  \A p \in Proc : Succeeded(p) =>
    \A v \in Required(p) : <<opts[p], v>> \notin cycles

----------------------------------------------------------------------------
(* The abstract specification *)

\* What a command must have installed when it succeeds undisturbed: all that its
\* project requires if it was forced; nothing is promised of the others.
NeedOf ==
  [j \in Project \X Options |->
    {d \in Dep : /\ j[2].force /\ ~j[2].remoteOnly
                 /\ \E t \in FileType : <<j[1], j[2], <<d, t>>>> \in requires}]

\* The refinement mapping; only installs are jobs.
Idle == <<NoProject, NoOptions>>
JobOf == [p \in Proc |-> <<project[p], opts[p]>>]
ResultOf == [p \in Proc |-> IF project[p] = NoProject THEN "none" ELSE outcome[p]]
InstalledDeps == {d \in Dep : Installed(d)}

Abstract == INSTANCE Installer WITH
  Package <- Dep, Job <- Project \X Options, NoJob <- Idle, Need <- NeedOf,
  job <- JobOf, result <- ResultOf, installed <- InstalledDeps

\* The recursion over files, archives, two repositories, the cache and crashes is,
\* from the outside, a command that succeeds undisturbed only when what it needs is
\* there; and while any command installs, a package stops being complete only in the
\* hands of a command that has begun to install it, by which all others that had
\* begun it are disturbed.
ImplementsInstaller == Abstract!Spec

----------------------------------------------------------------------------
(* Liveness *)

\* A command that is started ends: no install loops for ever.
Terminates == \A p \in Proc : pc[p] # "idle" ~> pc[p] = "idle"

----------------------------------------------------------------------------
(* What the documentation says and the code does not do *)

\* README.md l.220: after install "a configure_conditions.pri file is generated
\* [...] with specified (by file or by user_prompt) enabled conditions".
EnabledConditionsRecorded ==
  \A p \in Proc : Succeeded(p) =>
    \A f \in (PackageFiles \union ExtraFiles) \intersect Archive[project[p]] :
      LET lines == Lists[project[p]][f]
      IN \A i \in DOMAIN lines :
           Mandatory(opts[p], project[p], lines[i]) => lines[i].conds \subseteq generated[project[p]]
=============================================================================
