----------------------------- MODULE Configure -----------------------------
(***************************************************************************)
(* remaken configure: ConfigureCommand::execute                            *)
(* (src/src/commands/ConfigureCommand.cpp) with DepUtils::parseRecurse and *)
(* the generator backends, for one project and one build configuration.    *)
(*                                                                         *)
(* A user edits packagedependencies.txt, installs packages and runs        *)
(* configure again and again; configure decides from two modification      *)
(* times whether it has anything to do.  Modification times are seconds    *)
(* (std::time_t): clock is the current second.                             *)
(*                                                                         *)
(* Abstractions.  A line of a dependency file is a record [dep, conds];    *)
(* the file of a kind of dependencies holds the set of those it was made   *)
(* for (module BuildInfo tells what is written of each).                   *)
(***************************************************************************)
EXTENDS Integers, FiniteSets

CONSTANTS
  Dep,           \* dependencies
  KindOf,        \* KindOf[d]: Dependency::Type of d
  Cond,          \* configure conditions
  Children,      \* Children[d]: lines of the dependency file in d's folder
  Drafts,        \* contents the user gives packagedependencies.txt
  OsLines,       \* lines of packagedependencies-<os>.txt
  ProjectOn,     \* conditions with DEFINES += in the project's own file
  ProjectOff,    \* conditions with DEFINES -= there
  Options,       \* option records
  Generator,     \* "qmake", "bazel", "cmake" or "json"
  MaxTime,       \* bound of the clock
  Killable       \* options of the runs that may be killed

\* Kinds configure generates files for, in its order, and other kinds.
Kinds == {"CONAN", "REMAKEN", "BREW", "SYSTEM"}
OtherKinds == {"VCPKG", "SCOOP", "CHOCO"}
Implemented == Generator \in {"qmake", "bazel"}

Line == [dep : Dep, conds : SUBSET Cond]
\* --force sets --override too.
OptionRecord == [force : BOOLEAN, override : BOOLEAN, on : SUBSET Cond, off : SUBSET Cond]

ASSUME ConfigureAssumption ==
  /\ KindOf \in [Dep -> Kinds \union OtherKinds]
  /\ Children \in [Dep -> SUBSET Line]
  /\ Drafts \subseteq SUBSET Line
  /\ OsLines \in SUBSET Line
  /\ ProjectOn \subseteq Cond /\ ProjectOff \subseteq Cond
  /\ ProjectOn \intersect ProjectOff = {}
  /\ Options \subseteq OptionRecord
  /\ \A op \in Options : op.on \intersect op.off = {} /\ (op.force => op.override)
  /\ MaxTime \in Nat \ {0}
  /\ Killable \subseteq Options

VARIABLES
  clock,      \* the current second
  draft,      \* packagedependencies.txt
  draftTime,  \* its modification time
  installed,  \* packages whose folder exists
  \* the build folder
  present,    \* its files: build-info files by their kind, "index", "stamp"
  content,    \* content[k]: what the build-info file of kind k was made for
  index,      \* kinds the main build-info file refers to
  stamp,      \* modification time of .timestamp
  \* the build platform folder, which configure never removes
  generated,  \* conditions in the generated conditions file
  \* the process
  pc, opts,
  map,        \* conditionsMap: the conditions on and off
  lines,      \* depsVect, later the dependencies kept
  todo,       \* kinds to generate
  outcome,    \* "none", "ok", "uptodate", "failed", "killed"
  \* history
  source,     \* packagedependencies.txt as the last run read it
  missed      \* it was edited after that, before that run wrote its timestamp

project == <<clock, draft, draftTime, installed>>
build == <<present, content, index, stamp>>
run == <<pc, opts, map, lines, todo, outcome>>
history == <<source, missed>>
vars == <<project, build, generated, run, history>>

BuildFile == Kinds \union {"index", "stamp"}
NoOptions == [force |-> FALSE, override |-> FALSE, on |-> {}, off |-> {}]
NoMap == [on |-> {}, off |-> {}]

----------------------------------------------------------------------------
(* Conditions and dependency files *)

\* insert_or_assign for every condition of on and off.
Assign(m, on, off) ==
  [on |-> (m.on \ off) \union on, off |-> (m.off \ on) \union off]

\* Mutant: the generated conditions first, the project's own over them.
ConditionsSwapped(op) ==
  Assign(Assign(Assign(NoMap, generated, {}), ProjectOn, ProjectOff), op.on, op.off)

\* The project's conditions file, then the generated one, then --condition.
Conditions(op) ==
  LET parsed == IF op.override \/ ~Implemented THEN NoMap
                ELSE Assign(Assign(NoMap, ProjectOn, ProjectOff), generated, {})
  IN Assign(parsed, op.on, op.off)

\* The lines parseRecurse collects from S: those of the folders of all packages
\* it meets, whatever their conditions.
Collected(S) ==
  LET closed == {T \in SUBSET (S \union UNION {Children[d] : d \in Dep}) :
                   /\ S \subseteq T
                   /\ \A l \in T : l.dep \in installed => Children[l.dep] \subseteq T}
  IN CHOOSE T \in closed : \A U \in closed : T \subseteq U

\* parseRecurse keeps no set of visited packages.
Endless(S) ==
  \E l \in Collected(S) :
    l.dep \in installed /\ l.dep \in {m.dep : m \in Collected(Children[l.dep])}

CondsOf(S) == UNION {l.conds : l \in S}
Rank == [CONAN |-> 1, REMAKEN |-> 2, BREW |-> 3, SYSTEM |-> 4]
DepsOf(S, k) == {d \in {l.dep : l \in S} : KindOf[d] = k}

Finish(result) ==
  /\ pc' = "done"
  /\ outcome' = result

----------------------------------------------------------------------------
(* configure *)

\* The command is started: the conditions are read.
execute ==
  /\ pc = "idle"
  /\ \E op \in Options :
       /\ opts' = op
       /\ map' = Conditions(op)
  /\ pc' = "check"
  /\ UNCHANGED <<project, build, generated, lines, todo, outcome, history>>

\* No packagedependencies.txt, or no .pro file beside it, at this moment.
notAProject ==
  /\ pc = "check"
  /\ Finish("failed")
  /\ UNCHANGED <<project, build, generated, opts, map, lines, todo, history>>

Forced == opts.force \/ opts.override

\* Mutant: an edit in the second of the timestamp is taken for an older one.
UpToDateNotStrict == "stamp" \in present /\ ~Forced /\ stamp >= draftTime

UpToDate == "stamp" \in present /\ ~Forced /\ stamp > draftTime

upToDate ==
  /\ pc = "check"
  /\ UpToDate
  /\ Finish("uptodate")
  /\ UNCHANGED <<project, build, generated, opts, map, lines, todo, history>>

obsolete ==
  /\ pc = "check"
  /\ ~UpToDate
  /\ pc' = "remove"
  /\ UNCHANGED <<project, build, generated, opts, map, lines, todo, outcome, history>>

\* fs::remove_all(build folder): its files in any order.
removeFile ==
  /\ pc = "remove"
  /\ \E f \in present :
       /\ present' = present \ {f}
       /\ content' = [k \in Kinds |-> IF k = f THEN {} ELSE content[k]]
       /\ index' = IF f = "index" THEN {} ELSE index
       /\ stamp' = IF f = "stamp" THEN 0 ELSE stamp
  /\ UNCHANGED <<project, generated, run, history>>

\* Mutant: the timestamp is written when the folder is created.
parseStamping ==
  /\ pc = "remove"
  /\ present = {}
  /\ lines' = draft \union OsLines
  /\ source' = draft /\ missed' = FALSE
  /\ present' = {"stamp"} /\ stamp' = clock
  /\ pc' = "recurse"
  /\ UNCHANGED <<project, content, index, generated, opts, map, todo, outcome>>

\* create_directories; parseRecurse reads the project's own files, ...
parse ==
  /\ pc = "remove"
  /\ present = {}
  /\ lines' = draft \union OsLines
  /\ source' = draft /\ missed' = FALSE
  /\ pc' = "recurse"
  /\ UNCHANGED <<project, build, generated, opts, map, todo, outcome>>

\* ... then those of the packages' folders; packages that need each other exhaust
\* the stack and kill the process.
parseRecurse ==
  /\ pc = "recurse"
  /\ IF Endless(lines)
     THEN Finish("killed") /\ UNCHANGED lines
     ELSE lines' = Collected(lines) /\ pc' = "filter" /\ UNCHANGED outcome
  /\ UNCHANGED <<project, build, generated, opts, map, todo, history>>

\* filterConditionDependencies: the user is asked about each undecided condition
\* of each line, so that the answers for two lines may differ.
filterConditionDependencies ==
  /\ pc = "filter"
  /\ \E kept \in SUBSET lines :
       /\ \A l \in lines : l.conds \subseteq map.on => l \in kept
       /\ \A l \in kept : l.conds \intersect map.off = {}
       /\ lines' = kept
       /\ todo' = {k \in Kinds : DepsOf(kept, k) # {}}
  /\ pc' = "generate"
  /\ UNCHANGED <<project, build, generated, opts, map, outcome, history>>

\* Mutant: one kind only.
generateFirst ==
  /\ pc = "generate"
  /\ \E k \in todo :
       /\ \A j \in todo : Rank[k] <= Rank[j]
       /\ present' = present \union {k}
       /\ content' = [content EXCEPT ![k] = DepsOf(lines, k)]
  /\ todo' = {}
  /\ UNCHANGED <<project, index, stamp, generated, pc, opts, map, lines, outcome, history>>

\* invokeGenerator of the next kind: conan, pkg-config or brew are called, and the
\* file is written; a generator that is not implemented writes nothing.
generate ==
  /\ pc = "generate"
  /\ \E k \in todo :
       /\ \A j \in todo : Rank[k] <= Rank[j]
       /\ todo' = todo \ {k}
       /\ IF Implemented
          THEN /\ present' = present \union {k}
               /\ content' = [content EXCEPT ![k] = DepsOf(lines, k)]
          ELSE UNCHANGED <<present, content>>
  /\ UNCHANGED <<project, index, stamp, generated, pc, opts, map, lines, outcome, history>>

\* A tool fails: runtime_error, caught in main.
generateFails ==
  /\ pc = "generate"
  /\ todo # {}
  /\ Finish("failed")
  /\ UNCHANGED <<project, build, generated, opts, map, lines, todo, history>>

\* generateIndex: one entry for each kind in setupInfoMap.
generateIndex ==
  /\ pc = "generate"
  /\ todo = {}
  /\ IF Implemented
     THEN /\ present' = present \union {"index"}
          /\ index' = {k \in Kinds : DepsOf(lines, k) # {}}
     ELSE UNCHANGED <<present, index>>
  /\ pc' = "stamp"
  /\ UNCHANGED <<project, content, stamp, generated, opts, map, lines, todo, outcome, history>>

writeTimestamp ==
  /\ pc = "stamp"
  /\ present' = present \union {"stamp"}
  /\ stamp' = clock
  /\ pc' = "unlink"
  /\ UNCHANGED <<project, content, index, generated, opts, map, lines, todo, outcome, history>>

\* generateConfigureConditionsFile: the file is removed, ...
removeConditions ==
  /\ pc = "unlink"
  /\ generated' = IF Implemented THEN {} ELSE generated
  /\ pc' = "conditions"
  /\ UNCHANGED <<project, build, opts, map, lines, todo, outcome, history>>

\* ... and written again with the conditions of the lines kept.
generateConfigureConditionsFile ==
  /\ pc = "conditions"
  /\ generated' = IF Implemented THEN CondsOf(lines) ELSE generated
  /\ Finish("ok")
  /\ UNCHANGED <<project, build, opts, map, lines, todo, history>>

\* The process is over.
exit ==
  /\ pc = "done"
  /\ pc' = "idle" /\ opts' = NoOptions /\ map' = NoMap
  /\ lines' = {} /\ todo' = {} /\ outcome' = "none"
  /\ UNCHANGED <<project, build, generated, history>>

----------------------------------------------------------------------------
(* The user and the machine *)

\* Where a run has read packagedependencies.txt and not yet written its timestamp.
BeforeStamp == {"recurse", "filter", "generate", "stamp"}

\* packagedependencies.txt is saved with another content, at any moment of a run too.
edit ==
  /\ \E d \in Drafts \ {draft} : draft' = d
  /\ draftTime' = clock
  /\ missed' = (missed \/ pc \in BeforeStamp)
  /\ UNCHANGED <<clock, installed, build, generated, run, source>>

\* remaken install, in another terminal.
install ==
  /\ \E d \in Dep \ installed : installed' = installed \union {d}
  /\ UNCHANGED <<clock, draft, draftTime, build, generated, run, history>>

tick ==
  /\ clock < MaxTime
  /\ clock' = clock + 1
  /\ UNCHANGED <<draft, draftTime, installed, build, generated, run, history>>

\* The process is killed; of a conditions file being written, some lines remain.
kill ==
  /\ opts \in Killable
  /\ pc \notin {"idle", "done"}
  /\ IF pc = "conditions" /\ Implemented
     THEN \E written \in SUBSET CondsOf(lines) : generated' = written
     ELSE UNCHANGED generated
  /\ Finish("killed")
  /\ UNCHANGED <<project, build, opts, map, lines, todo, history>>

----------------------------------------------------------------------------

Step ==
  \/ execute \/ notAProject \/ upToDate \/ obsolete \/ removeFile \/ parse \/ parseRecurse
  \/ filterConditionDependencies \/ generate \/ generateFails
  \/ generateIndex \/ writeTimestamp \/ removeConditions
  \/ generateConfigureConditionsFile \/ exit

Init ==
  /\ clock = 1
  /\ draft \in Drafts
  /\ draftTime = 1
  /\ installed = {}
  /\ present = {} /\ content = [k \in Kinds |-> {}] /\ index = {} /\ stamp = 0
  /\ generated = {}
  /\ pc = "idle" /\ opts = NoOptions /\ map = NoMap
  /\ lines = {} /\ todo = {} /\ outcome = "none"
  /\ source = draft /\ missed = FALSE

Next == Step \/ edit \/ install \/ tick \/ kill

Spec == Init /\ [][Next]_vars
============================================================================
