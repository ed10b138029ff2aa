------------------------------ MODULE BuildInfo ------------------------------
(***************************************************************************)
(* The build information of the dependencies of one kind: invokeGenerator  *)
(* of AbstractFileRetriever, BaseSystemTool and BrewSystemTool asks        *)
(* pkg-config (PkgConfigTool) for each dependency, and the backend         *)
(* (QMakeGeneratorBackend, BazelGeneratorBackend) writes what it said.     *)
(*                                                                         *)
(* Names and paths are sequences of characters, as addPath, extractPath    *)
(* and getValidName look into them.  A flag is its letter and its value.   *)
(***************************************************************************)
EXTENDS Integers, FiniteSets, SequencesExt

CONSTANTS
  Kind,        \* "REMAKEN", "SYSTEM" or "BREW"
  Generator,   \* "qmake" or "bazel"
  Debug,       \* --config debug
  Projects,    \* lists of dependencies, [name, folder] each
  Pc,          \* the .pc files: [dir, file, cflags, libs]
  GlobalDir,   \* the folder of .pc files of the system, or of brew
  Formulae     \* what brew deps and brew info say: name :> [deps, keg]

NoKeg == <<"-">>

BuildInfoAssumption ==
  /\ Kind \in {"REMAKEN", "SYSTEM", "BREW"}
  /\ Generator \in {"qmake", "bazel"}
  /\ Debug \in BOOLEAN

VARIABLES
  deps,     \* the dependencies with what is known of them
  paths,    \* m_pkgConfigPaths, the parts between colons
  next,     \* the dependency in hand
  size,     \* the length of the vector when the loop over it began
  moved,    \* brew: the vector was reallocated under the loop
  file,     \* what was written
  pc        \* "analyse", "collect", "done", "error", "crash"

vars == <<deps, paths, next, size, moved, file, pc>>

\* Nothing written.
NoFile == [includes |-> {}, defines |-> {}, libdirs |-> {}, libs |-> {}]

Occurs(s, t) == \E i \in 0..(Len(t) - Len(s)) : SubSeq(t, i + 1, i + Len(s)) = s

\* Mutant: only the first folder is kept.
addFirstPath(ps, p) == IF ps = <<>> THEN <<p>> ELSE ps

\* A path is added unless it is found in the string of those before it.
addPath(ps, p) == IF \E i \in DOMAIN ps : Occurs(p, ps[i]) THEN ps ELSE Append(ps, p)

File(p, d, n) == [pre |-> p, debug |-> d, name |-> n]
InFolder(dir, f) == \E x \in Pc : x.dir = dir /\ x.file = f

\* The last name is taken without a look at the folder.
deduceRemakenPkgConfigFilename(dir, n) ==
  LET tried == (IF Debug THEN <<File("remaken-", TRUE, n), File("bcom-", TRUE, n)>> ELSE <<>>)
               \o <<File("remaken-", FALSE, n)>>
      there == SelectSeq(tried, LAMBDA f : InFolder(dir, f))
  IN IF there = <<>> THEN File("bcom-", FALSE, n) ELSE Head(there)

\* pkg-config: the file is read from the first folder that has it; a value may start
\* with the prefix that remaken defines.
Reading(ps, f) == SelectSeq(ps, LAMBDA p : InFolder(p, f))
Values(prefix, flags) ==
  [i \in DOMAIN flags |-> [flag |-> flags[i].flag,
                           value |-> IF flags[i].under THEN prefix \o flags[i].value ELSE flags[i].value]]
OfFile(dir, f) == CHOOSE x \in Pc : x.dir = dir /\ x.file = f
Filled(d, dir, f) ==
  [d EXCEPT !.cflags = Values(d.prefix, OfFile(dir, f).cflags),
            !.libs = Values(d.prefix, OfFile(dir, f).libs)]

\* What the files name.  --------------------------------------------------

Of(flags, letters) == {flags[i].value : i \in {j \in DOMAIN flags : flags[j].flag \in letters}}

\* QMake: the lists of all dependencies together.
qmake(ds) ==
  LET all(g(_)) == UNION {g(ds[i]) : i \in DOMAIN ds}
      includes(d) == Of(d.cflags, {"I"})
      defines(d) == Of(d.cflags, {"D"})
      libdirs(d) == Of(d.libs, {"L"}) \union ToSet(d.libdirs)
      libs(d) == Of(d.libs, {"l"})
  IN [includes |-> all(includes), defines |-> all(defines),
      libdirs |-> all(libdirs), libs |-> all(libs)]

\* The part of the longer path behind the shorter one, which is cut out where it is first
\* found; the longer one as it is when it is not.
extractPath(first, second) ==
  LET longer == IF Len(first) < Len(second) THEN second ELSE first
      part == (IF Len(first) < Len(second) THEN first ELSE second) \o <<"/">>
      at == {i \in 0..(Len(longer) - Len(part)) : SubSeq(longer, i + 1, i + Len(part)) = part}
      i == CHOOSE i \in at : \A j \in at : i <= j
  IN IF first = <<>> \/ second = <<>> THEN <<>>
     ELSE IF at = {} THEN longer
     ELSE SubSeq(longer, 1, i) \o SubSeq(longer, i + Len(part) + 1, Len(longer))

getValidName(n) == [i \in DOMAIN n |-> IF n[i] = "+" THEN "p" ELSE n[i]]

\* Mutant: the whole path behind the link.
linkedWhole(d, p) == getValidName(d.name) \o <<"/">> \o p

\* A path of the package is reached through a link, named after it, to its prefix.
linked(d, p) == getValidName(d.name) \o <<"/">> \o extractPath(d.prefix, p)

\* Bazel: a rule for each dependency.  Defines that are not in the flags are left out.
bazel(ds) ==
  [i \in DOMAIN ds |->
     LET d == ds[i]
     IN [name |-> getValidName(d.name), root |-> d.prefix,
         includes |-> {linked(d, p) : p \in Of(d.cflags, {"I"})},
         defines |-> Of(d.cflags, {"D"}),
         libdirs |-> {linked(d, p) : p \in ToSet(d.libdirs) \union Of(d.libs, {"L"})},
         libs |-> Of(d.libs, {"l"})]]

\* What a Bazel file means: links followed.
Followed(ds) ==
  LET through(r, p) == IF IsPrefix(r.name \o <<"/">>, p)
                       THEN r.root \o <<"/">> \o SubSeq(p, Len(r.name) + 2, Len(p)) ELSE p
      rules == ToSet(bazel(ds))
  IN [includes |-> UNION {{through(r, p) : p \in r.includes} : r \in rules},
      defines |-> UNION {r.defines : r \in rules},
      libdirs |-> UNION {{through(r, p) : p \in r.libdirs} : r \in rules},
      libs |-> UNION {r.libs : r \in rules}]

generate(ds) == IF Generator = "qmake" THEN qmake(ds) ELSE Followed(ds)

\* invokeGenerator.  -------------------------------------------------------

Fresh(d) == [name |-> d.name, folder |-> d.folder, prefix |-> <<>>,
             cflags |-> <<>>, libs |-> <<>>, libdirs |-> <<>>]

Init ==
  /\ \E p \in Projects : deps = [i \in DOMAIN p |-> Fresh(p[i])] /\ size = Len(p)
  /\ paths = IF Kind = "REMAKEN" THEN <<>> ELSE <<GlobalDir>>
  /\ next = 1 /\ moved = FALSE /\ file = NoFile
  /\ pc = IF Kind = "BREW" THEN "analyse" ELSE "collect"

\* pkg-config for one dependency; a failure ends the command.
ask(d, ps, f) ==
  IF Reading(ps, f) = <<>>
  THEN pc' = "error" /\ UNCHANGED <<deps, paths, next>>
  ELSE /\ deps' = [deps EXCEPT ![next] = Filled(d, Head(Reading(ps, f)), f)]
       /\ paths' = ps /\ next' = next + 1 /\ pc' = pc

collectRemaken ==
  /\ pc = "collect" /\ Kind = "REMAKEN" /\ next <= Len(deps)
  /\ LET d == [deps[next] EXCEPT !.prefix = deps[next].folder,
                                 !.libdirs = <<deps[next].folder \o <<"/", "l">> >>]
     IN ask(d, addPath(paths, d.folder), deduceRemakenPkgConfigFilename(d.folder, d.name))
  /\ UNCHANGED <<size, moved, file>>

collectOther ==
  /\ pc = "collect" /\ Kind # "REMAKEN" /\ next <= Len(deps)
  /\ ask(deps[next], paths, File("", FALSE, deps[next].name))
  /\ UNCHANGED <<size, moved, file>>

finish ==
  /\ pc = "collect" /\ next > Len(deps)
  /\ file' = generate(deps) /\ pc' = "done"
  /\ UNCHANGED <<deps, paths, next, size, moved>>

\* Brew: the formulae a dependency needs, and the dependency.  ----------------

Analysed(n) == Append(Formulae[n].deps, n)

\* Mutant: the dependency itself is not looked at.
KegsOfOthers(n) == SelectSeq(Formulae[n].deps, LAMBDA s : Formulae[s].keg # NoKeg)

\* Those that brew keeps out of its common folder.
Kegs(n) == SelectSeq(Analysed(n), LAMBDA s : Formulae[s].keg # NoKeg)

KegPc(s) == Formulae[s].keg \o <<"/", "p">>
KegDep(s) == [Fresh([name |-> s, folder |-> <<>>]) EXCEPT !.prefix = Formulae[s].keg,
                                                     !.libdirs = <<Formulae[s].keg \o <<"/", "l">> >>]

\* A vector filled one by one doubles its room.
Room(n) == CHOOSE r \in {1, 2, 4, 8} : r >= n /\ \A q \in {1, 2, 4, 8} : q >= n => r <= q

\* The kegs are appended to the vector that the loop runs over.  Once it has been
\* reallocated the loop reads, and writes the prefix, in what it was before.
analyse ==
  /\ pc = "analyse" /\ next <= size
  /\ LET kegs == Kegs(deps[next].name)
         more == [i \in DOMAIN kegs |-> KegDep(kegs[i])]
     IN /\ deps' = (IF moved THEN deps ELSE [deps EXCEPT ![next].prefix = Front(GlobalDir)]) \o more
        /\ paths' = FoldLeft(addPath, paths, [i \in DOMAIN kegs |-> KegPc(kegs[i])])
        /\ moved' = (moved \/ Len(deps) + Len(kegs) > Room(Len(deps)))
  /\ next' = next + 1
  /\ UNCHANGED <<size, file, pc>>

\* ... where anything may have come since.
analyseFreed ==
  /\ pc = "analyse" /\ moved /\ next <= size
  /\ pc' \in {"crash", "error"}
  /\ UNCHANGED <<deps, paths, next, size, moved, file>>

analysed ==
  /\ pc = "analyse" /\ next > size
  /\ next' = 1 /\ pc' = "collect"
  /\ UNCHANGED <<deps, paths, size, moved, file>>

Next == collectRemaken \/ collectOther \/ finish \/ analyse \/ analyseFreed \/ analysed

Spec == Init /\ [][Next]_vars

-----------------------------------------------------------------------------

\* The candidates of a dependency: for a package of remaken those in its own folder.
Own(d) ==
  IF Kind = "REMAKEN"
  THEN {x \in Pc : x.dir = d.folder /\ x.file.name = d.name
                   /\ x.file.pre \in {"remaken-", "bcom-"} /\ (x.file.debug => Debug)}
  ELSE {x \in Pc : x.dir \in ToSet(paths) /\ x.file = File("", FALSE, d.name)}

Asked(d) == [d EXCEPT !.prefix = IF Kind = "REMAKEN" THEN d.folder ELSE d.prefix]
FlagsOf(d, x) == [cflags |-> Values(Asked(d).prefix, x.cflags), libs |-> Values(Asked(d).prefix, x.libs)]

\* The flags of a dependency are those of a file of its own package, of a debug file if
\* there is one and --config is debug: "call pkg-config on dep and populate libs and
\* cflags variables" (AbstractFileRetriever.cpp:86).  And when every package has a file,
\* the command does not fail.
OwnFlags ==
  /\ (\A i \in DOMAIN deps : Own(deps[i]) # {}) => pc # "error"
  /\ pc = "done" =>
       \A i \in DOMAIN deps :
         \E x \in Own(deps[i]) :
           /\ FlagsOf(deps[i], x) = [cflags |-> deps[i].cflags, libs |-> deps[i].libs]
           /\ (\E y \in Own(deps[i]) : y.file.debug) => x.file.debug

\* The Bazel file, its links followed, names the folders, defines and libraries that
\* pkg-config gave, as the QMake file does, and no others.
FileIsInfo == pc = "done" => file = qmake(deps)

\* A formula that brew keeps apart is among the dependencies whose flags are written,
\* once the formulae that need it were looked at.
KegsWritten ==
  pc \in {"collect", "done"} =>
    \A i \in 1..size :
      \A s \in ToSet(Analysed(deps[i].name)) :
        Formulae[s].keg # NoKeg =>
          \E j \in (size + 1)..Len(deps) : deps[j].name = s /\ deps[j].prefix = Formulae[s].keg
============================================================================
