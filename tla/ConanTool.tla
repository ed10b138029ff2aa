------------------------------ MODULE ConanTool ------------------------------
(***************************************************************************)
(* tools/ConanSystemTool.cpp: the commands install, configure, bundle and  *)
(* search of remaken for the dependencies that conan provides.             *)
(*                                                                         *)
(* Conan is external: it keeps remotes and binaries.  A binary is a        *)
(* reference with a profile and options; install builds the missing ones,  *)
(* configure and bundle find theirs or fail.  An option names the package  *)
(* it is for ("" is the one of the line), which conan 2 takes only when    *)
(* "/*" stands behind the name.                                            *)
(***************************************************************************)
EXTENDS Integers, FiniteSets, SequencesExt

CONSTANTS
  Version,      \* 1 or 2
  Projects,     \* sequences of dependencies [pkg, name, remote, mode, opts, user]
  Order,        \* all packages, as conan lists them
  Needs,        \* packages that each package needs
  CrossCompile, \* the target is another system
  Profile,      \* --conan_profile
  Translated,   \* the build information goes through remaken
  Remotes,      \* the remotes at first, [alias, url] each
  Room,         \* elements behind the vector of dependencies
  Answers       \* what a search finds: sequences of [remote, pkgs]

ConanToolAssumption ==
  /\ Version \in {1, 2} /\ CrossCompile \in BOOLEAN /\ Room \in Nat
  /\ \A p \in Projects : p # <<>> /\ \A i \in DOMAIN p : Len(p[i].remote) \in 1..3

VARIABLES
  remotes,   \* remotes that conan has
  built,     \* binaries that conan has
  command, project, next,
  collected, \* the vector of dependencies: [pkg, name, info]
  refs,      \* depsMap: the index that a reference leads to, 0 when it dangles
  room,      \* elements the vector takes before it moves
  found,     \* the answer to a search and what was printed of it
  pc         \* "idle", "run", "graph", "done", "failed", "aborted"

vars == <<remotes, built, command, project, next, collected, refs, room, found, pc>>

Init ==
  /\ remotes = Remotes /\ built = {} /\ command = "install" /\ project = <<>> /\ next = 1
  /\ collected = <<>> /\ refs = <<>> /\ room = Room /\ found = [answer |-> <<>>, out |-> <<>>] /\ pc = "idle"

start(c) ==
  /\ pc \in {"idle", "done"} /\ command' = c
  /\ project' \in IF pc = "idle" THEN Projects ELSE {project}
  /\ next' = 1 /\ pc' = "run"
  /\ UNCHANGED <<remotes, built, collected, refs, room, found>>

Center == {"conan-center", "conancenter"}

\* "name/version@" and, for other remotes than conan's own, user and channel.
computeConanRef(d) == IF d.remote[1] \in Center THEN <<d.pkg>> ELSE <<d.pkg, d.user>>

CrossProfile == "os-toolchain-arch"
profileName == IF CrossCompile /\ Profile = "default" THEN CrossProfile ELSE Profile

\* What conan applies an option to.
ReadAs(d, o, star) ==
  CASE o.on = "" -> {[on |-> d.pkg, opt |-> o.opt]}
    [] o.on # "" /\ (Version = 1 \/ star) -> {o}
    [] OTHER -> {}

ModeOption(d, value) ==
  IF d.mode = "na" THEN {} ELSE {[on |-> d.pkg, opt |-> <<"shared", value>>]}

Optioned(d, star) == UNION {ReadAs(d, d.opts[i], star) : i \in DOMAIN d.opts}
Binary(d, profile, options) ==
  [ref |-> computeConanRef(d), profile |-> profile, options |-> {o \in options : o.on = d.pkg}]

\* install: shared unless the line says static; the separator is put behind the name.
installArguments(d) ==
  Binary(d, profileName, ModeOption(d, d.mode # "static") \union Optioned(d, TRUE))

\* buildOptions: the lines of conanfile.txt, static unless the line says shared.
buildOptions(d) == ModeOption(d, d.mode = "shared") \union Optioned(d, TRUE)

\* createConanFile and the call of invokeGenerator, where an inner profileName hides the
\* one that is used.
configureArguments(d) ==
  Binary(d, Profile, UNION {buildOptions(project[i]) : i \in DOMAIN project})

\* Mutant: the profile is not the one of install.
retrieveDefault(d) ==
  Binary(d, "default", ModeOption(d, d.mode # "static") \union Optioned(d, FALSE))

\* retrievePaths: the options go as they stand, also to conan 2.
retrieveArguments(d) ==
  Binary(d, profileName, ModeOption(d, d.mode # "static") \union Optioned(d, FALSE))

Dep == project[next]
Fail == pc' = "failed"

Alias(d) == IF d.remote[1] = "conan-center" THEN "conancenter" ELSE d.remote[1]

Needed(d) ==
  /\ Len(d.remote) >= 2
  /\ \A r \in remotes : r.alias # Alias(d) /\ r.url # d.remote[2]

\* addRemoteImpl: without a third part the message behind the check throws.
addRemote(d) ==
  \/ ~Needed(d) /\ UNCHANGED <<remotes, pc>>
  \/ Needed(d) /\ Len(d.remote) = 2 /\ pc' = "aborted" /\ UNCHANGED remotes
  \/ Needed(d) /\ Len(d.remote) = 3 /\ UNCHANGED pc
     /\ remotes' = remotes \union {[alias |-> Alias(d), url |-> d.remote[2]]}

install ==
  /\ pc = "run" /\ command = "install" /\ next <= Len(project)
  /\ \/ Fail /\ UNCHANGED <<remotes, built, next>>
     \/ /\ addRemote(Dep)
        /\ IF pc' = "aborted"
           THEN UNCHANGED <<built, next>>
           ELSE built' = built \union {installArguments(Dep)} /\ next' = next + 1
  /\ UNCHANGED <<command, project, collected, refs, room, found>>

Closure(S) == S \union UNION {Needs[p] : p \in S}
Nodes == SelectSeq(Order, LAMBDA p : p \in Closure({project[i].pkg : i \in DOMAIN project}))

\* invokeGenerator: conan writes its build information, or fails.
invokeGenerator ==
  /\ pc = "run" /\ command = "configure"
  /\ \/ Fail /\ UNCHANGED <<collected, refs, room>>
     \/ /\ \A i \in DOMAIN project : configureArguments(project[i]) \in built
        /\ pc' = IF Translated THEN "graph" ELSE "done"
        /\ collected' = [i \in DOMAIN project |->
                           [pkg |-> project[i].pkg, name |-> project[i].name, info |-> FALSE]]
        /\ refs' = [p \in {project[i].pkg : i \in DOMAIN project} |->
                      CHOOSE i \in DOMAIN project :
                        project[i].pkg = p /\ \A j \in 1..(i - 1) : project[j].pkg # p]
        /\ room' = Room
  /\ UNCHANGED <<remotes, built, command, project, next, found>>

Known(n) == n \in DOMAIN refs
Appended(n) == Append(collected, [pkg |-> n, name |-> n, info |-> FALSE])
WithNode(n) == IF Known(n) THEN collected ELSE Appended(n)

\* A package that no line names is appended; its reference is to a variable of the block,
\* and when the vector moves those to its elements dangle too.
RefsAfter(n) ==
  IF Known(n) THEN refs
  ELSE [p \in DOMAIN refs \union {n} |-> IF p = n \/ room = 0 THEN 0 ELSE refs[p]]

Filled(v, i) == [v EXCEPT ![i].info = TRUE]

\* conan 1: through the reference; what a dangling one does is anything.
throughReference(n) ==
  LET i == RefsAfter(n)[n] IN
  IF i > 0 THEN collected' = Filled(WithNode(n), i) /\ UNCHANGED pc
  ELSE collected' = WithNode(n) /\ (pc' = "aborted" \/ UNCHANGED pc)

\* Mutant: the last of the vector is taken.
byNameLast(n) == collected' = Filled(WithNode(n), Len(WithNode(n))) /\ UNCHANGED pc

\* conan 2: the first of the vector with that name, if any.
byName(n) ==
  LET v == WithNode(n)
      I == {i \in DOMAIN v : v[i].name = n}
  IN /\ collected' = IF I = {} THEN v ELSE Filled(v, CHOOSE i \in I : \A j \in I : i <= j)
     /\ UNCHANGED pc

\* translateJsonToRemakenDep, a node of the graph.
translate ==
  /\ pc = "graph" /\ next <= Len(Nodes)
  /\ LET n == Nodes[next] IN
       /\ IF Version = 1 THEN throughReference(n) ELSE byName(n)
       /\ refs' = RefsAfter(n)
       /\ room' = IF Known(n) THEN room ELSE IF room = 0 THEN Len(collected) ELSE room - 1
  /\ next' = next + 1
  /\ UNCHANGED <<remotes, built, command, project, found>>

bundle ==
  /\ pc = "run" /\ command = "bundle" /\ next <= Len(project)
  /\ \/ Fail /\ UNCHANGED next
     \/ retrieveArguments(Dep) \in built /\ next' = next + 1 /\ UNCHANGED pc
  /\ UNCHANGED <<remotes, built, command, project, collected, refs, room, found>>

\* What conan prints: a line for each remote, and one for each of its packages behind it.
Lines(answer) ==
  FlattenSeq([i \in DOMAIN answer |->
    <<[remote |-> answer[i].remote]>> \o [j \in DOMAIN answer[i].pkgs |-> [pkg |-> answer[i].pkgs[j]]]])

\* A line of the answer: currentRemote, or a package of it.
readLine(at, line) ==
  IF "pkg" \in DOMAIN line
  THEN [at EXCEPT !.out = Append(@, <<line.pkg, at.remote>>)]
  ELSE [at EXCEPT !.remote = line.remote]

search ==
  /\ pc = "run" /\ command = "search"
  /\ \/ Fail /\ UNCHANGED found
     \/ /\ pc' = "done"
        /\ \E a \in Answers :
             found' = [answer |-> a, out |-> FoldLeft(readLine, [remote |-> "", out |-> <<>>], Lines(a)).out]
  /\ UNCHANGED <<remotes, built, command, project, next, collected, refs, room>>

finish ==
  /\ \/ pc = "run" /\ command \in {"install", "bundle"} /\ next > Len(project)
     \/ pc = "graph" /\ next > Len(Nodes)
  /\ pc' = "done"
  /\ UNCHANGED <<remotes, built, command, project, next, collected, refs, room, found>>

Next ==
  \/ \E c \in {"install", "configure", "bundle", "search"} : start(c)
  \/ install \/ invokeGenerator \/ translate \/ bundle \/ search \/ finish

Spec == Init /\ [][Next]_vars

-----------------------------------------------------------------------------

Installed == pc = "done" /\ command = "install"

\* "For brew, scoop, apt and conan, the repository will be added before the dependency
\* installation" (README.md:355): the remote of a line that gives its url is known, by its
\* name or by its url.
RemoteKnown ==
  Installed => \A i \in DOMAIN project : LET d == project[i] IN
    Len(d.remote) >= 2 => \E r \in remotes : r.alias = Alias(d) \/ r.url = d.remote[2]

\* What install had built is what configure asks for: its lines in conanfile.txt and the
\* options of the command line mean the same binaries.
ConfigureFinds ==
  Installed => \A i \in DOMAIN project : configureArguments(project[i]) \in built

\* The same for bundle.
BundleFinds ==
  Installed => \A i \in DOMAIN project : retrieveArguments(project[i]) \in built

\* "parse data from json in order to generates for specified generator" (l.518): the flags
\* of every package of the graph are in the list that the generator gets.
InfoCollected ==
  pc = "done" /\ command = "configure" /\ Translated =>
    \A k \in DOMAIN Nodes : \E i \in DOMAIN collected :
      collected[i].pkg = Nodes[k] /\ collected[i].info

============================================================================
