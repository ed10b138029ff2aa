---------------------------- MODULE CommandLine ----------------------------
(***************************************************************************)
(* Options, profiles and the dispatch to a command: CmdOptions.cpp,        *)
(* main.cpp and commands/ProfileCommand.cpp, on Linux.                     *)
(*                                                                         *)
(* An option is a key <<path, name>>: path is the command and subcommand   *)
(* that declare it, <<>> for the options of every command.  A profile is a *)
(* partial function from keys to values, as CLI11 writes and reads it.     *)
(* A value is a string, "" when empty.                                     *)
(***************************************************************************)
EXTENDS Integers, Sequences, SequencesExt

CONSTANTS
  Process,      \* processes remaken may run in at once
  Invocation,   \* command lines: [path, head, tail], options before and after the path
  Edit,         \* <<key, value>>: what a user may write in a profile by hand
  MaxCommands,  \* command lines given in a behaviour
  Env,          \* values REMAKEN_PKG_ROOT may have; "unset"
  Lines,        \* contents .packagespath may have; <<"absent">> for no file
  Tool,         \* zip tools on the system
  Plain,        \* profile names that are file names and not paths
  Altered,      \* Altered[v]: the value v with "run." replaced by "#run."
  Release       \* QMAKE_RULES_DEFAULT_TAG of each version of remaken, in order

ASSUME CommandLineAssumption ==
  /\ MaxCommands \in Nat /\ Release # <<>>
  /\ "default" \in Plain

VARIABLES
  env, lines,   \* the environment; the lines of ~/.remaken/packages/.packagespath
  project,      \* a .pro file is beside the dependencies file
  version,      \* the installed version of remaken
  profiles,     \* partial function from profile names to profiles
  proc,         \* proc[p]: [pc, inv, profile], the command and the profile it has read
  count,
  wish          \* ghost: wish[n]: what users have asked of profile n

vars == <<env, lines, project, version, profiles, proc, count, wish>>
host == <<env, lines, project>>

None == <<>>   \* the empty function

\* What is in f, and in g when f does not say.
Over(f, g) == [x \in DOMAIN f \union DOMAIN g |-> IF x \in DOMAIN f THEN f[x] ELSE g[x]]
One(x, v) == [y \in {x} |-> v]

----------------------------------------------------------------------------
\* The grammar: which options each command declares.

Options(path, names) == {path} \X names

General ==
  {"--profile", "--config", "--cpp-std", "--remaken-root", "--build-toolchain",
   "--operating-system", "--architecture", "--force", "--verbose", "--override",
   "--recurse", "--conan_profile", "--generator", "--apiKey",
   "--alternate-remote-type", "--alternate-remote-url", "--invert-remote-order"}

Bundling ==
  Options(<<"bundle">>, {"--destination", "file", "--ignore-errors"})
  \union Options(<<"bundleXpcf">>,
                 {"--destination", "--modules-subfolder", "file", "xpcf", "--ignore-errors"})

Building ==
  Options(<<"configure">>, {"file", "--condition", "--mode"})
  \union Options(<<"info">>, {"file", "--paths", "--mode"})
  \union Options(<<"info", "pkg_systemfile">>, {"--destination"})

Profiling ==
  Options(<<"profile", "init">>, {"--with-default", "profile_name"})
  \union Options(<<"profile", "display">>, {"--with-default", "profile_name"})

Initialising ==
  Options(<<"init">>, {"--tag", "--installwizards"})
  \union Options(<<"init", "vcpkg">>, {"--tag"})
  \union Options(<<"init", "artifactpkg">>, {"--tag"})

Installing ==
  Options(<<"install">>, {"file", "--project_mode", "--ignore-cache", "--mode", "--type",
                          "--ziptool", "--remote-only", "--conan-build", "--condition"})

Looking ==
  Options(<<"list">>, {"--regex", "--tree", "package", "version"})
  \union Options(<<"search">>, {"--restrict", "package", "version"})
  \union Options(<<"remote", "listfile">>, {"file"}) \union Options(<<"remote", "add">>, {"file"})

Running ==
  Options(<<"run">>,
          {"xpcf", "--env", "--destination", "file", "--ref", "--app", "--name", "arguments"})

Packaging ==
  Options(<<"package">>,
          {"--sourcedir", "--includedir", "--libdir", "--redistfile", "--destination",
           "--packagename", "--packageversion", "--ignore-mode", "--mode", "--withsuffix",
           "--useOriginalPCfiles"})
  \union Options(<<"package", "compress">>, {"--rootdir", "--packagename", "--packageversion"})

Key ==
  Options(None, General) \union Bundling \union Building \union Profiling \union Initialising
    \union Installing \union Looking \union Running \union Packaging
    \union Options(<<"parse">>, {"file"})
Path ==
  {k[1] : k \in Key}
    \union {<<"profile">>, <<"init", "wizards">>, <<"init", "brew">>, <<"remote">>,
            <<"remote", "list">>, <<"clean">>, <<"version">>}

\* A profile names no other profile to read.
ASSUME EditAssumption == \A e \in Edit : e[1] \in Key /\ e[1][2] # "--profile"

Declared == [p \in Path |-> {k[2] : k \in {l \in Key : l[1] = p}}]

Required(p) ==
  IF p \in {<<"bundle">>, <<"info", "pkg_systemfile">>} THEN {"--destination"}
  ELSE IF p = <<"bundleXpcf">> THEN {"--destination", "xpcf"}
  ELSE {}

\* An option after a command may be of the command or of one it is under;
\* package and its subcommand take their own only.
Scope(p) ==
  {q \in Path \intersect {p, <<p[1]>>, None} : q # p => p[1] # "package"}
KeyOf(p, o) ==
  <<IF o \in Declared[p] THEN p ELSE IF o \in Declared[<<p[1]>>] THEN <<p[1]>> ELSE None, o>>

Parses(i) ==
  /\ i.path \in Path \ {None}
  /\ DOMAIN i.head \subseteq General
  /\ DOMAIN i.tail \subseteq UNION {Declared[q] : q \in Scope(i.path)}
  /\ Required(i.path) \subseteq DOMAIN i.tail

\* Several options of different commands are one member of CmdOptions.
Owned == {"--tag", "package", "version", "--packagename", "--packageversion"}
Member(k) == IF k[2] \in Owned THEN k ELSE <<None, k[2]>>
Members == {Member(k) : k \in Key}
KeysOf == [m \in Members |-> {k \in Key : Member(k) = m}]

----------------------------------------------------------------------------
\* Where packages are: the environment, then the last line of .packagespath
\* that is not empty, then the default folder.

Root ==
  LET said == Remove(lines, "")
  IN IF env # "unset" THEN env
     ELSE IF lines = <<"absent">> THEN "~/.remaken/packages"
     ELSE IF said = <<>> THEN "" ELSE Last(said)

Default(m) ==
  CASE m[2] = "--config" -> "release"
    [] m[2] = "--cpp-std" -> "11"
    [] m[2] = "--remaken-root" -> Root
    [] m[2] = "--build-toolchain" -> "gcc"
    [] m[2] = "--operating-system" -> "linux"
    [] m[2] = "--architecture" -> "x86_64"
    [] m[2] = "--generator" -> "qmake"
    [] m[2] = "--mode" -> "shared"
    [] m[2] = "--type" -> "github"
    [] m[2] = "--ziptool" -> "unzip"
    [] m[2] \in {"--conan_profile", "profile_name", "--profile"} -> "default"
    [] m[2] = "--modules-subfolder" -> "modules"
    [] m[2] = "file" -> "packagedependencies.txt"
    [] m = <<<<"init">>, "--tag">> -> Release[version]
    [] OTHER -> ""

\* A profile is read in the order in which it is written.
Order == <<None, <<"bundle">>, <<"bundleXpcf">>, <<"configure">>, <<"info">>,
           <<"info", "pkg_systemfile">>, <<"profile">>, <<"profile", "init">>,
           <<"profile", "display">>, <<"init">>, <<"install">>, <<"remote">>,
           <<"run">>, <<"package">>, <<"parse">>>>
Place(k) == IF \E n \in DOMAIN Order : Order[n] = k[1]
            THEN CHOOSE n \in DOMAIN Order : Order[n] = k[1] ELSE 0
LastOf(ks) == CHOOSE k \in ks : \A l \in ks : Place(l) <= Place(k)

Parsed == {i \in Invocation : Parses(i)}

\* What the command line gives, by key; a table, for it is looked up in every step.
Keyed ==
  [i \in Parsed |->
     [k \in {<<None, o>> : o \in DOMAIN i.head} \union {KeyOf(i.path, o) : o \in DOMAIN i.tail} |->
        IF k[1] = None /\ k[2] \in DOMAIN i.head THEN i.head[k[2]] ELSE i.tail[k[2]]]]
Given(i) == Keyed[i]
Reads(i) == IF <<None, "--profile">> \in DOMAIN Given(i) THEN Given(i)[<<None, "--profile">>]
            ELSE "default"

\* The command line wins over the profile, and that over the defaults.
Settings(cli, prof, defaults) ==
  [m \in Members |->
     LET on == KeysOf[m] \intersect DOMAIN cli
         in == KeysOf[m] \intersect DOMAIN prof
     IN IF on # {} THEN cli[LastOf(on)]
        ELSE IF in # {} THEN prof[LastOf(in)] ELSE defaults[m]]

Defaults == [m \in Members |-> Default(m)]
Effective(i, prof) == Settings(Given(i), prof, Defaults)

At(s, o) == s[<<None, o>>]

----------------------------------------------------------------------------
\* What is checked once a command line is parsed.

Valid ==
  [architecture |-> {"x86_64", "i386", "arm", "arm64", "arm64-v8a", "armeabi-v7a", "armv6",
                     "armv7", "armv7hf", "armv8"},
   config |-> {"release", "debug"}, remote |-> {"", "github", "artifactory", "nexus", "path", "http"},
   os |-> {"mac", "win", "unix", "android", "ios", "linux"}, std |-> {"11", "14", "17", "20"},
   generator |-> {"qmake", "cmake", "pkgconfig", "make", "json", "bazel"},
   restrict |-> {"", "brew", "conan", "system", "vcpkg"}]
generatorTypeMap == {"qmake", "cmake", "pkgconfig", "make", "json", "bazel"}

\* Mutant: only what the command line gives is checked.
ValidatesGiven(i, s) ==
  LET sound(o, vs) == <<None, o>> \in DOMAIN Given(i) => At(s, o) \in vs
  IN /\ sound("--generator", Valid.generator) /\ sound("--config", Valid.config)
     /\ At(s, "--ziptool") \in Tool

Validates(i, s) ==
  /\ At(s, "--architecture") \in Valid.architecture /\ At(s, "--config") \in Valid.config
  /\ At(s, "--alternate-remote-type") \in Valid.remote
  /\ At(s, "--operating-system") \in Valid.os /\ At(s, "--cpp-std") \in Valid.std
  /\ At(s, "--generator") \in Valid.generator
  /\ i.path = <<"search">> => At(s, "--restrict") \in Valid.restrict
  /\ i.path \notin {<<"profile">>, <<"remote">>}
  /\ At(s, "--ziptool") \in Tool

RunIsClear(s) ==
  LET env_ == At(s, "--env") # "" app == At(s, "--app") # ""
      ref == At(s, "--ref") # "" name == At(s, "--name") # ""
  IN /\ ~(env_ /\ app) /\ (env_ \/ app \/ ref)
     /\ ~(app /\ name) /\ (name => ref)

Checks(i, s) ==
  /\ i.path = <<"configure">> => project
  /\ i.path = <<"run">> => RunIsClear(s)
  /\ ~(At(s, "--type") = "artifactory" /\ At(s, "--apiKey") = "")

----------------------------------------------------------------------------
\* The profile command.

Target(i, s) == At(s, "profile_name")

\* Mutant: only the options of the command line are written.
WrittenGiven(i, s, prof) ==
  [k \in DOMAIN Given(i) \ {<<None, "--profile">>} |-> s[Member(k)]]

\* Every option that was set, by the command line or by the profile read; with
\* --with-default those that have a default too.  The options of run become
\* comments, and so does "run." in a value.
Written(i, s, prof) ==
  LET cli == Given(i)
      every == IF At(s, "--with-default") # "" THEN {k \in Key : Default(Member(k)) # ""} ELSE {}
      set == DOMAIN prof \union DOMAIN cli
      text(k) == IF k \in DOMAIN cli THEN cli[k] ELSE IF k \in set THEN prof[k] ELSE Default(Member(k))
      kept == {k \in set \union every : k[2] # "--profile" /\ k[1] # <<"run">>}
  IN [k \in kept |-> IF text(k) \in DOMAIN Altered THEN Altered[text(k)] ELSE text(k)]

----------------------------------------------------------------------------
Idle == [pc |-> "idle", inv |-> <<>>, profile |-> None]

Init ==
  /\ env \in Env /\ lines \in Lines /\ project \in BOOLEAN
  /\ version = 1 /\ profiles = None /\ count = 0
  /\ proc = [p \in Process |-> Idle]
  /\ wish = None

ProfileOf(i) == IF Reads(i) \in DOMAIN profiles THEN profiles[Reads(i)] ELSE None
\* Only a profile that is named has to exist.
Readable(i) == <<None, "--profile">> \in DOMAIN Given(i) => Reads(i) \in DOMAIN profiles

Ready(p) == proc[p].pc \in {"idle", "run", "refused", "done"} /\ count < MaxCommands

Go(p, i, to) ==
  /\ count' = count + 1
  /\ proc' = [proc EXCEPT ![p] = IF i \in Parsed
       THEN [pc |-> to, inv |-> i, profile |-> ProfileOf(i)]
       ELSE [Idle EXCEPT !.pc = to, !.inv = i]]
  /\ UNCHANGED <<host, version, profiles, wish>>

Accepted(i) ==
  /\ i \in Parsed /\ Readable(i)
  /\ LET s == Effective(i, ProfileOf(i)) IN Validates(i, s) /\ Checks(i, s)

parseArguments(p) ==
  Ready(p) /\ \E i \in Invocation : i.path[1] # "profile" /\ Accepted(i) /\ Go(p, i, "run")
refuse(p) ==
  Ready(p) /\ \E i \in Invocation : ~Accepted(i) /\ Go(p, i, "refused")
displayProfile(p) ==
  Ready(p) /\ \E i \in Invocation :
                i.path = <<"profile", "display">> /\ Accepted(i) /\ Go(p, i, "run")
initProfile(p) ==
  Ready(p) /\ \E i \in Invocation :
                i.path = <<"profile", "init">> /\ Accepted(i) /\ Go(p, i, "open")

\* The options a command goes on with: nothing else changes while it runs.
Set(p) == Effective(proc[p].inv, proc[p].profile)

To(p, pc) == proc' = [proc EXCEPT ![p].pc = pc]

\* The file is opened and emptied.
openProfile(p) ==
  LET n == Target(proc[p].inv, Set(p)) IN
  /\ proc[p].pc = "open" /\ n \in Plain
  /\ profiles' = Over(One(n, None), profiles)
  /\ To(p, "write") /\ UNCHANGED <<host, version, count, wish>>

\* No file can be opened in a folder that is not there; nothing is told.
openFails(p) ==
  /\ proc[p].pc = "open" /\ Target(proc[p].inv, Set(p)) \notin Plain
  /\ To(p, "done") /\ UNCHANGED <<host, version, profiles, count, wish>>

Asked(i) == [k \in {l \in DOMAIN Given(i) : l[1] = None /\ l[2] # "--profile"} |-> Given(i)[k]]
WishOf(n) == IF n \in DOMAIN wish THEN wish[n] ELSE None

writeConfigurationFile(p) ==
  LET i == proc[p].inv
      n == Target(i, Set(p))
  IN /\ proc[p].pc = "write"
     /\ profiles' = Over(One(n, Written(i, Set(p), proc[p].profile)), profiles)
     /\ wish' = Over(One(n, Over(Asked(i), WishOf(Reads(i)))), wish)
     /\ To(p, "done") /\ UNCHANGED <<host, version, count>>

\* A user writes an option in a profile, between commands.
edit ==
  \E n \in DOMAIN profiles, e \in Edit :
    /\ \A p \in Process : proc[p].pc \notin {"open", "write"}
    /\ profiles' = Over(One(n, Over(One(e[1], e[2]), profiles[n])), profiles)
    /\ wish' = Over(One(n, Over(One(e[1], e[2]), WishOf(n))), wish)
    /\ proc' = [p \in Process |-> Idle]
    /\ UNCHANGED <<host, version, count>>

upgrade ==
  /\ version < Len(Release) /\ version' = version + 1
  /\ \A p \in Process : proc[p].pc \notin {"open", "write"}
  /\ proc' = [p \in Process |-> Idle]
  /\ UNCHANGED <<host, profiles, count, wish>>

\* A profile that was emptied stays so, and the wishes with it.
kill(p) ==
  LET n == Target(proc[p].inv, Set(p)) IN
  /\ proc[p].pc \in {"open", "write"}
  /\ proc' = [proc EXCEPT ![p] = Idle]
  /\ wish' = IF proc[p].pc = "open" THEN wish ELSE Over(One(n, None), wish)
  /\ UNCHANGED <<host, version, profiles, count>>

Next ==
  \/ \E p \in Process : parseArguments(p) \/ refuse(p) \/ displayProfile(p) \/ initProfile(p)
                        \/ openProfile(p) \/ openFails(p) \/ writeConfigurationFile(p) \/ kill(p)
  \/ edit \/ upgrade
Spec == Init /\ [][Next]_vars

----------------------------------------------------------------------------
Runs(p) == proc[p].pc = "run"
Says(p, k) == k \in DOMAIN Given(proc[p].inv)

\* A setting asked for once, when a profile is made or written in it by hand,
\* holds in every later command under that profile that does not give the
\* option itself: "several options once for all for every projects"
\* (README.md:135).  Values that read as options of run are the exception, and
\* a kill that leaves a profile empty.
Kept ==
  \A p \in Process : Runs(p) =>
    \A k \in DOMAIN WishOf(Reads(proc[p].inv)) :
      k[1] = None /\ ~Says(p, k) /\ wish[Reads(proc[p].inv)][k] \notin DOMAIN Altered
        => Set(p)[k] = wish[Reads(proc[p].inv)][k]

\* No command meets a generator it has no file for, wherever the value came
\* from: getGenerator ends the process on one (generatorTypeMap.at).
GeneratorKnown == \A p \in Process : Runs(p) => At(Set(p), "--generator") \in generatorTypeMap
=============================================================================
