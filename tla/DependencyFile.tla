--------------------------- MODULE DependencyFile ---------------------------
(***************************************************************************)
(* What a dependency file means: the constructor, validate and the queries *)
(* of class Dependency (src/src/Dependency.cpp), DepUtils::parse and       *)
(* removeRedundantDependencies (src/src/utils/DepUtils.cpp).               *)
(*                                                                         *)
(* A line is read after the other into a multimap, of which the lines that *)
(* another one makes redundant are left out.                               *)
(*                                                                         *)
(* Abstractions.  Names are numbered in alphabetical order.  A url is none,*)
(* one on github or another; conditions, version, channel and options are  *)
(* the "variant" of a line.                                                *)
(***************************************************************************)
EXTENDS Integers, SequencesExt

CONSTANTS
  Name,          \* names of libraries
  Lines,         \* the lines a file may have
  MaxLines,      \* of a file
  SystemTool,    \* getToolIdentifier(): the tool of this system
  OtherTools,    \* supportedTools of this system
  MainMode       \* the link mode of the command

Identifier == STRING
NoRepository == ""
Mode == {"static", "shared", "na"}

Line == [kind : {"dependency", "comment", "short"}, name : Name, identifier : Identifier,
         repository : STRING, url : {"none", "github", "other"},
         mode : Mode \union {"missing", "other"}, variant : Nat]

ASSUME DependencyFileAssumption ==
  /\ Name \subseteq Nat
  /\ Lines \subseteq Line
  /\ MaxLines \in Nat
  /\ SystemTool \in STRING
  /\ OtherTools \subseteq {"brew", "vcpkg", "scoop"} \ {SystemTool}
  /\ MainMode \in Mode

VARIABLES
  file,
  next,       \* line of the file, then of the multimap
  libraries,  \* the multimap, in the order of its keys
  result,     \* the dependencies that are returned
  outcome     \* "none", "reading", "filtering", "failed" or "ok"

vars == <<file, next, libraries, result, outcome>>

----------------------------------------------------------------------------
(* Dependency *)

ToolIdentifiers == {"system", "apt-get", "brew", "yum", "choco", "scoop", "pkg", "pkgutil",
                    "pacman", "zypper"}
RepositoryTypes == {"artifactory", "github", "nexus", "path", "vcpkg", "conan", "system", "http"}
Legacy == {"bcomBuild", "thirdParties"}

\* deduceType; what it does not know is a remaken package.
DeducedType(s) ==
  CASE s \in {"system", "choco", "apt-get", "yum"} -> "SYSTEM"
    [] s = "conan" -> "CONAN" [] s = "vcpkg" -> "VCPKG"
    [] s = "brew" -> "BREW" [] s = "scoop" -> "SCOOP"
    [] OTHER -> "REMAKEN"

\* The repository type a line states or its identifier implies.
StatedRepository(l) ==
  IF l.repository # NoRepository THEN l.repository
  ELSE IF l.identifier \in Legacy THEN "artifactory"
  ELSE IF l.identifier \in ToolIdentifiers THEN "system" ELSE l.identifier

\* An identifier other than the repository decides, except for conan.
TypeOf(l) ==
  LET repository == StatedRepository(l)
  IN IF l.identifier # repository /\ DeducedType(repository) # "CONAN"
     THEN DeducedType(l.identifier) ELSE DeducedType(repository)

\* A legacy identifier with a github url means a github repository.
RepositoryOf(l) ==
  IF l.url = "github" /\ StatedRepository(l) = "artifactory" /\ l.identifier \in Legacy
  THEN "github" ELSE StatedRepository(l)

ModeOf(l) == IF l.mode \in Mode THEN l.mode ELSE MainMode

\* hasIdentifier, which puts the identifier into the path of the package: stated before
\* an "@", or other than the repository it implies.
HasIdentifier(l) ==
  l.identifier # "" /\ (l.repository # NoRepository \/ l.identifier # StatedRepository(l))

Dependency(l) ==
  [name |-> l.name, identifier |-> l.identifier, hasIdentifier |-> HasIdentifier(l),
   repository |-> RepositoryOf(l), url |-> l.url,
   type |-> TypeOf(l), mode |-> ModeOf(l), variant |-> l.variant]

\* operator==, which compares neither the url nor hasIdentifier.
Equal(d, e) ==
  /\ d.name = e.name /\ d.variant = e.variant
  /\ d.repository = e.repository /\ d.mode = e.mode
  /\ d.identifier = e.identifier /\ d.type = e.type

\* validate; a missing url is only reported.
Valid(d) ==
  /\ d.repository \in RepositoryTypes
  /\ d.repository = "system" <=> d.identifier \in ToolIdentifiers
  /\ d.mode = "na" => d.repository \in {"conan", "system"}

IsSystem(d) == d.repository = "system"
IsGeneric(d) == IsSystem(d) /\ d.identifier \in {"system", SystemTool}
IsSpecific(d) == IsSystem(d) /\ ~IsGeneric(d) /\ d.identifier \in OtherTools

----------------------------------------------------------------------------
(* DepUtils::parse *)

Stored(d) == IsGeneric(d) \/ IsSpecific(d) \/ ~IsSystem(d)

\* Mutant: lines that differ in their url are different lines.
UsableByUrl(d) == Stored(d) /\ d \notin Range(libraries)

\* A dependency that is stored: one this system can install, and none equal to it yet.
Usable(d) == Stored(d) /\ \A e \in Range(libraries) : ~Equal(d, e)

\* Into the multimap: after the last with this name.
Insert(d) ==
  \E i \in 1..(Len(libraries) + 1) :
    /\ \A j \in DOMAIN libraries : j < i <=> libraries[j].name <= d.name
    /\ libraries' = InsertAt(libraries, i, d)

\* A system dependency is left out when its name has several lines, unless it is for
\* a dedicated tool.
Redundant(d) ==
  /\ IsSystem(d)
  /\ \E e \in Range(libraries) : e # d /\ e.name = d.name
  /\ ~IsSpecific(d)

parse ==
  /\ outcome = "none"
  /\ \E n \in 0..MaxLines : file' \in [1..n -> Lines]
  /\ outcome' = "reading" /\ next' = 1
  /\ UNCHANGED <<libraries, result>>

\* Comments and lines of less than four fields.
ignoreLine ==
  /\ outcome = "reading" /\ next <= Len(file)
  /\ file[next].kind # "dependency"
  /\ next' = next + 1
  /\ UNCHANGED <<file, libraries, result, outcome>>

\* A line that is not valid fails the whole file.
parseLine ==
  /\ outcome = "reading" /\ next <= Len(file)
  /\ file[next].kind = "dependency"
  /\ LET d == Dependency(file[next])
     IN IF Valid(d)
        THEN /\ next' = next + 1
             /\ IF Usable(d) THEN Insert(d) ELSE UNCHANGED libraries
             /\ UNCHANGED outcome
        ELSE outcome' = "failed" /\ UNCHANGED <<next, libraries>>
  /\ UNCHANGED <<file, result>>

endOfFile ==
  /\ outcome = "reading" /\ next > Len(file)
  /\ outcome' = "filtering" /\ next' = 1
  /\ UNCHANGED <<file, libraries, result>>

\* The loop over the multimap.
removeRedundantDependencies ==
  /\ outcome = "filtering" /\ next <= Len(libraries)
  /\ result' = IF Redundant(libraries[next]) THEN result ELSE Append(result, libraries[next])
  /\ next' = next + 1
  /\ UNCHANGED <<file, libraries, outcome>>

parsed ==
  /\ outcome = "filtering" /\ next > Len(libraries)
  /\ outcome' = "ok"
  /\ UNCHANGED <<file, next, libraries, result>>

Init == file = << >> /\ next = 1 /\ libraries = << >> /\ result = << >> /\ outcome = "none"
Next ==
  parse \/ ignoreLine \/ parseLine \/ endOfFile \/ removeRedundantDependencies \/ parsed
Spec == Init /\ [][Next]_vars

----------------------------------------------------------------------------
(* Properties *)

\* Every variable stays in its domain; the multimap holds different dependencies.
TypeOK ==
  /\ file \in Seq(Lines)
  /\ next \in Nat
  /\ libraries \in Seq({Dependency(l) : l \in Lines})
  /\ result \in Seq(Range(libraries))
  /\ outcome \in {"none", "reading", "filtering", "failed", "ok"}

Meant == {Dependency(l) : l \in {x \in Range(file) : x.kind = "dependency"}}
Here == {d \in Meant : IsSystem(d) => d.identifier \in {"system", SystemTool} \union OtherTools}
Needed ==
  {d \in Here : IsSystem(d) /\ d.identifier \notin OtherTools =>
                  ~\E e \in Here : ~Equal(e, d) /\ e.name = d.name}

\* Line i is a dependency and none before it is equal to it.
FirstLine(i) ==
  /\ file[i].kind = "dependency"
  /\ \A j \in 1..(i - 1) :
       file[j].kind = "dependency" => ~Equal(Dependency(file[j]), Dependency(file[i]))

\* A file yields the packages of this system, in the order of their names and each once,
\* where a system package gives way to any other line of its name but one for a dedicated
\* tool.  The order of the lines and repetitions change nothing but this: of lines that
\* differ only in what operator== does not compare, the url and whether the identifier
\* counts, the first is the one that is installed.
OrderIrrelevant ==
  outcome = "ok" =>
    /\ Range(result) \subseteq Needed
    /\ \A d \in Needed : \E e \in Range(result) : Equal(d, e)
    /\ \A d \in Range(result) : \E i \in DOMAIN file : FirstLine(i) /\ d = Dependency(file[i])
    /\ \A i, j \in DOMAIN result : i < j => ~Equal(result[i], result[j])
    /\ \A i, j \in DOMAIN result : i < j => result[i].name <= result[j].name
=============================================================================
