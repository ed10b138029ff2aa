------------------------------ MODULE InitRules ------------------------------
(***************************************************************************)
(* remaken init: commands/InitCommand.cpp with tools/ZipTool.cpp,          *)
(* tools/GitTool.cpp and DepUtils::downloadFile.                           *)
(*                                                                         *)
(* ~/.remaken/rules holds one folder per archive name and qmake, a link to *)
(* one of them.  A file is known by the release it is of and whether it is *)
(* whole; one cut short by a kill is younger than any release.             *)
(***************************************************************************)
EXTENDS Integers, FiniteSets

CONSTANTS
  Tag,        \* releases, numbers in the order of their dates
  File,       \* files of the archives
  FolderOf,   \* FolderOf[t]: the top folder of the archive of release t
  Commands,   \* [sub, force, override, tag, wizards]
  Unpackers   \* of "unzip" and "7z", those that a machine may have

InitRulesAssumption ==
  /\ Tag \subseteq Nat /\ Tag # {} /\ Unpackers \subseteq {"unzip", "7z"}
  /\ \A t \in Tag : FolderOf[t] \notin {"none", "own"}
  /\ \A c \in Commands : /\ c.sub \in {"", "wizards", "vcpkg", "brew", "artifactpkg"}
                         /\ c.tag \in Tag /\ (c.force => c.override)

VARIABLES
  tool,      \* the unpacker of this machine
  folders,   \* folders[d]: the files of folder d of rules
  link,      \* rules/qmake: "none", "own", or the folder it leads to
  wizards,   \* the release of each wizard file copied for the IDE
  vcpkg,     \* "none", "cloned", "ready"
  packager,  \* the packager script is installed, executable
  cmd, pc,
  left,      \* files still to unpack
  outcome    \* "none", "ok", "failed", "killed"

vars == <<tool, folders, link, wizards, vcpkg, packager, cmd, pc, left, outcome>>

Folders == {FolderOf[t] : t \in Tag}
NoFile == [of |-> -1, whole |-> TRUE]
Content == [of : Tag \union {-1}, whole : BOOLEAN]
Empty == [f \in File |-> NoFile]

Init ==
  /\ tool \in Unpackers
  /\ folders = [d \in Folders |-> Empty]
  /\ link \in {"none", "own"}    \* nothing, or a folder of the user's
  /\ wizards = Empty /\ vcpkg = "none" /\ packager = "none"
  /\ cmd \in Commands /\ pc = "idle" /\ left = {} /\ outcome = "none"

Exists(d) == \E f \in File : folders[d][f] # NoFile
End(o) == pc' = "done" /\ outcome' = o

Tools == {"vcpkg", "brew", "artifactpkg"}

\* Mutant: --force leaves the link.
ContinueCheck(c) == IF c.sub \in Tools THEN c.sub ELSE "check"

\* The subcommands of init come before anything that concerns the rules.
Continue(c) == IF c.sub \in Tools THEN c.sub ELSE IF c.force THEN "remove" ELSE "check"

init ==
  /\ pc \in {"idle", "done"}
  /\ \E c \in Commands : cmd' = c /\ pc' = Continue(c)
  /\ outcome' = "none" /\ left' = {}
  /\ UNCHANGED <<folders, link, wizards, vcpkg, packager>>

----------------------------------------------------------------------------
(* The rules *)

\* --force: the link is removed; a folder in its place is not empty, which throws.
removeLink ==
  /\ pc = "remove"
  /\ IF link = "own" THEN End("failed") /\ UNCHANGED link
     ELSE link' = "none" /\ pc' = "check" /\ UNCHANGED outcome
  /\ UNCHANGED <<folders, wizards, vcpkg, packager, cmd, left>>

\* A link counts even when it leads nowhere.
skip ==
  /\ pc = "check" /\ link # "none" /\ pc' = "wizards"
  /\ UNCHANGED <<folders, link, wizards, vcpkg, packager, cmd, left, outcome>>

\* HttpFileRetriever: the archive or an error.
download ==
  /\ pc = "check" /\ link = "none"
  /\ \/ pc' = "unzip" /\ left' = File /\ UNCHANGED outcome
     \/ End("failed") /\ UNCHANGED left
  /\ UNCHANGED <<folders, link, wizards, vcpkg, packager, cmd>>

Top == FolderOf[cmd.tag]
Archived == [of |-> cmd.tag, whole |-> TRUE]

\* Mutant: files that are there stay.
UnzippedOnce(old) == IF old = NoFile THEN {Archived} ELSE {old}

\* unzip -o and 7z -y replace every file, unzip -u an older one when the user agrees.
Unzipped(old) ==
  IF tool = "7z" \/ cmd.override \/ old = NoFile THEN {Archived}
  ELSE IF ~old.whole \/ old.of >= cmd.tag THEN {old}
  ELSE {old, Archived}

unzipFile ==
  /\ pc = "unzip"
  /\ \E f \in left :
       /\ folders' \in {[folders EXCEPT ![Top][f] = new] : new \in Unzipped(folders[Top][f])}
       /\ left' = left \ {f}
  /\ UNCHANGED <<link, wizards, vcpkg, packager, cmd, pc, outcome>>

\* The tool tells an error: what it unpacked stays.
unzipFails ==
  /\ pc = "unzip" /\ left # {} /\ End("failed")
  /\ UNCHANGED <<folders, link, wizards, vcpkg, packager, cmd, left>>

\* The first folder of rules, whatever the archive brought.
firstFolder == {d \in Folders : Exists(d)}

createLink ==
  /\ pc = "unzip" /\ left = {}
  /\ link' \in firstFolder /\ pc' = "wizards"
  /\ UNCHANGED <<folders, wizards, vcpkg, packager, cmd, left, outcome>>

\* copyFolder overwrites; files that a release no longer has stay.
copyWizards ==
  wizards' = [f \in File |-> IF folders[link][f] = NoFile THEN wizards[f] ELSE folders[link][f]]

WantsWizards == cmd.wizards \/ cmd.sub = "wizards"

\* Rules of the user's have no wizards, a source that does not exist throws.
setupWizards ==
  /\ pc = "wizards"
  /\ IF ~WantsWizards THEN End("ok") /\ UNCHANGED wizards
     ELSE IF link = "own" THEN End("failed") /\ UNCHANGED wizards
     ELSE copyWizards /\ End("ok")
  /\ UNCHANGED <<folders, link, vcpkg, packager, cmd, left>>

----------------------------------------------------------------------------
(* Other tools *)

\* setupVCPKG goes on when git succeeded.
AfterClone(o) == IF o = "ok" THEN "bootstrap" ELSE "done"

\* git clone refuses a folder that is there, and three names when --tag has a value.
GitClones == vcpkg = "none" /\ cmd.tag = 0

cloneVCPKG ==
  /\ pc = "vcpkg"
  /\ \E o \in {"failed"} \union (IF GitClones THEN {"ok"} ELSE {}) :
       /\ pc' = AfterClone(o)
       /\ vcpkg' = IF o = "ok" THEN "cloned" ELSE vcpkg
       /\ outcome' = IF pc' = "done" THEN o ELSE outcome
  /\ UNCHANGED <<folders, link, wizards, packager, cmd, left>>

\* The script of the clone; its result is that of the command.
bootstrap ==
  /\ pc = "bootstrap"
  /\ \E ok \in BOOLEAN :
       /\ vcpkg' = IF ok THEN "ready" ELSE vcpkg
       /\ End(IF ok THEN "ok" ELSE "failed")
  /\ UNCHANGED <<folders, link, wizards, packager, cmd, left>>

\* A shell that gets the options of another command; it changes nothing.
setupBrew ==
  /\ pc = "brew" /\ End("failed")
  /\ UNCHANGED <<folders, link, wizards, vcpkg, packager, cmd, left>>

\* The script is copied over the one before, then made executable.
downloadFile ==
  /\ pc = "artifactpkg"
  /\ \/ packager' = "copied" /\ pc' = "permissions" /\ UNCHANGED outcome
     \/ End("failed") /\ UNCHANGED packager
  /\ UNCHANGED <<folders, link, wizards, vcpkg, cmd, left>>

permissions ==
  /\ pc = "permissions" /\ packager' = "executable" /\ End("ok")
  /\ UNCHANGED <<folders, link, wizards, vcpkg, cmd, left>>

----------------------------------------------------------------------------
\* A kill while a file is written leaves a part of it.
kill ==
  /\ pc \notin {"idle", "done"}
  /\ End("killed")
  /\ folders' \in {folders} \union
       IF pc # "unzip" THEN {}
       ELSE {[folders EXCEPT ![Top][f] = [of |-> cmd.tag, whole |-> FALSE]] :
               f \in {g \in left : Archived \in Unzipped(folders[Top][g])
                                   /\ folders[Top][g] # Archived}}
  /\ UNCHANGED <<link, wizards, vcpkg, packager, cmd, left>>

Step ==
  \/ init \/ removeLink \/ skip \/ download \/ unzipFile \/ unzipFails \/ createLink
  \/ setupWizards \/ cloneVCPKG \/ bootstrap \/ setupBrew \/ downloadFile \/ permissions
  \/ kill

\* The machine keeps its unpacker.
Next == Step /\ UNCHANGED tool

Spec == Init /\ [][Next]_vars

----------------------------------------------------------------------------
(* Properties *)

Rules == cmd.sub \in {"", "wizards"}
Done == outcome = "ok" /\ Rules
Linked == link \notin {"none", "own"}

\* After a successful init there are rules and no file of theirs is missing, whatever
\* was killed before; none is cut short where files are replaced: unzip -u keeps those.
RulesWhole ==
  Done => /\ link # "none"
          /\ Linked => \A f \in File :
               /\ folders[link][f] # NoFile
               /\ tool = "7z" \/ cmd.force => folders[link][f].whole

\* After a successful init --force the rules are those of the release asked for.
ForceInstalls ==
  Done /\ Linked /\ cmd.force => \A f \in File : folders[link][f].of = cmd.tag
=============================================================================
