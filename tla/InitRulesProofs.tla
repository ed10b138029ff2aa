-------------------------- MODULE InitRulesProofs --------------------------
(***************************************************************************)
(* What a successful init leaves: whole rules, with --force those of the   *)
(* release asked for.                                                      *)
(*                                                                         *)
(* Both rest on OneTop.  After unpacking, InitCommand.cpp links to the     *)
(* first folder it finds in rules: were a release to change its top        *)
(* folder, that may be a folder of an earlier one.                         *)
(***************************************************************************)
EXTENDS InitRules, TLAPS

\* The archive has one name, builddefs-qmake-package.zip, and one top folder,
\* whatever the release.
OneTop == \A s, t \in Tag : FolderOf[s] = FolderOf[t]

TypeInv ==
  /\ tool \in Unpackers
  /\ folders \in [Folders -> [File -> Content]]
  /\ link \in {"none", "own"} \union Folders
  /\ cmd \in Commands /\ left \subseteq File
  /\ outcome \in {"none", "ok", "failed", "killed"}

\* File f of the folder is the archive's.
Fresh(f) == folders[Top][f] = Archived
Replaces == tool = "7z" \/ cmd.override

\* What is known at each step of a command.
StepInv ==
  /\ pc \in {"remove", "check", "unzip", "wizards"} => Rules /\ outcome = "none"
  /\ pc \in {"vcpkg", "bootstrap", "brew", "artifactpkg", "permissions"} => ~Rules
  /\ pc = "check" /\ cmd.force => link = "none"
  /\ pc = "unzip" => /\ link = "none"
                     /\ \A f \in File \ left : /\ folders[Top][f] # NoFile
                                               /\ Replaces => Fresh(f)
  /\ pc = "idle" => outcome = "none"

\* What the link leads to: files that are all there, whole ones with 7z.
LinkInv ==
  link \in Folders => \A f \in File : /\ folders[link][f] # NoFile
                                      /\ tool = "7z" => folders[link][f].whole

\* What a command that got past the rules found or made.
DoneInv ==
  pc = "wizards" \/ Done =>
    /\ link # "none"
    /\ cmd.force => link \in Folders /\ \A f \in File : folders[link][f] = Archived

IInv == TypeInv /\ StepInv /\ LinkInv /\ DoneInv

\* Types of what a command unpacks.
LEMMA TopTypes ==
  ASSUME InitRulesAssumption, TypeInv
  PROVE  /\ Top \in Folders /\ Archived \in Content /\ NoFile \in Content
         /\ cmd.tag \in Nat /\ Archived # NoFile /\ Archived.whole
         /\ "none" \notin Folders /\ "own" \notin Folders
         /\ cmd.force => cmd.override
<1>1. cmd.tag \in Tag /\ cmd.tag \in Nat /\ (cmd.force => cmd.override)
  BY DEF InitRulesAssumption, TypeInv
<1>2. Top \in Folders /\ "none" \notin Folders /\ "own" \notin Folders
  BY <1>1 DEF InitRulesAssumption, Top, Folders
<1>3. Archived \in Content /\ NoFile \in Content /\ Archived.whole
  BY <1>1 DEF Archived, Content, NoFile
<1>4. Archived.of # NoFile.of
  BY <1>1 DEF Archived, NoFile
<1> QED
  BY <1>1, <1>2, <1>3, <1>4

\* With one folder for all releases there is no other.
LEMMA OnlyTop ==
  ASSUME InitRulesAssumption, TypeInv, OneTop, NEW d \in Folders
  PROVE  d = Top
BY DEF InitRulesAssumption, TypeInv, OneTop, Folders, Top

\* A file that unzip leaves is a file, and the archive's where files are replaced.
LEMMA UnzippedFiles ==
  ASSUME InitRulesAssumption, TypeInv, NEW old \in Content, NEW new \in Unzipped(old)
  PROVE  /\ new \in Content /\ new # NoFile
         /\ Replaces => new = Archived
BY TopTypes DEF Unzipped, Replaces

\* At first nothing is linked.
LEMMA IInvInit == ASSUME InitRulesAssumption, Init PROVE IInv
<1>1. NoFile \in Content
  BY DEF NoFile, Content
<1>2. TypeInv
  BY <1>1 DEF Init, TypeInv, Empty
<1>3. StepInv
  BY DEF Init, StepInv
<1>4. LinkInv
  BY <1>2, TopTypes DEF Init, LinkInv
<1>5. DoneInv
  BY DEF Init, DoneInv, Done
<1> QED
  BY <1>2, <1>3, <1>4, <1>5 DEF IInv

\* Every step, and every kill, keeps the link on whole rules.
LEMMA IInvStep == ASSUME InitRulesAssumption, OneTop, IInv, [Next]_vars PROVE IInv'
<1> USE DEF IInv
<1>1. CASE UNCHANGED vars
  BY <1>1 DEF vars, TypeInv, StepInv, LinkInv, DoneInv, Rules, Done, Fresh, Replaces, Top,
     Archived
<1>2. CASE Next
  <2>tool. tool' = tool
    BY <1>2 DEF Next
  \* Steps that leave the rules alone and do not end well.
  <2>still. ASSUME UNCHANGED <<folders, link, cmd, left>>,
                   pc' \in {"done", "check", "bootstrap", "permissions"} \/ pc' = pc,
                   pc' = "check" => pc = "check",
                   \/ pc \in {"vcpkg", "bootstrap", "brew", "artifactpkg", "permissions"}
                   \/ outcome' \in {"failed", "killed"} /\ pc' = "done",
                   outcome' \in {"none", "ok", "failed", "killed"}
            PROVE  IInv'
    <3>1. TypeInv'
      BY <2>tool, <2>still DEF TypeInv
    <3>2. StepInv' /\ DoneInv'
      BY <2>still DEF StepInv, DoneInv, Rules, Done
    <3>3. LinkInv'
      BY <2>tool, <2>still DEF LinkInv
    <3> QED
      BY <3>1, <3>2, <3>3
  <2>1. CASE init
    <3>1. PICK c \in Commands : cmd' = c /\ pc' = Continue(c)
      BY <2>1 DEF init
    <3>2. TypeInv' /\ LinkInv'
      BY <2>1, <2>tool DEF init, TypeInv, LinkInv
    <3>3. \/ pc' \in {"remove", "check"} /\ (c.force => pc' = "remove") /\ c.sub \notin Tools
          \/ pc' \in Tools /\ pc' = c.sub
      BY <3>1 DEF Continue
    <3>4. c.sub \in Tools \/ c.sub \in {"", "wizards"}
      BY DEF InitRulesAssumption, Tools
    <3>5. StepInv'
      BY <2>1, <3>1, <3>3, <3>4 DEF init, StepInv, Rules, Tools
    <3>6. DoneInv'
      BY <2>1, <3>1, <3>3 DEF init, DoneInv, Done, Tools
    <3> QED
      BY <3>2, <3>5, <3>6
  <2>2. CASE removeLink
    <3>1. CASE link = "own"
      BY <2>2, <3>1, <2>still DEF removeLink, End
    <3>2. CASE link # "own"
      <4>1. TypeInv' /\ LinkInv'
        BY <2>2, <2>tool, <3>2, TopTypes DEF removeLink, TypeInv, LinkInv
      <4>2. StepInv' /\ DoneInv'
        BY <2>2, <3>2 DEF removeLink, StepInv, DoneInv, Rules, Done
      <4> QED
        BY <4>1, <4>2
    <3> QED
      BY <3>1, <3>2
  <2>3. CASE skip
    <3>1. TypeInv' /\ LinkInv'
      BY <2>3, <2>tool DEF skip, TypeInv, LinkInv
    <3>2. StepInv' /\ DoneInv'
      BY <2>3 DEF skip, StepInv, DoneInv, Rules, Done
    <3> QED
      BY <3>1, <3>2
  <2>4. CASE download
    <3>1. CASE End("failed") /\ UNCHANGED left
      BY <2>4, <3>1, <2>still DEF download, End
    <3>2. CASE pc' = "unzip" /\ left' = File /\ UNCHANGED outcome
      <4>1. TypeInv' /\ LinkInv'
        BY <2>4, <2>tool, <3>2 DEF download, TypeInv, LinkInv
      <4>2. StepInv' /\ DoneInv'
        BY <2>4, <3>2 DEF download, StepInv, DoneInv, Rules, Done
      <4> QED
        BY <4>1, <4>2
    <3> QED
      BY <2>4, <3>1, <3>2 DEF download
  <2>5. CASE unzipFile
    <3> PICK f \in left :
          /\ folders' \in {[folders EXCEPT ![Top][f] = u] : u \in Unzipped(folders[Top][f])}
          /\ left' = left \ {f}
      BY <2>5 DEF unzipFile
    <3>1. PICK new \in Unzipped(folders[Top][f]) : folders' = [folders EXCEPT ![Top][f] = new]
      OBVIOUS
    <3>2. /\ f \in File /\ Top \in Folders
          /\ folders[Top] \in [File -> Content] /\ folders[Top][f] \in Content
      BY TopTypes DEF TypeInv
    <3>3. new \in Content /\ new # NoFile /\ (Replaces => new = Archived)
      BY <3>2, UnzippedFiles
    <3>4. folders'[Top] = [folders[Top] EXCEPT ![f] = new]
      BY <3>1, <3>2 DEF TypeInv
    <3>5. UNCHANGED <<link, cmd, pc, outcome>>
      BY <2>5 DEF unzipFile
    <3>6. TypeInv'
      BY <2>tool, <3>1, <3>2, <3>3, <3>5 DEF TypeInv
    <3>7. pc = "unzip" /\ link = "none"
      BY <2>5 DEF unzipFile, StepInv
    <3>8. \A g \in File \ left' : /\ folders'[Top][g] # NoFile
                                  /\ Replaces => folders'[Top][g] = Archived
      BY <3>1, <3>2, <3>3, <3>4, <3>7 DEF StepInv, Fresh
    <3>9. StepInv'
      BY <2>tool, <3>5, <3>7, <3>8 DEF StepInv, Fresh, Top, Replaces, Archived, Rules
    <3>10. LinkInv' /\ DoneInv'
      BY <3>5, <3>7, TopTypes DEF StepInv, LinkInv, DoneInv, Done
    <3> QED
      BY <3>6, <3>9, <3>10
  <2>6. CASE unzipFails
    BY <2>6, <2>still DEF unzipFails, End
  <2>7. CASE createLink
    <3>1. link' \in Folders /\ link' = Top
      BY <2>7, OnlyTop DEF createLink, firstFolder
    <3>2. UNCHANGED <<folders, cmd, left, outcome>> /\ pc = "unzip" /\ left = {} /\ pc' = "wizards"
      BY <2>7 DEF createLink
    <3>3. \A f \in File : /\ folders[Top][f] # NoFile
                          /\ Replaces => folders[Top][f] = Archived
      BY <3>2 DEF StepInv, Fresh
    <3>4. TypeInv'
      BY <2>tool, <3>1, <3>2 DEF TypeInv
    <3>5. StepInv'
      BY <3>2 DEF StepInv, Rules
    <3>6. LinkInv'
      BY <2>tool, <3>1, <3>2, <3>3, TopTypes DEF LinkInv, Replaces
    <3>7. Archived' = Archived
      BY <3>2 DEF Archived
    <3>8. DoneInv'
      BY <3>1, <3>2, <3>3, <3>7, TopTypes DEF DoneInv, Replaces
    <3> QED
      BY <3>4, <3>5, <3>6, <3>8
  <2>8. CASE setupWizards
    <3>1. pc = "wizards" /\ pc' = "done" /\ outcome' \in {"ok", "failed"}
          /\ UNCHANGED <<folders, link, cmd, left>>
      BY <2>8 DEF setupWizards, End
    <3>2. TypeInv' /\ LinkInv'
      BY <2>tool, <3>1 DEF TypeInv, LinkInv
    <3>3. StepInv'
      BY <3>1 DEF StepInv
    <3>4. DoneInv'
      BY <3>1 DEF DoneInv, Archived
    <3> QED
      BY <3>2, <3>3, <3>4
  <2>9. CASE cloneVCPKG
    <3>1. outcome' \in {"none", "ok", "failed", "killed"}
      BY <2>9 DEF cloneVCPKG, AfterClone, TypeInv
    <3> QED
      BY <2>9, <3>1, <2>still DEF cloneVCPKG, AfterClone
  <2>10. CASE bootstrap
    BY <2>10, <2>still DEF bootstrap, End
  <2>11. CASE setupBrew
    BY <2>11, <2>still DEF setupBrew, End
  <2>12. CASE downloadFile
    <3>1. outcome' \in {"none", "ok", "failed", "killed"}
      BY <2>12 DEF downloadFile, End, TypeInv
    <3> QED
      BY <2>12, <3>1, <2>still DEF downloadFile, End
  <2>13. CASE permissions
    BY <2>13, <2>still DEF permissions, End
  <2>14. CASE kill
    <3>1. pc' = "done" /\ outcome' = "killed" /\ UNCHANGED <<link, cmd, left>>
      BY <2>14 DEF kill, End
    <3>2. folders' \in [Folders -> [File -> Content]] /\ (folders' # folders => pc = "unzip")
      <4>1. CASE folders' = folders
        BY <4>1 DEF TypeInv
      <4>2. CASE folders' # folders
        <5>1. PICK f \in left :
                folders' = [folders EXCEPT ![Top][f] = [of |-> cmd.tag, whole |-> FALSE]]
          BY <2>14, <4>2 DEF kill
        <5>2. [of |-> cmd.tag, whole |-> FALSE] \in Content
          BY DEF InitRulesAssumption, TypeInv, Content
        <5>3. f \in File /\ Top \in Folders
          BY TopTypes DEF TypeInv
        <5> QED
          BY <2>14, <4>2, <5>1, <5>2, <5>3 DEF kill, TypeInv
      <4> QED
        BY <4>1, <4>2
    <3>3. TypeInv'
      BY <2>tool, <3>1, <3>2 DEF TypeInv
    <3>4. LinkInv'
      BY <2>tool, <3>1, <3>2, TopTypes DEF LinkInv, StepInv
    <3>5. StepInv' /\ DoneInv'
      BY <3>1 DEF StepInv, DoneInv, Done
    <3> QED
      BY <3>3, <3>4, <3>5
  <2> QED
    BY <1>2, <2>1, <2>2, <2>3, <2>4, <2>5, <2>6, <2>7, <2>8, <2>9, <2>10, <2>11, <2>12,
       <2>13, <2>14
    DEF Next, Step
<1> QED
  BY <1>1, <1>2

\* After a successful init the rules are all there, whatever was killed, failed or
\* was removed before; they are whole with --force and on machines that have 7z.
THEOREM RulesAreWhole ==
  ASSUME InitRulesAssumption, OneTop
  PROVE  Spec => []RulesWhole
<1>1. IInv => RulesWhole
  BY TopTypes DEF IInv, TypeInv, LinkInv, DoneInv, RulesWhole, Linked
<1> QED
  BY <1>1, IInvInit, IInvStep, PTL DEF Spec

\* After a successful init --force the rules are those of the release it asked for,
\* not those of an earlier init.
THEOREM ForcedInitInstalls ==
  ASSUME InitRulesAssumption, OneTop
  PROVE  Spec => []ForceInstalls
<1>1. IInv => ForceInstalls
  BY DEF IInv, DoneInv, ForceInstalls, Archived
<1> QED
  BY <1>1, IInvInit, IInvStep, PTL DEF Spec
=============================================================================
