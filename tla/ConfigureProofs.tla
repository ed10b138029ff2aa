-------------------------- MODULE ConfigureProofs ---------------------------
(***************************************************************************)
(* Proofs about module Configure: types, what "up to date" means, what a   *)
(* success leaves, and that recorded conditions are kept.                  *)
(*                                                                         *)
(* No bound is used: the clock may run to any MaxTime, and the graph of    *)
(* packages is arbitrary.                                                  *)
(***************************************************************************)
EXTENDS ConfigureProps, TLAPS

----------------------------------------------------------------------------
(* The lines that parseRecurse collects. *)

Universe(S) == S \union UNION {Children[d] : d \in Dep}
ClosedSets(S) ==
  {T \in SUBSET Universe(S) :
     S \subseteq T /\ \A l \in T : l.dep \in installed => Children[l.dep] \subseteq T}

\* The least closed set of lines exists: it is the intersection of all of them.
LEMMA CollectedIsLeast ==
  ASSUME ConfigureAssumption, NEW S \in SUBSET Line
  PROVE  /\ Collected(S) \in ClosedSets(S)
         /\ \A U \in ClosedSets(S) : Collected(S) \subseteq U
<1> DEFINE Least == {l \in Universe(S) : \A U \in ClosedSets(S) : l \in U}
<1>1. \A d \in Dep : Children[d] \in SUBSET Line
  BY DEF ConfigureAssumption
<1>2. Universe(S) \subseteq Line
  BY <1>1 DEF Universe
<1>3. Least \in ClosedSets(S)
  <2>1. \A l \in Least : l.dep \in installed => Children[l.dep] \subseteq Least
    BY <1>2 DEF ClosedSets, Universe, Line
  <2> QED
    BY <2>1 DEF ClosedSets, Universe
<1>4. \A U \in ClosedSets(S) : Least \subseteq U
  OBVIOUS
<1>5. Collected(S) = CHOOSE T \in ClosedSets(S) : \A U \in ClosedSets(S) : T \subseteq U
  BY DEF Collected, ClosedSets, Universe
<1>6. \E T \in ClosedSets(S) : \A U \in ClosedSets(S) : T \subseteq U
  BY <1>3, <1>4
<1> HIDE DEF Least
<1> QED
  BY <1>5, <1>6

\* What is collected from lines are lines.
LEMMA CollectedType ==
  ASSUME ConfigureAssumption, NEW S \in SUBSET Line
  PROVE  Collected(S) \in SUBSET Line
<1>1. \A d \in Dep : Children[d] \in SUBSET Line
  BY DEF ConfigureAssumption
<1> QED
  BY <1>1, CollectedIsLeast DEF ClosedSets, Universe

----------------------------------------------------------------------------
(* Types *)

\* Conditions switched on and off are conditions.
LEMMA ConditionsType ==
  ASSUME ConfigureAssumption, generated \in SUBSET Cond, NEW op \in OptionRecord
  PROVE  Conditions(op) \in [on : SUBSET Cond, off : SUBSET Cond]
BY DEF ConfigureAssumption, Conditions, Assign, NoMap, OptionRecord

\* Every variable of configure stays in its domain, whatever the packages require.
THEOREM ConfigureTypeCorrect == Spec => []TypeOK
<1> USE ConfigureAssumption
<1>1. Init => TypeOK
  <2> SUFFICES ASSUME Init PROVE TypeOK
    OBVIOUS
  <2>1. missed \in BOOLEAN
    BY Zenon DEF Init
  <2> QED
    BY <2>1 DEF ConfigureAssumption, Init, TypeOK, NoOptions, NoMap, OptionRecord, BuildFile, Kinds
<1>2. TypeOK /\ [Next]_vars => TypeOK'
  <2> SUFFICES ASSUME TypeOK, [Next]_vars
               PROVE  TypeOK'
    OBVIOUS
  <2> USE DEF TypeOK, history
  <2>1. CASE execute
    BY <2>1, ConditionsType DEF execute, project, build, ConfigureAssumption
  <2>2. CASE notAProject \/ upToDate
    BY <2>2 DEF notAProject, upToDate, Finish, project, build
  <2>3. CASE obsolete
    BY <2>3 DEF obsolete, project, build
  <2>4. CASE removeFile
    BY <2>4 DEF removeFile, project, run
  <2>5. CASE parse
    <3>1. lines' \in SUBSET Line
      BY <2>5 DEF parse, ConfigureAssumption
    <3> QED
      BY <2>5, <3>1 DEF parse, project, build
  <2>6. CASE parseRecurse
    BY <2>6, CollectedType DEF parseRecurse, Finish, project, build
  <2>7. CASE filterConditionDependencies
    BY <2>7 DEF filterConditionDependencies, project, build
  <2>8. CASE generate
    <3>1. PICK k \in todo :
            /\ todo' = todo \ {k}
            /\ IF Implemented
               THEN /\ present' = present \union {k}
                    /\ content' = [content EXCEPT ![k] = DepsOf(lines, k)]
               ELSE UNCHANGED <<present, content>>
      BY <2>8 DEF generate
    <3>2. DepsOf(lines, k) \in SUBSET Dep
      BY DEF DepsOf, Line
    <3>3. content' \in [Kinds -> SUBSET Dep]
      BY <3>1, <3>2
    <3>4. present' \subseteq BuildFile /\ todo' \subseteq Kinds
      BY <3>1 DEF BuildFile
    <3> QED
      BY <2>8, <3>3, <3>4 DEF generate, project
  <2>9. CASE generateFails
    BY <2>9 DEF generateFails, Finish, project, build
  <2>10. CASE generateIndex
    BY <2>10 DEF generateIndex, project, BuildFile
  <2>11. CASE writeTimestamp
    BY <2>11 DEF writeTimestamp, project, BuildFile
  <2>12. CASE removeConditions
    BY <2>12 DEF removeConditions, project, build
  <2>13. CondsOf(lines) \in SUBSET Cond
    BY DEF CondsOf, Line
  <2>14. CASE generateConfigureConditionsFile
    BY <2>14, <2>13 DEF generateConfigureConditionsFile, Finish, project, build
  <2>15. CASE exit
    BY <2>15 DEF exit, project, build, NoOptions, NoMap, OptionRecord
  <2>16. CASE edit
    BY <2>16 DEF edit, build, run
  <2>17. CASE install
    BY <2>17 DEF install, build, run
  <2>18. CASE tick
    BY <2>18, SMT DEF tick, build, run, ConfigureAssumption
  <2>19. CASE kill
    BY <2>19, <2>13 DEF kill, Finish, project, build
  <2>20. CASE UNCHANGED vars
    BY <2>20 DEF vars, project, build, run
  <2> QED
    BY <2>1, <2>2, <2>3, <2>4, <2>5, <2>6, <2>7, <2>8, <2>9, <2>10, <2>11, <2>12,
       <2>14, <2>15, <2>16, <2>17, <2>18, <2>19, <2>20 DEF Next, Step
<1>3. QED
  BY <1>1, <1>2, PTL DEF Spec

----------------------------------------------------------------------------
(* "Up to date" is said of the dependency file of this moment *)

\* A timestamp is younger than the dependency file only if that file, as it is now, was
\* read by the run that wrote it, or was edited while that run was between the two: a later
\* edit leaves the file at least as young as the timestamp, and the test is strict.
CurrentInv ==
  /\ draftTime <= clock /\ stamp <= clock
  /\ stamp > draftTime => source = draft \/ missed
  /\ pc \in BeforeStamp => source = draft \/ missed
  /\ "stamp" \notin present => stamp = 0

\* When configure says "up to date", the build folder was made from the file as it is,
\* whatever was killed, forced or failed, unless the file was edited between the reading
\* of a run and its timestamp.
THEOREM SkipsAreCurrent == Spec => []SkipIsCurrent
<1> USE ConfigureAssumption
<1>1. Init => CurrentInv
  BY SMT DEF Init, CurrentInv
<1>2. TypeOK /\ CurrentInv /\ [Next]_vars => CurrentInv'
  <2> SUFFICES ASSUME TypeOK, CurrentInv, [Next]_vars
               PROVE  CurrentInv'
    OBVIOUS
  <2> USE DEF CurrentInv, BeforeStamp, history
  <2>t. clock \in Nat /\ draftTime \in Nat /\ stamp \in Nat /\ draftTime > 0
    BY DEF TypeOK, ConfigureAssumption
  <2>1. CASE execute
    BY <2>1 DEF execute, project, build
  <2>2. CASE notAProject
    BY <2>2 DEF notAProject, Finish, project, build
  <2>3. CASE upToDate
    BY <2>3 DEF upToDate, UpToDate, Finish, project, build
  <2>4. CASE obsolete
    BY <2>4 DEF obsolete, project, build
  <2>5. CASE removeFile
    BY <2>5, <2>t DEF removeFile, project, run
  <2>6. CASE parse
    BY <2>6, <2>t DEF parse, project, build
  <2>7. CASE parseRecurse
    BY <2>7 DEF parseRecurse, Finish, project, build
  <2>8. CASE filterConditionDependencies
    BY <2>8 DEF filterConditionDependencies, project, build
  <2>9. CASE generate \/ generateIndex
    BY <2>9 DEF generate, generateIndex, project
  <2>10. CASE generateFails
    BY <2>10 DEF generateFails, Finish, project, build
  <2>11. CASE writeTimestamp
    BY <2>11, <2>t DEF writeTimestamp, project
  <2>12. CASE removeConditions
    BY <2>12 DEF removeConditions, project, build
  <2>13. CASE generateConfigureConditionsFile
    BY <2>13 DEF generateConfigureConditionsFile, Finish, project, build
  <2>14. CASE exit
    BY <2>14 DEF exit, project, build
  <2>15. CASE edit
    <3>1. draftTime' = clock /\ clock' = clock /\ stamp' = stamp /\ present' = present
      BY <2>15 DEF edit, build
    <3>2. pc \in BeforeStamp => missed'
      BY <2>15, Zenon DEF edit
    <3>3. pc' = pc
      BY <2>15 DEF edit, run
    <3> QED
      BY <3>1, <3>2, <3>3, <2>t
  <2>16. CASE install
    BY <2>16 DEF install, build, run
  <2>17. CASE tick
    BY <2>17, <2>t DEF tick, build, run
  <2>18. CASE kill
    BY <2>18 DEF kill, Finish, project, build
  <2>19. CASE UNCHANGED vars
    BY <2>19 DEF vars, project, build, run
  <2> QED
    BY <2>1, <2>2, <2>3, <2>4, <2>5, <2>6, <2>7, <2>8, <2>9, <2>10, <2>11, <2>12,
       <2>13, <2>14, <2>15, <2>16, <2>17, <2>18, <2>19 DEF Next, Step
<1>3. CurrentInv /\ [Next]_vars =>
        [outcome' = "uptodate" /\ outcome # "uptodate" => source = draft \/ missed]_vars
  <2> SUFFICES ASSUME CurrentInv, Next, outcome' = "uptodate", outcome # "uptodate"
               PROVE  source = draft \/ missed
    BY DEF vars
  <2>1. CASE upToDate
    BY <2>1 DEF upToDate, UpToDate, CurrentInv
  <2>2. CASE ~upToDate
    BY <2>2 DEF Next, Step, execute, notAProject, obsolete, removeFile, parse, parseRecurse,
                filterConditionDependencies, generate, generateFails, generateIndex,
                writeTimestamp, removeConditions, generateConfigureConditionsFile, exit,
                edit, install, tick, kill, Finish, run
  <2> QED
    BY <2>1, <2>2
<1>4. QED
  BY <1>1, <1>2, <1>3, ConfigureTypeCorrect, PTL DEF Spec, SkipIsCurrent

----------------------------------------------------------------------------
(* The build folder *)

\* The kinds that the lines which configure kept need a file for.
KindsOf == {k \in Kinds : DepsOf(lines, k) # {}}

\* There are the files of the kinds that are done, each made for what the lines list.
Made ==
  /\ present \intersect Kinds = KindsOf \ todo
  /\ \A k \in Kinds : content[k] = IF k \in KindsOf \ todo THEN DepsOf(lines, k) ELSE {}

AllMade == Made /\ todo = {} /\ index = KindsOf

Fresh == "stamp" \in present /\ stamp > draftTime

\* The build folder at each stage of a run.  Between runs, and while a run has not yet
\* decided, a timestamp younger than the dependency file stands for a whole folder; a
\* run that was not forced only removes a folder whose timestamp is not.
BuildInv ==
  /\ \A k \in Kinds \ present : content[k] = {}
  /\ "index" \notin present => index = {}
  /\ "stamp" \notin present => stamp = 0
  /\ draftTime <= clock /\ stamp <= clock
  /\ pc \in {"idle", "check", "done"} => (Fresh => WholeBuild)
  /\ pc = "remove" => Forced \/ ~Fresh
  /\ pc \in {"recurse", "filter"} => present = {}
  /\ pc = "generate" =>
       /\ todo \subseteq KindsOf /\ Made
       /\ "index" \notin present /\ "stamp" \notin present
  /\ pc = "stamp" => /\ AllMade
                    /\ "index" \in present /\ "stamp" \notin present
  /\ pc \in {"unlink", "conditions"} \/ outcome = "ok" =>
       /\ AllMade
       /\ "index" \in present /\ "stamp" \in present
  /\ outcome = "ok" => pc = "done" /\ generated = CondsOf(lines)
  /\ outcome = "uptodate" => pc = "done" /\ WholeBuild
  /\ opts \in Options \/ pc = "idle"

\* A folder with all that was to be made, its index and its timestamp, is whole.
LEMMA MadeIsWhole ==
  ASSUME present \subseteq BuildFile, AllMade,
         "index" \in present, "stamp" \in present
  PROVE  WholeBuild
BY DEF AllMade, Made, KindsOf, WholeBuild, BuildFile, Kinds

\* What is assumed of the environment: a run with --force or --override is not killed.
OthersKilled == \A op \in Killable : ~op.override

\* What is in the build folder was made as far as the run has come.
LEMMA BuildInvHolds ==
  ASSUME Implemented, OthersKilled
  PROVE  Spec => []BuildInv
<1> USE ConfigureAssumption
<1>1. Init => BuildInv
  BY SMT DEF Init, BuildInv, Fresh
<1>2. TypeOK /\ BuildInv /\ [Next]_vars => BuildInv'
  <2> SUFFICES ASSUME TypeOK, BuildInv, [Next]_vars
               PROVE  BuildInv'
    OBVIOUS
  <2>t. clock \in Nat /\ draftTime \in Nat /\ stamp \in Nat /\ draftTime > 0
        /\ present \subseteq BuildFile
    BY DEF TypeOK, ConfigureAssumption
  <2>w. pc \in {"unlink", "conditions"} => WholeBuild
    BY <2>t, MadeIsWhole DEF BuildInv
  <2>f. (UNCHANGED <<present, content, index, lines, todo>>)
          => KindsOf' = KindsOf /\ Made' = Made /\ AllMade' = AllMade /\ WholeBuild' = WholeBuild
    BY DEF AllMade, Made, KindsOf, WholeBuild, DepsOf
  <2>1. CASE execute
    BY <2>1 DEF BuildInv, execute, project, build, Fresh, WholeBuild
  <2>2. CASE notAProject
    BY <2>2 DEF BuildInv, notAProject, Finish, project, build, Fresh, WholeBuild
  <2>3. CASE upToDate
    BY <2>3 DEF BuildInv, upToDate, UpToDate, Finish, project, build, Fresh, WholeBuild
  <2>4. CASE obsolete
    BY <2>4 DEF BuildInv, obsolete, UpToDate, project, build, Fresh, Forced
  <2>5. CASE removeFile
    BY <2>5, <2>t DEF BuildInv, removeFile, project, run, Fresh, Forced
  <2>6. CASE parse
    BY <2>6 DEF BuildInv, parse, project, build
  <2>7. CASE parseRecurse
    BY <2>7 DEF BuildInv, parseRecurse, Finish, project, build, Fresh
  <2>8. CASE filterConditionDependencies
    BY <2>8 DEF BuildInv, filterConditionDependencies, project, build, Made, KindsOf, DepsOf
  <2>9. CASE generate
    <3>1. PICK k \in todo :
            /\ todo' = todo \ {k} /\ present' = present \union {k}
            /\ content' = [content EXCEPT ![k] = DepsOf(lines, k)]
      BY <2>9 DEF generate
    <3>2. KindsOf' = KindsOf /\ \A j : DepsOf(lines, j)' = DepsOf(lines, j)
      BY <2>9 DEF generate, KindsOf
    <3>3. k \in KindsOf /\ k \in Kinds /\ KindsOf \ todo' = (KindsOf \ todo) \union {k}
      BY <2>9, <3>1 DEF generate, BuildInv, KindsOf
    <3>4. content \in [Kinds -> SUBSET Dep]
      BY DEF TypeOK
    <3>7. present' \intersect Kinds = KindsOf' \ todo'
      BY <2>9, <3>1, <3>2, <3>3 DEF generate, BuildInv, Made
    <3>8. \A j \in Kinds : content'[j] = IF j \in KindsOf' \ todo' THEN DepsOf(lines, j)' ELSE {}
      BY <2>9, <3>1, <3>2, <3>3, <3>4 DEF generate, BuildInv, Made
    <3>5. Made'
      BY <3>7, <3>8 DEF Made
    <3>6. k # "index" /\ k # "stamp"
      BY <3>3 DEF Kinds
    <3> QED
      BY <2>9, <3>1, <3>2, <3>3, <3>4, <3>5, <3>6 DEF BuildInv, generate, project
  <2>10. CASE generateFails
    BY <2>10 DEF BuildInv, generateFails, Finish, project, build, Fresh
  <2>11. CASE generateIndex
    <3>1. "index" \notin Kinds
      BY DEF Kinds
    <3>2. KindsOf' = KindsOf
      BY <2>11 DEF generateIndex, KindsOf, DepsOf
    <3>3. present' \intersect Kinds = present \intersect Kinds /\ index' = KindsOf
      BY <2>11, <3>1 DEF generateIndex, KindsOf
    <3>4. Made'
      BY <2>11, <3>2, <3>3 DEF BuildInv, generateIndex, Made, DepsOf
    <3>5. AllMade'
      BY <2>11, <3>2, <3>3, <3>4 DEF generateIndex, AllMade
    <3> QED
      BY <2>11, <3>5 DEF BuildInv, generateIndex, project
  <2>12. CASE writeTimestamp
    <3>1. "stamp" \notin Kinds
      BY DEF Kinds
    <3>2. KindsOf' = KindsOf /\ present' \intersect Kinds = present \intersect Kinds
      BY <2>12, <3>1 DEF writeTimestamp, KindsOf, DepsOf
    <3>3. AllMade'
      BY <2>12, <3>2 DEF BuildInv, writeTimestamp, AllMade, Made, DepsOf
    <3> QED
      BY <2>12, <3>3, <2>t DEF BuildInv, writeTimestamp, project
  <2>13. CASE removeConditions
    BY <2>13 DEF BuildInv, removeConditions, project, build, AllMade, Made, KindsOf
  <2>14. CASE generateConfigureConditionsFile
    BY <2>14, <2>w, <2>f DEF BuildInv, generateConfigureConditionsFile, Finish, project, build
  <2>15. CASE exit
    BY <2>15 DEF BuildInv, exit, project, build, Fresh, WholeBuild
  <2>16. CASE edit
    BY <2>16, <2>t, <2>f DEF BuildInv, edit, build, run, Fresh
  <2>17. CASE install
    BY <2>17, <2>f DEF BuildInv, install, build, run, Fresh, Forced
  <2>18. CASE tick
    BY <2>18, <2>t, <2>f DEF BuildInv, tick, build, run, Fresh, Forced
  <2>19. CASE kill
    <3>1. ~Forced
      BY <2>19 DEF kill, Forced, OthersKilled, ConfigureAssumption
    <3>4. pc \in {"check", "remove", "recurse", "filter", "generate", "stamp", "unlink", "conditions"}
      BY <2>19 DEF kill, TypeOK
    <3>2. Fresh => WholeBuild
      BY <2>w, <3>1, <3>4 DEF BuildInv, Fresh
    <3>3. Fresh' = Fresh
      BY <2>19 DEF kill, project, build, Fresh
    <3> QED
      BY <2>19, <2>f, <3>2, <3>3 DEF BuildInv, kill, Finish, project, build
  <2>20. CASE UNCHANGED vars
    BY <2>20, <2>f DEF BuildInv, vars, project, build, run, Fresh, Forced
  <2> QED
    BY <2>1, <2>2, <2>3, <2>4, <2>5, <2>6, <2>7, <2>8, <2>9, <2>10, <2>11, <2>12,
       <2>13, <2>14, <2>15, <2>16, <2>17, <2>18, <2>19, <2>20 DEF Next, Step
<1>3. QED
  BY <1>1, <1>2, ConfigureTypeCorrect, PTL DEF Spec

\* "Up to date" is said of a whole build folder: a failure anywhere, or a kill of a run
\* that was not forced, leaves no timestamp younger than the dependency file.
THEOREM SkipsAreWhole ==
  ASSUME Implemented, OthersKilled
  PROVE  Spec => []SkipIsWhole
<1>1. BuildInv => SkipIsWhole
  BY DEF BuildInv, SkipIsWhole
<1>2. QED
  BY <1>1, BuildInvHolds, PTL

\* A configure that returns 0 leaves the build folder of the lines it kept, whatever was
\* there before.
THEOREM SuccessesAreWhole ==
  ASSUME Implemented, OthersKilled
  PROVE  Spec => []SuccessIsWhole
<1>1. TypeOK /\ BuildInv => SuccessIsWhole
  <2> SUFFICES ASSUME TypeOK, BuildInv, outcome = "ok"
               PROVE  SuccessIsWhole
    BY DEF SuccessIsWhole
  <2>1. WholeBuild
    BY MadeIsWhole DEF BuildInv, TypeOK
  <2>2. /\ \A k \in Kinds : content[k] = IF k \in KindsOf THEN DepsOf(lines, k) ELSE {}
        /\ generated = CondsOf(lines)
    BY DEF BuildInv, AllMade, Made
  <2>3. \A l \in lines : KindOf[l.dep] \in Kinds => l.dep \in content[KindOf[l.dep]]
    <3> SUFFICES ASSUME NEW l \in lines, KindOf[l.dep] \in Kinds
                 PROVE  l.dep \in content[KindOf[l.dep]]
      OBVIOUS
    <3>1. l.dep \in DepsOf(lines, KindOf[l.dep])
      BY DEF DepsOf
    <3>2. KindOf[l.dep] \in KindsOf
      BY <3>1 DEF KindsOf
    <3> QED
      BY <2>2, <3>1, <3>2
  <2>4. \A k \in Kinds : content[k] \subseteq {l.dep : l \in lines}
    BY <2>2 DEF DepsOf
  <2> QED
    BY <2>1, <2>2, <2>3, <2>4 DEF SuccessIsWhole
<1>2. QED
  BY <1>1, BuildInvHolds, ConfigureTypeCorrect, PTL

----------------------------------------------------------------------------
(* Recorded conditions *)

\* The map of a run is what the command line and the files said when it started: no
\* file changes while it is read.  A generator that writes none has none to read.
MapInv ==
  /\ pc \in {"check", "remove", "recurse", "filter"} /\ ~opts.override
       => generated \ opts.off \subseteq map.on
  /\ ~Implemented => generated = {}

\* What the user once said yes to stays until --condition or --override says otherwise.
THEOREM RecordedConditionsAreKept == Spec => RecordedConditionsHold
<1> USE ConfigureAssumption
<1>1. Init => MapInv
  BY DEF Init, MapInv
<1>2. TypeOK /\ MapInv /\ [Next]_vars => MapInv'
  <2> SUFFICES ASSUME TypeOK, MapInv, [Next]_vars
               PROVE  MapInv'
    OBVIOUS
  <2> USE DEF MapInv
  <2>1. CASE execute
    BY <2>1 DEF execute, Conditions, Assign, NoMap, ConfigureAssumption
  <2>2. CASE generateConfigureConditionsFile \/ removeConditions \/ exit \/ kill
    BY <2>2 DEF generateConfigureConditionsFile, removeConditions, exit, kill, Finish
  <2>3. CASE \/ notAProject \/ upToDate \/ obsolete \/ removeFile \/ parse \/ parseRecurse
             \/ filterConditionDependencies \/ generate \/ generateFails \/ generateIndex
             \/ writeTimestamp
    <3>1. UNCHANGED <<generated, map, opts>>
      BY <2>3 DEF notAProject, upToDate, obsolete, removeFile, parse, parseRecurse,
                  filterConditionDependencies, generate, generateFails, generateIndex,
                  writeTimestamp, run
    <3>2. pc' \in {"check", "remove", "recurse", "filter"} =>
            pc \in {"check", "remove", "recurse", "filter"}
      BY <2>3 DEF notAProject, upToDate, obsolete, removeFile, parse, parseRecurse,
                  filterConditionDependencies, generate, generateFails, generateIndex,
                  writeTimestamp, run, Finish
    <3> QED
      BY <3>1, <3>2 DEF Implemented
  <2>4. CASE edit \/ install \/ tick \/ UNCHANGED vars
    BY <2>4 DEF edit, install, tick, vars, run, Implemented
  <2> QED
    BY <2>1, <2>2, <2>3, <2>4 DEF Next, Step
<1>3. MapInv /\ [Next]_vars =>
        [pc = "filter" /\ pc' = "generate" /\ ~opts.override =>
           \A l \in lines : l.conds \subseteq generated \ opts.off => l \in lines']_vars
  <2> SUFFICES ASSUME MapInv, Next, pc = "filter", pc' = "generate", ~opts.override,
                      NEW l \in lines, l.conds \subseteq generated \ opts.off
               PROVE  l \in lines'
    BY DEF vars
  <2>1. filterConditionDependencies
    BY DEF Next, Step, execute, notAProject, upToDate, obsolete, removeFile, parse,
           parseRecurse, generate, generateFails, generateIndex, writeTimestamp,
           removeConditions, generateConfigureConditionsFile, exit, edit, install, tick,
           kill, Finish, run
  <2>2. l.conds \subseteq map.on
    BY DEF MapInv
  <2> QED
    BY <2>1, <2>2 DEF filterConditionDependencies
<1>4. QED
  BY <1>1, <1>2, <1>3, ConfigureTypeCorrect, PTL DEF Spec, RecordedConditionsHold
=============================================================================
