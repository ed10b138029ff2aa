--------------------------- MODULE ConfigureProps ---------------------------
(***************************************************************************)
(* What configure guarantees: properties of module Configure.              *)
(***************************************************************************)
EXTENDS Configure

\* Every variable stays in its domain.
TypeOK ==
  /\ clock \in 1..MaxTime
  /\ draft \in Drafts /\ source \in Drafts /\ missed \in BOOLEAN
  /\ draftTime \in 1..MaxTime
  /\ installed \subseteq Dep
  /\ present \subseteq BuildFile
  /\ content \in [Kinds -> SUBSET Dep]
  /\ index \subseteq Kinds
  /\ stamp \in 0..MaxTime
  /\ generated \subseteq Cond
  /\ pc \in {"idle", "check", "remove", "recurse", "filter", "generate", "stamp",
             "unlink", "conditions", "done"}
  /\ opts \in OptionRecord
  /\ map \in [on : SUBSET Cond, off : SUBSET Cond]
  /\ lines \subseteq Line
  /\ todo \subseteq Kinds
  /\ outcome \in {"none", "ok", "uptodate", "failed", "killed"}

\* The build folder is what a complete run leaves: the index and exactly the
\* files it includes, each made for some dependency.
WholeBuild ==
  /\ present = {"index", "stamp"} \union index
  /\ \A k \in Kinds : k \in index <=> content[k] # {}

\* When configure says that the build options are up to date, the build folder
\* is whole: a run that failed at any point, or was killed anywhere unless it was
\* forced, is noticed.
SkipIsWhole == outcome = "uptodate" => WholeBuild

\* ... and it was made from the packagedependencies.txt of this moment: no edit made
\* before a run reads the file or after it has written its timestamp is lost, not even
\* one in the second of the timestamp.  An edit between the two, which is older than
\* the timestamp, is lost until the next one: nothing in the code notices it.
SkipIsCurrent ==
  [][outcome' = "uptodate" /\ outcome # "uptodate" => source = draft \/ missed]_vars

\* A configure that returns 0 leaves the files of all the lines it kept and
\* their conditions, whatever was in the build folder before.
SuccessIsWhole ==
  outcome = "ok" =>
    /\ WholeBuild
    /\ \A l \in lines : KindOf[l.dep] \in Kinds => l.dep \in content[KindOf[l.dep]]
    /\ \A k \in Kinds : content[k] \subseteq {l.dep : l \in lines}
    /\ generated = CondsOf(lines)

\* What the user once said yes to stays: a line all of whose conditions are in
\* the generated file when configure starts is kept, unless --condition says
\* otherwise or --override forgets the file.
RecordedConditionsHold ==
  [][pc = "filter" /\ pc' = "generate" /\ ~opts.override =>
       \A l \in lines : l.conds \subseteq generated \ opts.off => l \in lines']_vars

=============================================================================
