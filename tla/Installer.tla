------------------------------ MODULE Installer ------------------------------
(***************************************************************************)
(* What remaken install promises to somebody who sees only which commands  *)
(* run, what they begin to install and return, and which packages are      *)
(* complete: nothing of archives, of the order of their entries, of the    *)
(* cache or of the recursion.  A package that a command installs again is  *)
(* not complete meanwhile, and others that had installed it are disturbed. *)
(***************************************************************************)
CONSTANTS
  Proc,     \* remaken processes
  Package,  \* packages
  Job,      \* what a command may be asked to do
  NoJob,    \* what an idle process does
  Need      \* Need[j]: the packages j must have installed when it succeeds

VARIABLES
  job,       \* job[p]: what p was asked to do
  result,    \* result[p]: "none" until p's command has decided what to return
  installed, \* the packages that are completely installed
  begun,     \* begun[p]: packages p's command began to install
  disturbed  \* disturbed[p]: those of them that another command rewrote since

vars == <<job, result, installed, begun, disturbed>>

Init ==
  /\ job = [p \in Proc |-> NoJob]
  /\ result = [p \in Proc |-> "none"]
  /\ installed = {}
  /\ begun = [p \in Proc |-> {}]
  /\ disturbed = [p \in Proc |-> {}]

Busy(p) == job[p] # NoJob /\ result[p] = "none"

\* A command is started; it may be refused at once.
Start(p) ==
  /\ job[p] = NoJob
  /\ \E j \in Job : job' = [job EXCEPT ![p] = j]
  /\ \E r \in {"none", "failed"} : result' = [result EXCEPT ![p] = r]
  /\ UNCHANGED <<installed, begun, disturbed>>

Begin(p) ==
  /\ Busy(p)
  /\ \E d \in Package : begun' = [begun EXCEPT ![p] = @ \union {d}]
  /\ UNCHANGED <<job, result, installed, disturbed>>

\* A package that p has begun is rewritten, and may not be complete before it is
\* finished.
Rewrite(p) ==
  /\ Busy(p)
  /\ \E d \in begun[p] :
       /\ installed' \in {installed, installed \ {d}}
       /\ disturbed' = [q \in Proc |->
            IF q # p /\ d \in begun[q] THEN disturbed[q] \union {d} ELSE disturbed[q]]
  /\ UNCHANGED <<job, result, begun>>

Finish(p) ==
  /\ Busy(p)
  /\ \E d \in begun[p] : installed' = installed \union {d}
  /\ UNCHANGED <<job, result, begun, disturbed>>

\* Success is decided only while everything needed is installed, unless somebody
\* else rewrote what the command had begun.
Succeed(p) ==
  /\ Busy(p)
  /\ disturbed[p] = {} => Need[job[p]] \subseteq installed
  /\ result' = [result EXCEPT ![p] = "ok"]
  /\ UNCHANGED <<job, installed, begun, disturbed>>

Fail(p) ==
  /\ Busy(p)
  /\ result' = [result EXCEPT ![p] = "failed"]
  /\ UNCHANGED <<job, installed, begun, disturbed>>

\* The process ends, having decided what to return or killed before.
Leave(p) ==
  /\ job[p] # NoJob
  /\ job' = [job EXCEPT ![p] = NoJob]
  /\ result' = [result EXCEPT ![p] = "none"]
  /\ begun' = [begun EXCEPT ![p] = {}]
  /\ disturbed' = [disturbed EXCEPT ![p] = {}]
  /\ UNCHANGED installed

\* Packages that nobody rewrites are removed only while no command installs.
Remove ==
  /\ \A p \in Proc : job[p] = NoJob
  /\ \E d \in installed : installed' = installed \ {d}
  /\ UNCHANGED <<job, result, begun, disturbed>>

Next ==
  \/ Remove
  \/ \E p \in Proc :
       \/ Start(p) \/ Begin(p) \/ Rewrite(p) \/ Finish(p)
       \/ Succeed(p) \/ Fail(p) \/ Leave(p)

Spec == Init /\ [][Next]_vars
==============================================================================
