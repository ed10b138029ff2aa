--------------------------- MODULE HandlerFactory ---------------------------
(***************************************************************************)
(* FileHandlerFactory (src/src/FileHandlerFactory.cpp): the retrievers a   *)
(* process makes, one per repository and kept in a map, each with a        *)
(* temporary folder (AbstractFileRetriever's constructor, which finds the  *)
(* archive tool after it has made the folder), and                         *)
(* SystemTools::createTool for those that drive a tool.                    *)
(*                                                                         *)
(* The requests come from the dependencies of a run, in any order; the     *)
(* answer must not depend on the order.                                    *)
(***************************************************************************)
EXTENDS Integers

CONSTANTS
  Found,       \* the tools that are installed, by type
  ApiKey       \* an api key is given

Type == {"REMAKEN", "CONAN", "VCPKG", "BREW", "SCOOP", "SYSTEM"}
Repository == {"artifactory", "github", "nexus", "path", "vcpkg", "conan", "system", "http"}
Key == Repository \union {"brew", "scoop", "remaken"}
NoTool == "-"
Handler == [class : {"http", "credentials", "path", "conan", "system"}, tool : Type \union {NoTool}]
NoHandler == [class |-> "none", tool |-> NoTool]

HandlerFactoryAssumption ==
  /\ Found \subseteq Type \ {"REMAKEN"}
  /\ ApiKey \in BOOLEAN

VARIABLES
  handlers,   \* the map m_handlers
  folders,    \* temporary folders there are; nothing deletes the factory, and they stay
  request,    \* what was asked last
  answer,     \* ... and the answer, NoHandler for an exception
  thrown      \* "none", or the constructor that threw: "base" or "derived"

vars == <<handlers, folders, request, answer, thrown>>

\* to_string
KeyOfType(t) ==
  CASE t = "REMAKEN" -> "remaken" [] t = "CONAN" -> "conan" [] t = "VCPKG" -> "vcpkg"
    [] t = "BREW" -> "brew" [] t = "SCOOP" -> "scoop" [] t = "SYSTEM" -> "system"

\* Mutant: all tools of the system share one handler.
FinalRepoShared(t, r) == r

\* A system repository stands for the tool of the type.
FinalRepo(t, r) == IF r = "system" THEN KeyOfType(t) ELSE r

\* The constructor of SystemFileRetriever.
ToolHandler(t) == IF t \in Found THEN [class |-> "system", tool |-> t] ELSE NoHandler

\* The retriever made for a repository, NoHandler if its constructor throws.
Made(t, r) ==
  LET repo == FinalRepo(t, r)
  IN CASE repo \in {"github", "http"} -> [class |-> "http", tool |-> NoTool]
       [] repo \in {"artifactory", "nexus"} ->
            IF ApiKey THEN [class |-> "credentials", tool |-> NoTool] ELSE NoHandler
       [] repo = "path" -> [class |-> "path", tool |-> NoTool]
       [] repo = "conan" /\ r # "system" ->
            IF "CONAN" \in Found THEN [class |-> "conan", tool |-> "CONAN"] ELSE NoHandler
       [] OTHER -> IF repo = "vcpkg" \/ r = "system" THEN ToolHandler(t) ELSE NoHandler

\* The map with one more retriever.
With(key, h) == [k \in DOMAIN handlers \union {key} |-> IF k = key THEN h ELSE handlers[k]]

\* The archive tool is not found by the constructor of AbstractFileRetriever, which has
\* made the folder: no destructor runs for a base whose own constructor throws.
createZipToolFails ==
  /\ answer' = NoHandler /\ thrown' = "base"
  /\ folders' = folders + 1
  /\ UNCHANGED handlers

\* Mutant: the folder stays when any constructor throws.
constructorFailsLeaking ==
  /\ answer' = NoHandler /\ thrown' = "derived"
  /\ folders' = folders + 1
  /\ UNCHANGED handlers

\* The constructor of a derived class throws: ~AbstractFileRetriever releases the folder.
constructorFails ==
  /\ answer' = NoHandler /\ thrown' = "derived"
  /\ UNCHANGED <<handlers, folders>>

\* getHandler, under the lock; an exception ends the command.
getHandler(t, r) ==
  LET key == FinalRepo(t, r)
      made == Made(t, r)
  IN /\ thrown = "none"
     /\ request' = <<t, r>>
     /\ \/ /\ key \in DOMAIN handlers
           /\ answer' = handlers[key]
           /\ UNCHANGED <<handlers, folders, thrown>>
        \/ key \notin DOMAIN handlers /\ createZipToolFails
        \/ key \notin DOMAIN handlers /\ made = NoHandler /\ constructorFails
        \/ /\ key \notin DOMAIN handlers /\ made # NoHandler
           /\ answer' = made
           /\ handlers' = With(key, made)
           /\ folders' = folders + 1
           /\ UNCHANGED thrown

Init ==
  /\ handlers = << >> /\ folders = 0
  /\ request = <<"REMAKEN", "http">> /\ answer = NoHandler
  /\ thrown = "none"
\* validate refuses a system repository with the identifier conan or vcpkg.
Next ==
  \E t \in Type, r \in Repository :
    /\ r = "system" => t \notin {"CONAN", "VCPKG"}
    /\ getHandler(t, r)
Spec == Init /\ [][Next]_vars

----------------------------------------------------------------------------
(* Properties *)

\* Every variable stays in its domain.
TypeOK ==
  /\ DOMAIN handlers \subseteq Key
  /\ \A k \in DOMAIN handlers : handlers[k] \in Handler
  /\ folders \in Nat
  /\ request \in Type \X Repository /\ answer \in Handler \union {NoHandler}
  /\ thrown \in {"none", "base", "derived"}
=============================================================================
