------------------------------ MODULE Retrieval ------------------------------
(***************************************************************************)
(* From a dependency file to the retrievers of what it lists:              *)
(* DependencyManager::retrieveDependencies and retrieveDependency          *)
(* (src/src/managers/DependencyManager.cpp) compose DepUtils::parse,       *)
(* module DependencyFile, with FileHandlerFactory, module HandlerFactory.  *)
(* What happens to the packages themselves is module Install.              *)
(***************************************************************************)
EXTENDS DependencyFile

CONSTANTS
  Found,         \* the tools that are installed, by type
  ApiKey,        \* an api key is given
  AlternateRepo  \* --alternate-remote-type, NoRepository without

VARIABLES
  handlers, folders, request, answer, thrown,
  asked          \* dependencies of the file that are dealt with

Factory == INSTANCE HandlerFactory
factory == <<handlers, folders, request, answer, thrown>>
all == <<vars, factory, asked>>

ASSUME RetrievalAssumption ==
  /\ Factory!HandlerFactoryAssumption
  /\ AlternateRepo \in {NoRepository, "github", "artifactory", "nexus", "path", "http"}

\* The next step of parse.
parseFile ==
  /\ Next
  /\ UNCHANGED <<factory, asked>>

\* retrieveDependency of the next dependency of the file.
getFileHandler ==
  /\ outcome = "ok" /\ asked < Len(result)
  /\ asked' = asked + 1
  /\ LET d == result[asked + 1] IN Factory!getHandler(d.type, d.repository)
  /\ UNCHANGED vars

\* What it answered could not install the dependency.
getAlternateHandler ==
  /\ outcome = "ok" /\ asked > 0
  /\ AlternateRepo # NoRepository /\ answer # Factory!NoHandler
  /\ request[2] = result[asked].repository
  /\ Factory!getHandler(result[asked].type, AlternateRepo)
  /\ UNCHANGED <<vars, asked>>

over ==
  /\ outcome = "failed" \/ thrown # "none" \/ (outcome = "ok" /\ asked = Len(result))
  /\ UNCHANGED all

RInit == Init /\ Factory!Init /\ asked = 0
RNext == parseFile \/ getFileHandler \/ getAlternateHandler \/ over
RSpec == RInit /\ [][RNext]_all

----------------------------------------------------------------------------
(* Properties *)

\* A dependency gets the retriever of its repository, and one that drives a tool
\* drives the tool of the dependency's type, whatever was asked before.
HandlerFits ==
  answer # Factory!NoHandler =>
    CASE request[2] \in {"github", "http"} -> answer.class = "http"
      [] request[2] \in {"artifactory", "nexus"} -> answer.class = "credentials"
      [] request[2] = "path" -> answer.class = "path"
      [] request[2] = "conan" -> answer.class = "conan"
      [] OTHER -> answer.class = "system" /\ answer.tool = request[1]

\* Whatever was asked for and whichever constructor threw, there are the temporary
\* folders of the retrievers that the map keeps and no other, but for one: the folder of
\* a retriever that did not find the archive tool has no owner.
FoldersOwned ==
  folders = Cardinality(DOMAIN handlers) + (IF thrown = "base" THEN 1 ELSE 0)
=============================================================================
