---------------------------- MODULE HttpRetrieve ----------------------------
(***************************************************************************)
(* How an archive is downloaded: HttpFileRetriever (with curl or with      *)
(* Boost.Beast) and CredentialsFileRetriever (src/src/retrievers/), the    *)
(* connections of AsioWrapper.h and HttpHandlerFactory.                    *)
(*                                                                         *)
(* A download is a sequence of requests that all write to one file: two    *)
(* retries of a source that is not found, then the redirections.  Each     *)
(* step of a connection can fail, and servers answer anything.             *)
(*                                                                         *)
(* Abstractions.  A url is its scheme and what follows "://" as a sequence *)
(* of "x", ":" and "/"; a body is known by the url and status of its       *)
(* answer.                                                                 *)
(***************************************************************************)
EXTENDS Integers, SequencesExt

CONSTANTS
  Sources,    \* urls that dependencies lead to
  Answers,    \* Answers[u]: the answers a server may give for url u
  Beast       \* the build with REMAKEN_USE_BEAST

Scheme == {"http", "https", "other"}
Url == [scheme : Scheme, rest : Seq({"x", ":", "/"})]
Status == {"ok", "moved", "notfound", "error"}

\* What the end iterator of the fields gives, if the program survives it.
Garbage == [scheme |-> "other", rest |-> << >>]

\* The location of an answer is the set of the url it has, if it has one; a short
\* answer breaks off in its body.
NoLocation == {}

ASSUME HttpRetrieveAssumption ==
  /\ Sources \subseteq DOMAIN Answers
  /\ \A u \in DOMAIN Answers : u \in Url
  /\ \A u \in DOMAIN Answers : \A a \in Answers[u] :
       /\ a.status \in Status /\ a.short \in BOOLEAN
       /\ a.location \subseteq Url /\ Cardinality(a.location) <= 1
  /\ Beast \in BOOLEAN

VARIABLES
  pc,       \* "idle", "request", "connect", "answer", "shutdown", "decide", "done"
  retriever,\* "http" or "credentials"
  source,   \* what was asked for
  url,      \* the url of the request
  retries,  \* of a source that is not found
  moved,    \* the loop of redirections has begun
  status, location,
  file,     \* the output file: what answer it holds, and whether the whole of it
  outcome   \* "none", "ok", "failed" or "killed"

vars == <<pc, retriever, source, url, retries, moved, status, location, file, outcome>>
\* HttpFileRetriever calls curl in the build without Beast.
Curl == retriever = "http" /\ ~Beast
NoFile == [of |-> Garbage, status |-> "error", whole |-> FALSE]

----------------------------------------------------------------------------
(* AsioWrapper::parseURL *)

Before(s, i) == SubSeq(s, 1, i - 1)
After(s, i) == SubSeq(s, i + 1, Len(s))
Positions(s, c) == {i \in DOMAIN s : s[i] = c}
FirstOf(s, c) == CHOOSE i \in Positions(s, c) : \A j \in Positions(s, c) : i <= j

DefaultPort(u) == IF u.scheme = "http" THEN <<"80">> ELSE <<"443">>
NotUrl == [host |-> << >>, port |-> << >>, target |-> << >>, valid |-> FALSE]

\* Mutant: the port is never split off.
parseURLWithoutPort(u) ==
  LET s == u.rest
  IN IF Positions(s, "/") = {} THEN NotUrl
     ELSE [host |-> Before(s, FirstOf(s, "/")), port |-> DefaultPort(u),
           target |-> SubSeq(s, FirstOf(s, "/"), Len(s)), valid |-> TRUE]

\* The first regular expression wants a ":" and a "/" behind it; the ":" may lie
\* behind other slashes.
parseURL(u) ==
  LET s == u.rest
      colon == FirstOf(s, ":")
      behind == After(s, colon)
  IN IF Positions(s, ":") # {} /\ Positions(After(s, FirstOf(s, ":")), "/") # {}
     THEN [host |-> Before(s, colon),
           port |-> Before(behind, FirstOf(behind, "/")),
           target |-> SubSeq(behind, FirstOf(behind, "/"), Len(behind)), valid |-> TRUE]
     ELSE IF Positions(s, "/") = {} THEN NotUrl
     ELSE [host |-> Before(s, FirstOf(s, "/")), port |-> DefaultPort(u),
           target |-> SubSeq(s, FirstOf(s, "/"), Len(s)), valid |-> TRUE]

----------------------------------------------------------------------------

End(result) == pc' = "done" /\ outcome' = result

\* retrieveArtefact begins: a new file name, no file yet.
retrieveArtefact ==
  /\ pc = "idle"
  /\ \E u \in Sources : source' = u /\ url' = u
  /\ retriever' \in {"http", "credentials"}
  /\ pc' = IF Curl' THEN "connect" ELSE "request"
  /\ retries' = 0 /\ moved' = FALSE
  /\ status' = "error" /\ location' = Garbage /\ file' = NoFile /\ outcome' = "none"

\* downloadArtefact without Beast: curl -L -f follows redirections and fails on
\* anything but a whole answer, which counts as not found; or there is no curl.
curl ==
  /\ pc = "connect" /\ Curl
  /\ \/ End("failed") /\ UNCHANGED file
     \/ /\ End("failed") /\ file' = [of |-> url, status |-> "ok", whole |-> FALSE]
     \/ /\ End("ok") /\ file' = [of |-> url, status |-> "ok", whole |-> TRUE]
  /\ UNCHANGED <<retriever, source, url, retries, moved, status, location>>

\* getHttpHandler and parseURL.
getHttpHandler ==
  /\ pc = "request"
  /\ IF url.scheme \in {"http", "https"} /\ parseURL(url).valid
     THEN pc' = "connect" /\ UNCHANGED outcome
     ELSE End("failed")
  /\ UNCHANGED <<retriever, source, url, retries, moved, status, location, file>>

\* Name lookup, connection, handshake and the request, with the file then opened.
connect ==
  /\ pc = "connect" /\ ~Curl
  /\ \/ End("failed") /\ UNCHANGED file
     \/ pc' = "answer" /\ file' = NoFile /\ UNCHANGED outcome
  /\ UNCHANGED <<retriever, source, url, retries, moved, status, location>>

\* The answer; what breaks off in the body is an error of read.
read ==
  /\ pc = "answer"
  /\ url \in DOMAIN Answers
  /\ \E a \in Answers[url] :
       IF a.short
       THEN /\ End("failed") /\ file' = [of |-> url, status |-> a.status, whole |-> FALSE]
            /\ UNCHANGED <<status, location>>
       ELSE /\ file' = [of |-> url, status |-> a.status, whole |-> TRUE]
            /\ status' = a.status
            /\ IF a.location = NoLocation
               THEN /\ location' = Garbage
                    /\ End("killed") \/ (pc' = "shutdown" /\ UNCHANGED outcome)
               ELSE location' \in a.location /\ pc' = "shutdown" /\ UNCHANGED outcome
  /\ UNCHANGED <<retriever, source, url, retries, moved>>

shutdown ==
  /\ pc = "shutdown"
  /\ \/ End("failed")
     \/ pc' = "decide" /\ UNCHANGED outcome
  /\ UNCHANGED <<retriever, source, url, retries, moved, status, location, file>>

\* Mutant: the answer is kept whatever its status.
acceptAny ==
  /\ pc = "decide" /\ status # "moved"
  /\ End("ok")
  /\ UNCHANGED <<retriever, source, url, retries, moved, status, location, file>>

\* Neither moved nor to be tried again: an answer that is not ok is an error.
accept ==
  /\ pc = "decide" /\ status # "moved"
  /\ status = "notfound" => moved \/ retries = 2
  /\ End(IF status = "ok" THEN "ok" ELSE "failed")
  /\ UNCHANGED <<retriever, source, url, retries, moved, status, location, file>>

\* The source with a prefix is computed, but the source itself is asked for again.
retry ==
  /\ pc = "decide" /\ status = "notfound" /\ ~moved /\ retries < 2
  /\ pc' = "request" /\ retries' = retries + 1
  /\ UNCHANGED <<retriever, source, url, moved, status, location, file, outcome>>

\* Mutant: the url of the request is not replaced.
redirectToItself ==
  /\ pc = "decide" /\ status = "moved"
  /\ pc' = "request" /\ moved' = TRUE
  /\ UNCHANGED <<retriever, source, url, retries, status, location, file, outcome>>

redirect ==
  /\ pc = "decide" /\ status = "moved"
  /\ pc' = "request" /\ url' = location /\ moved' = TRUE
  /\ UNCHANGED <<retriever, source, retries, status, location, file, outcome>>

\* The next download starts afresh.
done ==
  /\ pc = "done"
  /\ pc' = "idle" /\ retriever' = "http" /\ source' = Garbage /\ url' = Garbage
  /\ retries' = 0 /\ moved' = FALSE /\ status' = "error" /\ location' = Garbage
  /\ file' = NoFile /\ outcome' = "none"

Step ==
  curl \/ getHttpHandler \/ connect \/ read \/ shutdown \/ accept \/ retry \/ redirect \/ done

Init ==
  /\ pc = "idle" /\ retriever = "http" /\ source = Garbage /\ url = Garbage
  /\ retries = 0 /\ moved = FALSE /\ status = "error" /\ location = Garbage
  /\ file = NoFile /\ outcome = "none"
Next == retrieveArtefact \/ Step
Spec == Init /\ [][Next]_vars
FairSpec == Spec /\ WF_vars(Step)

----------------------------------------------------------------------------
(* Properties *)

\* Every variable stays in its domain.
TypeOK ==
  /\ pc \in {"idle", "request", "connect", "answer", "shutdown", "decide", "done"}
  /\ retriever \in {"http", "credentials"}
  /\ url \in Url /\ source \in Sources \union {Garbage} /\ location \in Url
  /\ retries \in 0..2 /\ moved \in BOOLEAN
  /\ status \in Status /\ outcome \in {"none", "ok", "failed", "killed"}
  /\ file \in [of : Url, status : Status, whole : BOOLEAN]

\* The file that retrieveArtefact returns is the whole body of a successful answer
\* to its last request, never what an earlier request or an error left in it.
ArtefactIsAnswer ==
  outcome = "ok" => file.whole /\ file.status = "ok" /\ file.of = url

\* Without a circle of redirections every download ends.
DownloadEnds == pc # "idle" ~> pc = "idle"

\* A url whose path holds no ":" is split into its host, port and path.
UrlSplit ==
  LET s == url.rest
      slash == FirstOf(s, "/")
      authority == Before(s, slash)
  IN pc = "connect" /\ ~Curl /\ Positions(SubSeq(s, slash, Len(s)), ":") = {} =>
       /\ parseURL(url).target = SubSeq(s, slash, Len(s))
       /\ parseURL(url).host = IF Positions(authority, ":") = {} THEN authority
                               ELSE Before(authority, FirstOf(authority, ":"))
       /\ parseURL(url).port = IF Positions(authority, ":") = {} THEN DefaultPort(url)
                               ELSE After(authority, FirstOf(authority, ":"))
=============================================================================
