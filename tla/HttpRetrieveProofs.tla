------------------------- MODULE HttpRetrieveProofs -------------------------
(***************************************************************************)
(* Proofs about HttpRetrieve, for all urls and whatever the servers        *)
(* answer.                                                                 *)
(***************************************************************************)
EXTENDS HttpRetrieve, TLAPS, SequenceTheorems, WellFoundedInduction

FileRecord == [of : Url, status : Status, whole : BOOLEAN]

\* The records and urls that steps write are of their types.
LEMMA Urls ==
  /\ Garbage \in Url /\ Sources \subseteq Url
  /\ \A u \in Url, s \in Status :
       /\ [of |-> u, status |-> s, whole |-> TRUE] \in FileRecord
       /\ [of |-> u, status |-> s, whole |-> FALSE] \in FileRecord
  /\ \A u \in DOMAIN Answers : \A a \in Answers[u] : a.status \in Status /\ a.location \subseteq Url
  /\ NoFile \in FileRecord
<1>1. Garbage \in Url
  BY DEF Garbage, Url, Scheme
<1> QED
  BY <1>1, HttpRetrieveAssumption DEF NoFile, Status, FileRecord

\* Every variable of HttpRetrieve stays in its domain.
THEOREM HttpTypeCorrect == Spec => []TypeOK
<1> USE Urls
<1>1. Init => TypeOK
  <2>1. Init => moved \in BOOLEAN
    BY DEF Init
  <2>2. Init => retries \in 0..2
    BY DEF Init
  <2>3. Init => file \in FileRecord
    BY DEF Init, FileRecord
  <2> QED
    BY <2>1, <2>2, <2>3 DEF Init, TypeOK, Status, FileRecord
<1>2. TypeOK /\ [Next]_vars => TypeOK'
  <2> SUFFICES ASSUME TypeOK, [Next]_vars PROVE TypeOK'
    OBVIOUS
  <2> USE DEF TypeOK, End
  <2>f. file \in FileRecord /\ "ok" \in Status
    BY DEF FileRecord, Status
  <2>1. CASE retrieveArtefact
    <3>1. /\ pc' \in {"idle", "request", "connect", "answer", "shutdown", "decide", "done"}
          /\ retriever' \in {"http", "credentials"}
          /\ url' \in Url /\ source' \in Sources \union {Garbage} /\ location' \in Url
          /\ retries' \in 0..2
          /\ status' \in Status /\ outcome' \in {"none", "ok", "failed", "killed"}
      BY <2>1 DEF retrieveArtefact, Status
    <3>2. moved' \in BOOLEAN
      BY <2>1 DEF retrieveArtefact
    <3>3. file' \in FileRecord
      BY <2>1 DEF retrieveArtefact, FileRecord, Status
    <3> QED
      BY <3>1, <3>2, <3>3 DEF FileRecord
  <2>2. CASE curl
    <3>1. /\ pc' \in {"idle", "request", "connect", "answer", "shutdown", "decide", "done"}
          /\ retriever' \in {"http", "credentials"}
          /\ url' \in Url /\ source' \in Sources \union {Garbage} /\ location' \in Url
          /\ retries' \in 0..2
          /\ status' \in Status /\ outcome' \in {"none", "ok", "failed", "killed"}
      BY <2>2 DEF curl, Status
    <3>2. moved' \in BOOLEAN
      BY <2>2 DEF curl
    <3>3. file' \in FileRecord
      BY <2>2, <2>f DEF curl
    <3> QED
      BY <3>1, <3>2, <3>3 DEF FileRecord
  <2>3. CASE getHttpHandler
    BY <2>3 DEF getHttpHandler
  <2>4. CASE connect
    <3>1. file' \in FileRecord
      BY <2>4, <2>f DEF connect
    <3> QED
      BY <2>4, <3>1 DEF connect, FileRecord
  <2>5. CASE read
    <3>1. /\ pc' \in {"idle", "request", "connect", "answer", "shutdown", "decide", "done"}
          /\ retriever' \in {"http", "credentials"}
          /\ url' \in Url /\ source' \in Sources \union {Garbage} /\ location' \in Url
          /\ retries' \in 0..2
          /\ status' \in Status /\ outcome' \in {"none", "ok", "failed", "killed"}
      BY <2>5 DEF read, Status
    <3>2. moved' \in BOOLEAN
      BY <2>5 DEF read
    <3>3. file' \in FileRecord
      BY <2>5, <2>f DEF read
    <3> QED
      BY <3>1, <3>2, <3>3 DEF FileRecord
  <2>6. CASE shutdown
    BY <2>6 DEF shutdown
  <2>7. CASE accept
    BY <2>7 DEF accept
  <2>8. CASE retry
    BY <2>8 DEF retry
  <2>9. CASE redirect
    BY <2>9 DEF redirect
  <2>10. CASE done
    <3>1. /\ pc' \in {"idle", "request", "connect", "answer", "shutdown", "decide", "done"}
          /\ retriever' \in {"http", "credentials"}
          /\ url' \in Url /\ source' \in Sources \union {Garbage} /\ location' \in Url
          /\ retries' \in 0..2
          /\ status' \in Status /\ outcome' \in {"none", "ok", "failed", "killed"}
      BY <2>10 DEF done, Status
    <3>2. moved' \in BOOLEAN
      BY <2>10 DEF done
    <3>3. file' \in FileRecord
      BY <2>10 DEF done, FileRecord, Status
    <3> QED
      BY <3>1, <3>2, <3>3 DEF FileRecord
  <2>11. CASE UNCHANGED vars
    BY <2>11 DEF vars
  <2> QED
    BY <2>1, <2>2, <2>3, <2>4, <2>5, <2>6, <2>7, <2>8, <2>9, <2>10, <2>11 DEF Next, Step
<1> QED
  BY <1>1, <1>2, PTL DEF Spec

----------------------------------------------------------------------------
(* The artefact *)

\* From the end of an answer to the decision on it, the file and the status are those
\* of this answer to this url, and the url has been taken apart.
AnswerInv ==
  /\ outcome # "none" => pc = "done"
  /\ pc \in {"shutdown", "decide"} => file = [of |-> url, status |-> status, whole |-> TRUE]
  /\ outcome = "ok" => file = [of |-> url, status |-> "ok", whole |-> TRUE]
  /\ pc \in {"connect", "answer"} /\ ~Curl =>
       url.scheme \in {"http", "https"} /\ parseURL(url).valid

\* For all servers, and however many retries and redirections there are, what is
\* returned as the artefact is the whole of a successful answer of the last server asked:
\* never what an earlier request left in the file.
LEMMA AnswerInvHolds == Spec => []AnswerInv
<1>1. Init => AnswerInv
  BY DEF Init, AnswerInv
<1>2. AnswerInv /\ [Next]_vars => AnswerInv'
  <2> SUFFICES ASSUME AnswerInv, [Next]_vars PROVE AnswerInv'
    OBVIOUS
  <2> USE DEF AnswerInv, End, Curl
  <2>1. CASE retrieveArtefact
    BY <2>1 DEF retrieveArtefact
  <2>2. CASE curl
    BY <2>2 DEF curl
  <2>3. CASE getHttpHandler
    BY <2>3 DEF getHttpHandler
  <2>4. CASE connect
    BY <2>4 DEF connect
  <2>5. CASE read
    BY <2>5 DEF read
  <2>6. CASE shutdown
    BY <2>6 DEF shutdown
  <2>7. CASE accept
    BY <2>7 DEF accept
  <2>8. CASE retry
    BY <2>8 DEF retry
  <2>9. CASE redirect
    BY <2>9 DEF redirect
  <2>10. CASE done
    BY <2>10 DEF done
  <2>11. CASE UNCHANGED vars
    BY <2>11 DEF vars
  <2> QED
    BY <2>1, <2>2, <2>3, <2>4, <2>5, <2>6, <2>7, <2>8, <2>9, <2>10, <2>11 DEF Next, Step
<1> QED
  BY <1>1, <1>2, PTL DEF Spec

\* What retrieveArtefact returns is the whole answer to its last request: no redirection
\* page, no part that a failed transfer left, in either build.
THEOREM ArtefactsAreAnswers == Spec => []ArtefactIsAnswer
<1>1. AnswerInv => ArtefactIsAnswer
  BY DEF AnswerInv, ArtefactIsAnswer
<1> QED
  BY <1>1, AnswerInvHolds, PTL

----------------------------------------------------------------------------
(* Urls *)

\* The first place of a character.
LEMMA FirstOfIsFirst ==
  ASSUME NEW S, NEW s \in Seq(S), NEW c, Positions(s, c) # {}
  PROVE  /\ FirstOf(s, c) \in Positions(s, c)
         /\ \A j \in Positions(s, c) : FirstOf(s, c) <= j
<1> DEFINE less == {ss \in Nat \X Nat : ss[1] < ss[2]}
<1>1. IsWellFoundedOn(less, Nat)
  BY NatLessThanWellFounded DEF OpToRel
<1>2. Positions(s, c) \subseteq Nat
  BY DEF Positions
<1> HIDE DEF less
<1>3. \E i \in Positions(s, c) : \A j \in Positions(s, c) : <<j, i>> \notin less
  BY <1>1, <1>2, WFMin
<1>4. \E i \in Positions(s, c) : \A j \in Positions(s, c) : i <= j
  <2>1. PICK i \in Positions(s, c) : \A j \in Positions(s, c) : <<j, i>> \notin less
    BY <1>3
  <2>2. \A j \in Positions(s, c) : i <= j
    <3> SUFFICES ASSUME NEW j \in Positions(s, c) PROVE i <= j
      OBVIOUS
    <3>1. i \in Nat /\ j \in Nat /\ <<j, i>> \notin less
      BY <2>1, <1>2
    <3>2. ~(j < i)
      BY <3>1 DEF less
    <3> QED
      BY <3>1, <3>2
  <2> QED
    BY <2>2
<1> QED
  BY <1>4 DEF FirstOf

\* A least place is the first one.
LEMMA FirstOfIs ==
  ASSUME NEW S, NEW s \in Seq(S), NEW c, NEW i \in Positions(s, c),
         \A j \in Positions(s, c) : i <= j
  PROVE  FirstOf(s, c) = i
<1>1. /\ FirstOf(s, c) \in Positions(s, c)
      /\ \A j \in Positions(s, c) : FirstOf(s, c) <= j
  BY FirstOfIsFirst
<1>2. Positions(s, c) \subseteq Nat
  BY DEF Positions
<1>3. FirstOf(s, c) <= i /\ i <= FirstOf(s, c)
  BY <1>1
<1> QED
  BY <1>1, <1>2, <1>3


\* Length and elements of a part of a sequence.
LEMMA SubSeqElements ==
  ASSUME NEW S, NEW s \in Seq(S), NEW m \in Nat \ {0}, NEW n \in 0..Len(s)
  PROVE  /\ SubSeq(s, m, n) \in Seq(S)
         /\ Len(SubSeq(s, m, n)) = IF m <= n THEN n - m + 1 ELSE 0
         /\ \A i \in 1..(n - m + 1) : SubSeq(s, m, n)[i] = s[m + i - 1]
<1>1. \A i \in m..n : s[i] \in S
  OBVIOUS
<1> QED
  BY <1>1, SubSeqProperties

\* Where a character is in a part of a sequence.
LEMMA PositionsOfSubSeq ==
  ASSUME NEW S, NEW s \in Seq(S), NEW c, NEW m \in Nat \ {0}, NEW n \in 0..Len(s), m <= n + 1
  PROVE  Positions(SubSeq(s, m, n), c) = {i \in 1..(n - m + 1) : s[m + i - 1] = c}
<1>1. /\ Len(SubSeq(s, m, n)) = n - m + 1 /\ SubSeq(s, m, n) \in Seq(S)
      /\ \A i \in 1..(n - m + 1) : SubSeq(s, m, n)[i] = s[m + i - 1]
  BY SubSeqElements
<1>2. DOMAIN SubSeq(s, m, n) = 1..(n - m + 1)
  BY <1>1
<1> QED
  BY <1>1, <1>2 DEF Positions

\* A part of a part.
LEMMA SubSeqTwice ==
  ASSUME NEW S, NEW s \in Seq(S), NEW i \in Nat \ {0}, NEW j \in 0..Len(s), i <= j + 1,
         NEW m \in Nat \ {0}, NEW n \in 0..(j - i + 1), m <= n + 1
  PROVE  SubSeq(SubSeq(s, i, j), m, n) = SubSeq(s, i + m - 1, i + n - 1)
<1> DEFINE t == SubSeq(s, i, j)
           left == SubSeq(t, m, n)
           right == SubSeq(s, i + m - 1, i + n - 1)
           k == n - m + 1
<1>1. /\ t \in Seq(S) /\ Len(t) = j - i + 1
      /\ \A x \in 1..(j - i + 1) : t[x] = s[i + x - 1]
  BY SubSeqElements
<1>2. /\ i + m - 1 \in Nat \ {0} /\ i + n - 1 \in 0..Len(s)
      /\ (i + n - 1) - (i + m - 1) + 1 = k /\ k \in Nat
      /\ (i + m - 1 <= i + n - 1) <=> (m <= n)
  OBVIOUS
<1> HIDE DEF t
<1>3. /\ left \in Seq(S) /\ Len(left) = IF m <= n THEN n - m + 1 ELSE 0
      /\ \A x \in 1..(n - m + 1) : left[x] = t[m + x - 1]
  BY <1>1, SubSeqElements
<1>4. /\ right \in Seq(S)
      /\ Len(right) = IF i + m - 1 <= i + n - 1 THEN (i + n - 1) - (i + m - 1) + 1 ELSE 0
      /\ \A x \in 1..((i + n - 1) - (i + m - 1) + 1) : right[x] = s[(i + m - 1) + x - 1]
  BY <1>2, SubSeqElements
<1> HIDE DEF left, right
<1>5. Len(left) = k /\ Len(right) = k
  BY <1>2, <1>3, <1>4
<1>6. ASSUME NEW x \in 1..k PROVE left[x] = right[x]
  <2>1. m + x - 1 \in 1..(j - i + 1) /\ i + (m + x - 1) - 1 = (i + m - 1) + x - 1
    BY <1>6
  <2>2. left[x] = t[m + x - 1] /\ right[x] = s[(i + m - 1) + x - 1]
    BY <1>6, <1>2, <1>3, <1>4
  <2> QED
    BY <2>1, <2>2, <1>1
<1> QED
  BY <1>3, <1>4, <1>5, <1>6, SeqEqual DEF left, right, t

\* A url with a port: the parts that the first regular expression takes are those of
\* the authority and what is behind it.
LEMMA SplitAtPort ==
  ASSUME NEW S, NEW s \in Seq(S), NEW n \in Nat, n = Len(s), NEW colon \in Nat, NEW slash \in Nat,
         1 <= colon, colon < slash, slash <= n, s[colon] = ":", s[slash] = "/",
         \A j \in 1..n : s[j] = ":" => colon <= j,
         \A j \in 1..n : s[j] = "/" => slash <= j
  PROVE  /\ FirstOf(SubSeq(s, 1, slash - 1), ":") = colon
         /\ Positions(SubSeq(s, 1, slash - 1), ":") # {}
         /\ FirstOf(SubSeq(s, colon + 1, n), "/") = slash - colon
         /\ Len(SubSeq(s, colon + 1, n)) = n - colon
         /\ Len(SubSeq(s, 1, slash - 1)) = slash - 1
         /\ SubSeq(s, 1, colon - 1) = SubSeq(SubSeq(s, 1, slash - 1), 1, colon - 1)
         /\ SubSeq(SubSeq(s, colon + 1, n), 1, (slash - colon) - 1)
              = SubSeq(SubSeq(s, 1, slash - 1), colon + 1, slash - 1)
         /\ SubSeq(SubSeq(s, colon + 1, n), slash - colon, n - colon) = SubSeq(s, slash, n)
<1>1. /\ SubSeq(s, 1, slash - 1) \in Seq(S) /\ SubSeq(s, colon + 1, n) \in Seq(S)
      /\ Len(SubSeq(s, 1, slash - 1)) = slash - 1 /\ Len(SubSeq(s, colon + 1, n)) = n - colon
  BY SubSeqElements
<1>2. FirstOf(SubSeq(s, 1, slash - 1), ":") = colon /\ Positions(SubSeq(s, 1, slash - 1), ":") # {}
  <2>1. Positions(SubSeq(s, 1, slash - 1), ":") = {j \in 1..((slash - 1) - 1 + 1) : s[1 + j - 1] = ":"}
    BY PositionsOfSubSeq
  <2>2. colon \in Positions(SubSeq(s, 1, slash - 1), ":")
    BY <2>1
  <2>3. \A j \in Positions(SubSeq(s, 1, slash - 1), ":") : colon <= j
    <3> SUFFICES ASSUME NEW j \in 1..((slash - 1) - 1 + 1), s[1 + j - 1] = ":" PROVE colon <= j
      BY <2>1
    <3>1. j \in 1..n /\ 1 + j - 1 = j
      OBVIOUS
    <3> QED
      BY <3>1
  <2> QED
    BY <1>1, <2>2, <2>3, FirstOfIs
<1>3. FirstOf(SubSeq(s, colon + 1, n), "/") = slash - colon
  <2>1. Positions(SubSeq(s, colon + 1, n), "/") =
          {j \in 1..(n - (colon + 1) + 1) : s[(colon + 1) + j - 1] = "/"}
    BY PositionsOfSubSeq
  <2>2. slash - colon \in Positions(SubSeq(s, colon + 1, n), "/")
    <3>1. slash - colon \in 1..(n - (colon + 1) + 1) /\ (colon + 1) + (slash - colon) - 1 = slash
      OBVIOUS
    <3> QED
      BY <2>1, <3>1
  <2>3. \A j \in Positions(SubSeq(s, colon + 1, n), "/") : slash - colon <= j
    <3> SUFFICES ASSUME NEW j \in 1..(n - (colon + 1) + 1), s[(colon + 1) + j - 1] = "/"
                 PROVE  slash - colon <= j
      BY <2>1
    <3>1. (colon + 1) + j - 1 \in 1..n
      OBVIOUS
    <3>2. slash <= (colon + 1) + j - 1
      BY <3>1
    <3> QED
      BY <3>2
  <2> QED
    BY <1>1, <2>2, <2>3, FirstOfIs
<1>4. SubSeq(SubSeq(s, 1, slash - 1), 1, colon - 1) = SubSeq(s, 1 + 1 - 1, 1 + (colon - 1) - 1)
  BY SubSeqTwice
<1>5. SubSeq(SubSeq(s, colon + 1, n), 1, (slash - colon) - 1)
        = SubSeq(s, (colon + 1) + 1 - 1, (colon + 1) + ((slash - colon) - 1) - 1)
  BY SubSeqTwice
<1>6. SubSeq(SubSeq(s, 1, slash - 1), colon + 1, slash - 1)
        = SubSeq(s, 1 + (colon + 1) - 1, 1 + (slash - 1) - 1)
  BY SubSeqTwice
<1>7. SubSeq(SubSeq(s, colon + 1, n), slash - colon, n - colon)
        = SubSeq(s, (colon + 1) + (slash - colon) - 1, (colon + 1) + (n - colon) - 1)
  BY SubSeqTwice
<1>8. /\ 1 + 1 - 1 = 1 /\ 1 + (colon - 1) - 1 = colon - 1
      /\ (colon + 1) + 1 - 1 = 1 + (colon + 1) - 1
      /\ (colon + 1) + ((slash - colon) - 1) - 1 = 1 + (slash - 1) - 1
      /\ (colon + 1) + (slash - colon) - 1 = slash /\ (colon + 1) + (n - colon) - 1 = n
  OBVIOUS
<1> QED
  BY <1>1, <1>2, <1>3, <1>4, <1>5, <1>6, <1>7, <1>8

\* The parts of a url that parseURL looks for.
Slash(s) == FirstOf(s, "/")
Colon(s) == FirstOf(s, ":")
Behind(s) == SubSeq(s, Colon(s) + 1, Len(s))
Authority(s) == SubSeq(s, 1, Slash(s) - 1)
Path(s) == SubSeq(s, Slash(s), Len(s))
WithPort(s) == Positions(s, ":") # {} /\ Positions(Behind(s), "/") # {}

\* With no ":" in its path, a url matches the first regular expression when its
\* authority has a port, and then both see the same parts.
LEMMA PartsOfUrl ==
  ASSUME NEW S, NEW s \in Seq(S)
  PROVE  /\ WithPort(s) /\ Positions(Path(s), ":") = {} =>
              /\ FirstOf(Authority(s), ":") = Colon(s) /\ Positions(Authority(s), ":") # {}
              /\ Before(s, Colon(s)) = Before(Authority(s), Colon(s))
              /\ Before(Behind(s), FirstOf(Behind(s), "/")) = After(Authority(s), Colon(s))
              /\ SubSeq(Behind(s), FirstOf(Behind(s), "/"), Len(Behind(s))) = Path(s)
         /\ ~WithPort(s) /\ Positions(s, "/") # {} => Positions(Authority(s), ":") = {}
<1>1. Len(s) \in Nat /\ DOMAIN s = 1..Len(s) /\ s \in Seq(S)
  OBVIOUS
<1>a. ASSUME Positions(s, ":") # {}
      PROVE  /\ Colon(s) \in 1..Len(s) /\ s[Colon(s)] = ":"
             /\ \A j \in 1..Len(s) : s[j] = ":" => Colon(s) <= j
             /\ Positions(Behind(s), "/") = {j \in 1..(Len(s) - (Colon(s) + 1) + 1) : s[(Colon(s) + 1) + j - 1] = "/"}
  <2>1. Colon(s) \in Positions(s, ":") /\ \A j \in Positions(s, ":") : Colon(s) <= j
    BY <1>1, <1>a, FirstOfIsFirst DEF Colon
  <2>2. /\ Colon(s) \in 1..Len(s) /\ s[Colon(s)] = ":"
        /\ \A j \in 1..Len(s) : s[j] = ":" => Colon(s) <= j
    BY <1>1, <2>1 DEF Positions
  <2>3. Colon(s) + 1 \in Nat \ {0} /\ Len(s) \in 0..Len(s) /\ Colon(s) + 1 <= Len(s) + 1
    BY <1>1, <2>2
  <2>5. Positions(SubSeq(s, Colon(s) + 1, Len(s)), "/") =
          {j \in 1..(Len(s) - (Colon(s) + 1) + 1) : s[(Colon(s) + 1) + j - 1] = "/"}
    BY <1>1, <2>3, PositionsOfSubSeq
  <2> QED
    BY <2>2, <2>5 DEF Behind
<1>b. ASSUME Positions(s, "/") # {}
      PROVE  /\ Slash(s) \in 1..Len(s) /\ s[Slash(s)] = "/"
             /\ \A j \in 1..Len(s) : s[j] = "/" => Slash(s) <= j
             /\ Positions(Authority(s), ":") = {j \in 1..((Slash(s) - 1) - 1 + 1) : s[1 + j - 1] = ":"}
             /\ Positions(Path(s), ":") = {j \in 1..(Len(s) - Slash(s) + 1) : s[Slash(s) + j - 1] = ":"}
  <2>1. Slash(s) \in Positions(s, "/") /\ \A j \in Positions(s, "/") : Slash(s) <= j
    BY <1>1, <1>b, FirstOfIsFirst DEF Slash
  <2>2. /\ Slash(s) \in 1..Len(s) /\ s[Slash(s)] = "/"
        /\ \A j \in 1..Len(s) : s[j] = "/" => Slash(s) <= j
    BY <1>1, <2>1 DEF Positions
  <2>3. Slash(s) \in Nat \ {0} /\ Slash(s) - 1 \in 0..Len(s) /\ Len(s) \in 0..Len(s) /\ Slash(s) <= Len(s) + 1 /\ 1 <= (Slash(s) - 1) + 1
    BY <1>1, <2>2
  <2>5. /\ Positions(SubSeq(s, 1, Slash(s) - 1), ":") =
             {j \in 1..((Slash(s) - 1) - 1 + 1) : s[1 + j - 1] = ":"}
        /\ Positions(SubSeq(s, Slash(s), Len(s)), ":") =
             {j \in 1..(Len(s) - Slash(s) + 1) : s[Slash(s) + j - 1] = ":"}
    <3>1. Positions(SubSeq(s, 1, Slash(s) - 1), ":") =
            {j \in 1..((Slash(s) - 1) - 1 + 1) : s[1 + j - 1] = ":"}
      BY <1>1, <2>3, PositionsOfSubSeq
    <3>2. Positions(SubSeq(s, Slash(s), Len(s)), ":") =
            {j \in 1..(Len(s) - Slash(s) + 1) : s[Slash(s) + j - 1] = ":"}
      BY <1>1, <2>3, PositionsOfSubSeq
    <3> QED
      BY <3>1, <3>2
  <2> QED
    BY <2>2, <2>5 DEF Authority, Path
<1>3. ASSUME WithPort(s), Positions(Path(s), ":") = {}
      PROVE  /\ FirstOf(Authority(s), ":") = Colon(s) /\ Positions(Authority(s), ":") # {}
             /\ Before(s, Colon(s)) = Before(Authority(s), Colon(s))
             /\ Before(Behind(s), FirstOf(Behind(s), "/")) = After(Authority(s), Colon(s))
             /\ SubSeq(Behind(s), FirstOf(Behind(s), "/"), Len(Behind(s))) = Path(s)
  <2>w. /\ Positions(s, ":") # {} /\ Positions(Behind(s), "/") # {}
        /\ Behind(s) = SubSeq(s, Colon(s) + 1, Len(s)) /\ Authority(s) = SubSeq(s, 1, Slash(s) - 1)
        /\ Path(s) = SubSeq(s, Slash(s), Len(s))
    BY <1>3 DEF WithPort, Behind, Authority, Path
  <2>1. /\ Colon(s) \in 1..Len(s) /\ s[Colon(s)] = ":"
        /\ \A j \in 1..Len(s) : s[j] = ":" => Colon(s) <= j
    BY <1>a, <2>w
  <2>2. PICK i \in 1..(Len(s) - (Colon(s) + 1) + 1) : s[(Colon(s) + 1) + i - 1] = "/"
    BY <1>a, <2>w
  <2>3. (Colon(s) + 1) + i - 1 \in 1..Len(s)
    BY <2>1, <1>1
  <2>4. Positions(s, "/") # {}
    BY <2>2, <2>3, <1>1 DEF Positions
  <2>5. /\ Slash(s) \in 1..Len(s) /\ s[Slash(s)] = "/"
        /\ \A j \in 1..Len(s) : s[j] = "/" => Slash(s) <= j
        /\ \A j \in 1..(Len(s) - Slash(s) + 1) : s[Slash(s) + j - 1] # ":"
    BY <1>b, <1>3, <2>4
  <2>6. ~(Slash(s) < Colon(s))
    <3> SUFFICES ASSUME Slash(s) < Colon(s) PROVE FALSE
      OBVIOUS
    <3>1. Colon(s) - Slash(s) + 1 \in 1..(Len(s) - Slash(s) + 1) /\ Slash(s) + (Colon(s) - Slash(s) + 1) - 1 = Colon(s)
      BY <2>1, <2>5, <1>1
    <3> QED
      BY <3>1, <2>1, <2>5
  <2>7. Colon(s) # Slash(s)
    BY <2>1, <2>5
  <2>8. /\ Len(s) \in Nat /\ Colon(s) \in Nat /\ Slash(s) \in Nat
        /\ 1 <= Colon(s) /\ Colon(s) < Slash(s) /\ Slash(s) <= Len(s)
    BY <2>1, <2>5, <2>6, <2>7, <1>1
  <2> QED
    <3>1. /\ FirstOf(SubSeq(s, 1, Slash(s) - 1), ":") = Colon(s)
          /\ Positions(SubSeq(s, 1, Slash(s) - 1), ":") # {}
          /\ FirstOf(SubSeq(s, Colon(s) + 1, Len(s)), "/") = Slash(s) - Colon(s)
          /\ Len(SubSeq(s, Colon(s) + 1, Len(s))) = Len(s) - Colon(s)
          /\ Len(SubSeq(s, 1, Slash(s) - 1)) = Slash(s) - 1
          /\ SubSeq(s, 1, Colon(s) - 1) = SubSeq(SubSeq(s, 1, Slash(s) - 1), 1, Colon(s) - 1)
          /\ SubSeq(SubSeq(s, Colon(s) + 1, Len(s)), 1, (Slash(s) - Colon(s)) - 1)
               = SubSeq(SubSeq(s, 1, Slash(s) - 1), Colon(s) + 1, Slash(s) - 1)
          /\ SubSeq(SubSeq(s, Colon(s) + 1, Len(s)), Slash(s) - Colon(s), Len(s) - Colon(s)) = SubSeq(s, Slash(s), Len(s))
      <4> DEFINE n == Len(s)
                 c == Colon(s)
                 d == Slash(s)
      <4>1. /\ n \in Nat /\ c \in Nat /\ d \in Nat /\ n = Len(s)
            /\ 1 <= c /\ c < d /\ d <= n /\ s[c] = ":" /\ s[d] = "/"
            /\ \A j \in 1..n : s[j] = ":" => c <= j
            /\ \A j \in 1..n : s[j] = "/" => d <= j
        BY <2>1, <2>5, <2>8
      <4> HIDE DEF n, c, d
      <4>2. /\ FirstOf(SubSeq(s, 1, d - 1), ":") = c
            /\ Positions(SubSeq(s, 1, d - 1), ":") # {}
            /\ FirstOf(SubSeq(s, c + 1, n), "/") = d - c
            /\ Len(SubSeq(s, c + 1, n)) = n - c
            /\ Len(SubSeq(s, 1, d - 1)) = d - 1
            /\ SubSeq(s, 1, c - 1) = SubSeq(SubSeq(s, 1, d - 1), 1, c - 1)
            /\ SubSeq(SubSeq(s, c + 1, n), 1, (d - c) - 1)
                 = SubSeq(SubSeq(s, 1, d - 1), c + 1, d - 1)
            /\ SubSeq(SubSeq(s, c + 1, n), d - c, n - c) = SubSeq(s, d, n)
        BY <4>1, SplitAtPort, SMTT(60)
      <4> QED
        BY <4>2 DEF n, c, d
    <3> QED
      BY <2>w, <3>1, Zenon DEF Before, After
<1>4. ASSUME ~WithPort(s), Positions(s, "/") # {}
      PROVE  Positions(Authority(s), ":") = {}
  <2>w. ~(Positions(s, ":") # {} /\ Positions(Behind(s), "/") # {})
    BY <1>4 DEF WithPort
  <2>1. /\ Slash(s) \in 1..Len(s) /\ s[Slash(s)] = "/"
        /\ Positions(Authority(s), ":") = {j \in 1..((Slash(s) - 1) - 1 + 1) : s[1 + j - 1] = ":"}
    BY <1>b, <1>4
  <2>2. SUFFICES ASSUME NEW j \in 1..((Slash(s) - 1) - 1 + 1), s[1 + j - 1] = ":" PROVE FALSE
    BY <2>1
  <2>3. j \in 1..Len(s) /\ j < Slash(s) /\ 1 + j - 1 = j
    BY <2>1, <1>1
  <2>4. Positions(s, ":") # {}
    BY <2>2, <2>3, <1>1 DEF Positions
  <2>5. /\ Colon(s) \in 1..Len(s) /\ Colon(s) <= j
        /\ Positions(Behind(s), "/") = {k \in 1..(Len(s) - (Colon(s) + 1) + 1) : s[(Colon(s) + 1) + k - 1] = "/"}
    BY <1>a, <2>2, <2>3, <2>4
  <2>6. Slash(s) - Colon(s) \in 1..(Len(s) - (Colon(s) + 1) + 1) /\ (Colon(s) + 1) + (Slash(s) - Colon(s)) - 1 = Slash(s)
    BY <2>1, <2>3, <2>5, <1>1
  <2>7. Positions(Behind(s), "/") # {}
    BY <2>1, <2>5, <2>6
  <2> QED
    BY <2>w, <2>4, <2>7
<1> QED
  BY <1>3, <1>4

\* The fields of a url that was accepted.
LEMMA Fields ==
  ASSUME NEW r, NEW a, NEW b, NEW c,
         r = [host |-> a, port |-> b, target |-> c, valid |-> TRUE]
  PROVE  r.host = a /\ r.port = b /\ r.target = c
OBVIOUS

\* What parseURL says of any url that it accepts.
LEMMA ParsedUrls ==
  ASSUME NEW u \in Url
  PROVE  LET s == u.rest
             slash == FirstOf(s, "/")
             authority == Before(s, slash)
         IN parseURL(u).valid /\ Positions(SubSeq(s, slash, Len(s)), ":") = {} =>
            /\ parseURL(u).target = SubSeq(s, slash, Len(s))
            /\ parseURL(u).host = IF Positions(authority, ":") = {} THEN authority
                                  ELSE Before(authority, FirstOf(authority, ":"))
            /\ parseURL(u).port = IF Positions(authority, ":") = {} THEN DefaultPort(u)
                                  ELSE After(authority, FirstOf(authority, ":"))
<1> DEFINE s == u.rest
<1>1. s \in Seq({"x", ":", "/"})
  BY DEF Url
<1>2. parseURL(u) =
        IF WithPort(s)
        THEN [host |-> Before(s, Colon(s)),
              port |-> Before(Behind(s), FirstOf(Behind(s), "/")),
              target |-> SubSeq(Behind(s), FirstOf(Behind(s), "/"), Len(Behind(s))), valid |-> TRUE]
        ELSE IF Positions(s, "/") = {} THEN NotUrl
        ELSE [host |-> Authority(s), port |-> DefaultPort(u), target |-> Path(s), valid |-> TRUE]
  BY DEF parseURL, After, Before, WithPort, Colon, Slash, Behind, Authority, Path
<1>3. /\ WithPort(s) /\ Positions(Path(s), ":") = {} =>
           /\ FirstOf(Authority(s), ":") = Colon(s) /\ Positions(Authority(s), ":") # {}
           /\ Before(s, Colon(s)) = Before(Authority(s), Colon(s))
           /\ Before(Behind(s), FirstOf(Behind(s), "/")) = After(Authority(s), Colon(s))
           /\ SubSeq(Behind(s), FirstOf(Behind(s), "/"), Len(Behind(s))) = Path(s)
      /\ ~WithPort(s) /\ Positions(s, "/") # {} => Positions(Authority(s), ":") = {}
  BY <1>1, PartsOfUrl
<1>4. Before(s, FirstOf(s, "/")) = Authority(s) /\ SubSeq(s, FirstOf(s, "/"), Len(s)) = Path(s)
  BY DEF Before, Authority, Path, Slash
<1>5. ~NotUrl.valid
  BY DEF NotUrl
<1> HIDE DEF s
<1>6. parseURL(u).valid /\ Positions(Path(s), ":") = {} =>
        /\ parseURL(u).target = Path(s)
        /\ parseURL(u).host = IF Positions(Authority(s), ":") = {} THEN Authority(s)
                              ELSE Before(Authority(s), FirstOf(Authority(s), ":"))
        /\ parseURL(u).port = IF Positions(Authority(s), ":") = {} THEN DefaultPort(u)
                              ELSE After(Authority(s), FirstOf(Authority(s), ":"))
  <2>1. CASE WithPort(s)
    <3>1. parseURL(u) =
            [host |-> Before(s, Colon(s)),
             port |-> Before(Behind(s), FirstOf(Behind(s), "/")),
             target |-> SubSeq(Behind(s), FirstOf(Behind(s), "/"), Len(Behind(s))), valid |-> TRUE]
      BY <1>2, <2>1, Zenon
    <3>2. /\ parseURL(u).host = Before(s, Colon(s))
          /\ parseURL(u).port = Before(Behind(s), FirstOf(Behind(s), "/"))
          /\ parseURL(u).target = SubSeq(Behind(s), FirstOf(Behind(s), "/"), Len(Behind(s)))
      <4> DEFINE h == Before(s, Colon(s))
                 p == Before(Behind(s), FirstOf(Behind(s), "/"))
                 t == SubSeq(Behind(s), FirstOf(Behind(s), "/"), Len(Behind(s)))
      <4>1. parseURL(u) = [host |-> h, port |-> p, target |-> t, valid |-> TRUE]
        BY <3>1
      <4> HIDE DEF h, p, t
      <4>2. parseURL(u).host = h /\ parseURL(u).port = p /\ parseURL(u).target = t
        BY <4>1, Fields, Zenon
      <4> QED
        BY <4>2 DEF h, p, t
    <3> QED
      BY <3>2, <1>3, <2>1, Zenon
  <2>2. CASE ~WithPort(s) /\ Positions(s, "/") = {}
    <3>1. parseURL(u) = NotUrl
      BY <1>2, <2>2, Zenon
    <3> QED
      BY <3>1, <1>5, Zenon
  <2>3. CASE ~WithPort(s) /\ Positions(s, "/") # {}
    <3>1. parseURL(u) = [host |-> Authority(s), port |-> DefaultPort(u),
                         target |-> Path(s), valid |-> TRUE]
      BY <1>2, <2>3, Zenon
    <3>2. /\ parseURL(u).host = Authority(s) /\ parseURL(u).port = DefaultPort(u)
          /\ parseURL(u).target = Path(s)
      BY <3>1, Fields, Zenon
    <3> QED
      BY <3>2, <1>3, <2>3, Zenon
  <2> QED
    BY <2>1, <2>2, <2>3
<1> QED
  BY <1>4, <1>6, Zenon DEF s

\* Every url that is connected to was split where it should be, whatever server sent it:
\* redirections go through the same expressions.
THEOREM UrlsAreSplit == Spec => []UrlSplit
<1>1. TypeOK /\ AnswerInv => UrlSplit
  BY ParsedUrls DEF TypeOK, AnswerInv, UrlSplit
<1> QED
  BY <1>1, HttpTypeCorrect, AnswerInvHolds, PTL

=============================================================================
