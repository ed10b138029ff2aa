--------------------------- MODULE RetrievalProofs ---------------------------
(***************************************************************************)
(* Proofs about Retrieval: what a dependency file yields, for files of any *)
(* length over any lines, and the retrievers its dependencies get.         *)
(***************************************************************************)
EXTENDS Retrieval, TLAPS, SequenceTheorems, FiniteSetTheorems

----------------------------------------------------------------------------
(* Sequences *)

Sorted(s) == \A i, j \in DOMAIN s : i < j => s[i].name <= s[j].name
Different(s) == \A i, j \in DOMAIN s : i < j => ~Equal(s[i], s[j])

\* What InsertAt leaves where.
LEMMA InsertAtProperties ==
  ASSUME NEW S, NEW s \in Seq(S), NEW i \in 1..(Len(s) + 1), NEW d \in S
  PROVE  /\ InsertAt(s, i, d) \in Seq(S)
         /\ Len(InsertAt(s, i, d)) = Len(s) + 1
         /\ \A j \in 1..(Len(s) + 1) :
              InsertAt(s, i, d)[j] = IF j < i THEN s[j] ELSE IF j = i THEN d ELSE s[j - 1]
<1> DEFINE before == SubSeq(s, 1, i - 1)
           after == SubSeq(s, i, Len(s))
<1>1. /\ before \in Seq(S) /\ Len(before) = i - 1
      /\ \A j \in 1..(i - 1) : before[j] = s[j]
  OBVIOUS
<1>2. /\ after \in Seq(S) /\ Len(after) = Len(s) - i + 1
      /\ \A j \in 1..(Len(s) - i + 1) : after[j] = s[i + j - 1]
  OBVIOUS
<1>3. InsertAt(s, i, d) = (before \o <<d>>) \o after
  BY DEF InsertAt
<1> HIDE DEF before, after
<1>4. /\ before \o <<d>> \in Seq(S) /\ Len(before \o <<d>>) = i
      /\ \A j \in 1..(i - 1) : (before \o <<d>>)[j] = s[j]
      /\ (before \o <<d>>)[i] = d
  BY <1>1
<1> DEFINE front == before \o <<d>>
<1> HIDE DEF front
<1>5. /\ front \o after \in Seq(S) /\ Len(front \o after) = Len(s) + 1
      /\ \A j \in 1..i : (front \o after)[j] = front[j]
      /\ \A j \in (i + 1)..(Len(s) + 1) : (front \o after)[j] = after[j - i]
  <2>1. front \in Seq(S) /\ Len(front) = i
    BY <1>4 DEF front
  <2>2. /\ front \o after \in Seq(S) /\ Len(front \o after) = Len(front) + Len(after)
        /\ \A j \in 1..(Len(front) + Len(after)) :
             (front \o after)[j] = IF j <= Len(front) THEN front[j] ELSE after[j - Len(front)]
    BY <2>1, <1>2, ConcatProperties
  <2>3. Len(front) + Len(after) = Len(s) + 1
    BY <2>1, <1>2
  <2> QED
    BY <2>1, <2>2, <2>3
<1>6. \A j \in (i + 1)..(Len(s) + 1) : after[j - i] = s[j - 1]
  BY <1>2
<1>7. InsertAt(s, i, d) = front \o after
  BY <1>3 DEF front
<1>8. \A j \in 1..(i - 1) : front[j] = s[j]
  BY <1>4 DEF front
<1>9. front[i] = d
  BY <1>4 DEF front
<1>10. ASSUME NEW j \in 1..(Len(s) + 1)
       PROVE  (front \o after)[j] = IF j < i THEN s[j] ELSE IF j = i THEN d ELSE s[j - 1]
  <2>1. CASE j < i
    <3>1. j \in 1..(i - 1) /\ j \in 1..i
      BY <2>1
    <3> QED
      BY <2>1, <3>1, <1>5, <1>8
  <2>2. CASE j = i
    <3>1. j \in 1..i
      BY <2>2
    <3> QED
      BY <2>2, <3>1, <1>5, <1>9
  <2>3. CASE j > i
    <3>1. j \in (i + 1)..(Len(s) + 1) /\ ~(j < i) /\ j # i
      BY <2>3
    <3> QED
      BY <3>1, <1>5, <1>6
  <2>4. j < i \/ j = i \/ j > i
    OBVIOUS
  <2> QED
    <3>1. (j < i => ~(j > i)) /\ (j = i => ~(j < i)) /\ (j > i => ~(j < i) /\ j # i)
      OBVIOUS
    <3> QED
      BY <2>1, <2>2, <2>3, <2>4, <3>1, Zenon
<1> QED
  BY <1>5, <1>7, <1>10

\* An element that goes in behind those of its name and less keeps the order.
LEMMA InsertSorted ==
  ASSUME NEW S, \A d \in S : d.name \in Nat,
         NEW s \in Seq(S), NEW i \in 1..(Len(s) + 1), NEW d \in S,
         Sorted(s), Different(s), \A e \in Range(s) : ~Equal(e, d) /\ ~Equal(d, e),
         \A j \in DOMAIN s : j < i <=> s[j].name <= d.name
  PROVE  /\ InsertAt(s, i, d) \in Seq(S)
         /\ Sorted(InsertAt(s, i, d)) /\ Different(InsertAt(s, i, d))
         /\ Range(InsertAt(s, i, d)) = Range(s) \union {d}
<1> DEFINE t == InsertAt(s, i, d)
<1>1. /\ t \in Seq(S) /\ Len(t) = Len(s) + 1
      /\ \A j \in 1..(Len(s) + 1) :
           t[j] = IF j < i THEN s[j] ELSE IF j = i THEN d ELSE s[j - 1]
  <2>1. /\ InsertAt(s, i, d) \in Seq(S)
        /\ Len(InsertAt(s, i, d)) = Len(s) + 1
        /\ \A j \in 1..(Len(s) + 1) :
             InsertAt(s, i, d)[j] = IF j < i THEN s[j] ELSE IF j = i THEN d ELSE s[j - 1]
    <3> HIDE DEF t
    <3> QED
      BY InsertAtProperties, SMTT(60)
  <2> QED
    BY <2>1
<1> HIDE DEF t
<1>2. DOMAIN t = 1..(Len(s) + 1) /\ DOMAIN s = 1..Len(s)
  BY <1>1
<1>3. \A j \in DOMAIN s : s[j].name \in Nat /\ ~Equal(s[j], d) /\ ~Equal(d, s[j])
  BY DEF Range
<1>a. \A j \in 1..(Len(s) + 1) : j < i => j \in 1..Len(s) /\ t[j] = s[j]
  <2> SUFFICES ASSUME NEW j \in 1..(Len(s) + 1), j < i
               PROVE  j \in 1..Len(s) /\ t[j] = s[j]
    OBVIOUS
  <2>1. j \in 1..Len(s)
    OBVIOUS
  <2> QED
    BY <2>1, <1>1
<1>b. t[i] = d
  BY <1>1
<1>c. \A j \in 1..(Len(s) + 1) : j > i => j - 1 \in 1..Len(s) /\ t[j] = s[j - 1]
  <2> SUFFICES ASSUME NEW j \in 1..(Len(s) + 1), j > i
               PROVE  j - 1 \in 1..Len(s) /\ t[j] = s[j - 1]
    OBVIOUS
  <2>1. j - 1 \in 1..Len(s) /\ ~(j < i) /\ j # i
    OBVIOUS
  <2> QED
    BY <2>1, <1>1
<1>4. \A j, k \in DOMAIN t : j < k => t[j].name <= t[k].name /\ ~Equal(t[j], t[k])
  <2> SUFFICES ASSUME NEW j \in 1..(Len(s) + 1), NEW k \in 1..(Len(s) + 1), j < k
               PROVE  t[j].name <= t[k].name /\ ~Equal(t[j], t[k])
    BY <1>2
  <2>0. j \in Int /\ k \in Int /\ i \in Int /\ Len(s) \in Nat
    OBVIOUS
  <2>1. CASE k < i
    <3>1. j \in DOMAIN s /\ k \in DOMAIN s /\ t[j] = s[j] /\ t[k] = s[k]
      <4>1. j < i
        BY <2>1, <2>0
      <4> QED
        BY <4>1, <2>1, <1>a, <1>2
    <3> QED
      BY <3>1 DEF Sorted, Different
  <2>2. CASE k = i
    <3>1. j \in DOMAIN s /\ t[j] = s[j] /\ t[k] = d
      BY <2>2, <1>a, <1>b, <1>2
    <3> QED
      BY <2>2, <3>1, <1>3
  <2>3. CASE k > i
    <3>1. k - 1 \in DOMAIN s /\ t[k] = s[k - 1] /\ ~(k - 1 < i)
      <4>1. k - 1 \in DOMAIN s /\ t[k] = s[k - 1]
        BY <2>3, <1>c, <1>2
      <4> QED
        BY <4>1, <2>3, <2>0
    <3>2. CASE j < i
      <4>1. j \in DOMAIN s /\ t[j] = s[j] /\ j < k - 1
        <5>1. j < k - 1
          BY <3>2, <2>3, <2>0
        <5> QED
          BY <5>1, <3>2, <1>a, <1>2
      <4> QED
        BY <3>1, <4>1 DEF Sorted, Different
    <3>3. CASE j = i
      <4>1. t[j] = d
        BY <3>3, <1>b
      <4>2. ~(s[k - 1].name <= d.name) /\ s[k - 1].name \in Nat /\ d.name \in Nat
        BY <3>1, <1>3
      <4> QED
        BY <3>1, <4>1, <4>2, <1>3
    <3>4. CASE j > i
      <4>1. j - 1 \in DOMAIN s /\ t[j] = s[j - 1] /\ j - 1 < k - 1
        <5>1. j - 1 < k - 1
          BY <2>0
        <5> QED
          BY <5>1, <3>4, <1>c, <1>2
      <4> QED
        BY <3>1, <4>1 DEF Sorted, Different
    <3> QED
      BY <3>2, <3>3, <3>4
  <2> QED
    BY <2>1, <2>2, <2>3
<1>5. Sorted(t) /\ Different(t)
  BY <1>4 DEF Sorted, Different
<1>6. Range(t) = Range(s) \union {d}
  <2>1. \A j \in DOMAIN t : t[j] \in Range(s) \union {d}
    <3> SUFFICES ASSUME NEW j \in 1..(Len(s) + 1) PROVE t[j] \in Range(s) \union {d}
      BY <1>2
    <3>1. CASE j < i
      BY <3>1, <1>a, <1>2 DEF Range
    <3>2. CASE j = i
      BY <3>2, <1>b
    <3>3. CASE j > i
      <4>1. t[j] = s[j - 1] /\ j - 1 \in DOMAIN s
        BY <3>3, <1>c, <1>2
      <4> QED
        BY <4>1 DEF Range
    <3> QED
      BY <3>1, <3>2, <3>3
  <2>2. \A j \in DOMAIN s : s[j] \in Range(t)
    <3> SUFFICES ASSUME NEW j \in DOMAIN s PROVE s[j] \in Range(t)
      OBVIOUS
    <3>1. CASE j < i
      <4>1. j \in 1..(Len(s) + 1)
        BY <1>2
      <4> QED
        BY <3>1, <4>1, <1>a, <1>2 DEF Range
    <3>2. CASE ~(j < i)
      <4>1. j + 1 \in 1..(Len(s) + 1) /\ j + 1 > i /\ (j + 1) - 1 = j
        BY <3>2, <1>2
      <4>2. t[j + 1] = s[j]
        BY <4>1, <1>c
      <4> QED
        BY <4>1, <4>2, <1>2 DEF Range
    <3> QED
      BY <3>1, <3>2
  <2>3. d \in Range(t)
    BY <1>b, <1>2 DEF Range
  <2> QED
    BY <2>1, <2>2, <2>3 DEF Range
<1> QED
  BY <1>1, <1>5, <1>6 DEF t

----------------------------------------------------------------------------
(* Dependency files *)

\* What the first n lines of the file mean, by the first of each class of equal lines; the
\* other dependencies among them are equal to one of these.
Read(n) == {Dependency(file[i]) : i \in {j \in 1..n : FirstLine(j)}}
Covered(n) ==
  \A i \in 1..n : file[i].kind = "dependency" =>
                   \E e \in Read(n) : Equal(e, Dependency(file[i]))
Dependencies == {Dependency(l) : l \in Lines}

\* While it is read, the multimap holds what was stored of the lines before; while it is
\* filtered, the result holds what is not redundant of the part before.
FileInv ==
  /\ TypeOK
  /\ Sorted(libraries) /\ Different(libraries)
  /\ \A d \in Range(libraries) : Valid(d)
  /\ outcome = "none" => libraries = << >>
  /\ outcome \in {"none", "reading", "failed"} => result = << >>
  /\ outcome = "reading" =>
       /\ next \in 1..(Len(file) + 1)
       /\ Range(libraries) = {d \in Read(next - 1) : Stored(d)}
       /\ Covered(next - 1)
  /\ outcome \in {"filtering", "ok"} =>
       /\ next \in 1..(Len(libraries) + 1)
       /\ Range(libraries) = {d \in Read(Len(file)) : Stored(d)}
       /\ Covered(Len(file))
       /\ Sorted(result) /\ Different(result)
       /\ Range(result) = {libraries[i] : i \in {j \in 1..(next - 1) : ~Redundant(libraries[j])}}
  /\ outcome = "ok" => next = Len(libraries) + 1

\* Names are ordered as numbers are.
LEMMA NamesAreNumbers == \A d \in Dependencies : d.name \in Nat
<1>1. \A l \in Lines : l.name \in Nat
  BY DependencyFileAssumption DEF Line
<1>2. \A l : Dependency(l).name = l.name
  BY DEF Dependency
<1> QED
  BY <1>1, <1>2 DEF Dependencies

\* operator== is an equivalence, and what this system stores of a class is all or nothing.
LEMMA EqualIsEquivalence ==
  /\ \A d : Equal(d, d)
  /\ \A d, e : Equal(d, e) => Equal(e, d) /\ d.name = e.name /\ (Stored(d) <=> Stored(e))
                              /\ (IsSystem(d) <=> IsSystem(e)) /\ d.identifier = e.identifier
  /\ \A d, e, f : Equal(d, e) /\ Equal(e, f) => Equal(d, f)
BY DEF Equal, Stored, IsSystem, IsGeneric, IsSpecific

\* One line more, of which there is an equal one among the first or not.
LEMMA ReadNext ==
  ASSUME NEW n \in Nat, Covered(n)
  PROVE  /\ Covered(n + 1)
         /\ file[n + 1].kind # "dependency" => Read(n + 1) = Read(n)
         /\ file[n + 1].kind = "dependency" =>
              Read(n + 1) = IF \E e \in Read(n) : Equal(e, Dependency(file[n + 1]))
                            THEN Read(n) ELSE Read(n) \union {Dependency(file[n + 1])}
<1> DEFINE d == Dependency(file[n + 1])
<1>1. \A j : j \in 1..(n + 1) <=> j \in 1..n \/ j = n + 1
  OBVIOUS
<1>2. Read(n + 1) = IF FirstLine(n + 1) THEN Read(n) \union {d} ELSE Read(n)
  BY <1>1 DEF Read
<1>3. ASSUME file[n + 1].kind = "dependency"
      PROVE  FirstLine(n + 1) <=> ~\E e \in Read(n) : Equal(e, d)
  <2>1. (n + 1) - 1 = n
    OBVIOUS
  <2>2. ASSUME NEW j \in 1..n, file[j].kind = "dependency", Equal(Dependency(file[j]), d)
        PROVE  \E e \in Read(n) : Equal(e, d)
    <3>1. PICK e \in Read(n) : Equal(e, Dependency(file[j]))
      BY <2>2 DEF Covered
    <3> QED
      BY <2>2, <3>1, EqualIsEquivalence, Zenon
  <2>3. ASSUME NEW e \in Read(n), Equal(e, d)
        PROVE  \E j \in 1..n : file[j].kind = "dependency" /\ Equal(Dependency(file[j]), d)
    BY <2>3 DEF Read, FirstLine
  <2>4. FirstLine(n + 1) <=>
          \A j \in 1..n : file[j].kind = "dependency" => ~Equal(Dependency(file[j]), d)
    BY <1>3, <2>1 DEF FirstLine
  <2> HIDE DEF d
  <2> QED
    BY <2>2, <2>3, <2>4
<1>4. Covered(n + 1)
  <2> SUFFICES ASSUME NEW i \in 1..(n + 1), file[i].kind = "dependency"
               PROVE  \E e \in Read(n + 1) : Equal(e, Dependency(file[i]))
    BY DEF Covered
  <2>1. Read(n) \subseteq Read(n + 1)
    BY <1>2
  <2>2. CASE i \in 1..n
    BY <2>1, <2>2 DEF Covered
  <2>3. CASE i = n + 1
    <3>1. CASE FirstLine(n + 1)
      <4>1. d \in Read(n + 1) /\ Equal(d, d)
        BY <1>2, <3>1, EqualIsEquivalence
      <4> QED
        BY <4>1, <2>3
    <3>2. CASE ~FirstLine(n + 1)
      BY <2>1, <2>3, <1>3, <3>2
    <3> QED
      BY <3>1, <3>2
  <2> QED
    BY <1>1, <2>2, <2>3
<1>5. file[n + 1].kind # "dependency" => ~FirstLine(n + 1)
  BY DEF FirstLine
<1> QED
  BY <1>2, <1>3, <1>4, <1>5

\* An element behind all others of its order keeps it.
LEMMA AppendSorted ==
  ASSUME NEW S, \A d \in S : d.name \in Nat, NEW s \in Seq(S), NEW d \in S,
         Sorted(s), Different(s),
         \A e \in Range(s) : e.name <= d.name /\ ~Equal(e, d)
  PROVE  /\ Append(s, d) \in Seq(S)
         /\ Sorted(Append(s, d)) /\ Different(Append(s, d))
         /\ Range(Append(s, d)) = Range(s) \union {d}
<1> DEFINE t == Append(s, d)
<1>1. /\ t \in Seq(S) /\ Len(t) = Len(s) + 1 /\ t[Len(s) + 1] = d
      /\ \A j \in 1..Len(s) : t[j] = s[j]
  BY AppendProperties
<1> HIDE DEF t
<1>2. DOMAIN t = 1..(Len(s) + 1) /\ DOMAIN s = 1..Len(s) /\ Len(s) \in Nat
  BY <1>1
<1>3. \A j \in 1..Len(s) : s[j].name <= d.name /\ ~Equal(s[j], d)
  BY <1>2 DEF Range
<1>4. \A j, k \in DOMAIN t : j < k => t[j].name <= t[k].name /\ ~Equal(t[j], t[k])
  BY <1>1, <1>2, <1>3 DEF Sorted, Different
<1>5. Range(t) = Range(s) \union {d}
  <2>1. \A j : j \in 1..(Len(s) + 1) <=> j \in 1..Len(s) \/ j = Len(s) + 1
    BY <1>2
  <2> QED
    BY <2>1, <1>1, <1>2 DEF Range
<1> QED
  BY <1>1, <1>4, <1>5 DEF t, Sorted, Different

\* The multimap and the filter over it, at every step.
LEMMA FileInvHolds ==
  /\ Init => FileInv
  /\ FileInv /\ [Next]_vars => FileInv'
<1>1. Init => FileInv
  <2> SUFFICES ASSUME Init PROVE FileInv
    OBVIOUS
  <2>1. Range(<< >>) = {}
    BY DEF Range
  <2> QED
    BY <2>1 DEF Init, FileInv, TypeOK, Sorted, Different
<1>2. FileInv /\ [Next]_vars => FileInv'
  <2> SUFFICES ASSUME FileInv, [Next]_vars PROVE FileInv'
    OBVIOUS
  <2>t. /\ file \in Seq(Lines) /\ next \in Nat /\ Len(file) \in Nat /\ Len(libraries) \in Nat
        /\ libraries \in Seq(Dependencies) /\ result \in Seq(Range(libraries))
        /\ DOMAIN libraries = 1..Len(libraries)
    BY DEF FileInv, TypeOK, Dependencies
  <2>1. CASE parse
    <3>1. PICK n \in 0..MaxLines : file' \in [1..n -> Lines]
      BY <2>1 DEF parse
    <3>2. n \in Nat
      BY <3>1, DependencyFileAssumption
    <3>3. file' \in Seq(Lines)
      BY <3>1, <3>2
    <3>4. Read(0)' = {} /\ Covered(0)' /\ Range(libraries) = {}
      BY <2>1 DEF Read, Covered, parse, FileInv, Range
    <3> QED
      BY <2>1, <3>3, <3>4 DEF parse, FileInv, TypeOK
  <2>2. CASE ignoreLine
    <3>1. next \in 1..Len(file) /\ next - 1 \in Nat
      BY <2>2, <2>t DEF ignoreLine, FileInv
    <3>2. Read(next) = Read(next - 1) /\ Covered(next)
      <4>1. (next - 1) + 1 = next /\ Covered(next - 1)
        BY <2>2, <3>1 DEF ignoreLine, FileInv
      <4> QED
        BY <2>2, <3>1, <4>1, ReadNext DEF ignoreLine
    <3>3. Read(next - 1)' = Read(next) /\ Covered(next - 1)' = Covered(next)
      <4>1. next' - 1 = next /\ file' = file
        BY <2>2, <2>t DEF ignoreLine
      <4> QED
        BY <4>1 DEF Read, Covered, FirstLine
    <3> QED
      BY <2>2, <2>t, <3>1, <3>2, <3>3 DEF ignoreLine, FileInv, TypeOK
  <2>3. CASE parseLine
    <3> DEFINE d == Dependency(file[next])
    <3>1. next \in 1..Len(file) /\ next - 1 \in Nat /\ outcome = "reading"
      BY <2>3, <2>t DEF parseLine, FileInv
    <3>2. d \in Dependencies
      BY <3>1, <2>t DEF Dependencies
    <3>3. /\ Covered(next)
          /\ Read(next) = IF \E e \in Read(next - 1) : Equal(e, d)
                          THEN Read(next - 1) ELSE Read(next - 1) \union {d}
      <4>1. (next - 1) + 1 = next /\ Covered(next - 1)
        BY <3>1 DEF FileInv
      <4> QED
        BY <2>3, <3>1, <4>1, ReadNext DEF parseLine
    <3>4. CASE ~Valid(d)
      BY <2>3, <2>t, <3>4, <3>1 DEF parseLine, FileInv, TypeOK
    <3>5. CASE Valid(d)
      <4> HIDE DEF d
      <4>1. /\ next' = next + 1 /\ UNCHANGED <<file, result, outcome>>
            /\ IF Usable(d) THEN Insert(d) ELSE UNCHANGED libraries
        BY <2>3, <3>5 DEF parseLine, d
      <4>2. Read(next - 1)' = Read(next) /\ Covered(next - 1)' = Covered(next)
        <5>1. next' - 1 = next /\ file' = file
          BY <4>1, <2>t
        <5> QED
          BY <5>1 DEF Read, Covered, FirstLine
      <4>3. /\ libraries' \in Seq(Dependencies) /\ Sorted(libraries)' /\ Different(libraries)'
            /\ Range(libraries)' = IF Usable(d) THEN Range(libraries) \union {d} ELSE Range(libraries)
        <5>1. CASE ~Usable(d)
          BY <5>1, <4>1, <2>t DEF FileInv, Sorted, Different
        <5>2. CASE Usable(d)
          <6>1. PICK i \in 1..(Len(libraries) + 1) :
                  /\ \A j \in DOMAIN libraries : j < i <=> libraries[j].name <= d.name
                  /\ libraries' = InsertAt(libraries, i, d)
            BY <4>1, <5>2 DEF Insert
          <6>2. /\ \A e \in Range(libraries) : ~Equal(e, d) /\ ~Equal(d, e)
                /\ Sorted(libraries) /\ Different(libraries)
            BY <5>2, EqualIsEquivalence DEF Usable, FileInv
          <6> QED
            <7>1. \A e \in Dependencies : e.name \in Nat
              BY NamesAreNumbers
            <7>2. d \in Dependencies /\ libraries \in Seq(Dependencies)
              BY <2>t, <3>2
            <7>3. /\ InsertAt(libraries, i, d) \in Seq(Dependencies)
                  /\ Sorted(InsertAt(libraries, i, d)) /\ Different(InsertAt(libraries, i, d))
                  /\ Range(InsertAt(libraries, i, d)) = Range(libraries) \union {d}
              BY <6>1, <6>2, <7>1, <7>2, InsertSorted, SMTT(60)
            <7>4. /\ libraries' \in Seq(Dependencies) /\ Sorted(libraries') /\ Different(libraries')
                  /\ Range(libraries') = Range(libraries) \union {d}
              BY <6>1, <7>3
            <7> QED
              BY <5>2, <7>4 DEF Sorted, Different, Range
        <5> QED
          BY <5>1, <5>2
      <4>4. Range(libraries)' = {e \in Read(next) : Stored(e)}
        <5>1. Range(libraries) = {e \in Read(next - 1) : Stored(e)}
          BY <3>1 DEF FileInv
        <5>2. Usable(d) <=> Stored(d) /\ ~\E e \in Read(next - 1) : Equal(e, d)
          BY <5>1, EqualIsEquivalence DEF Usable
        <5> QED
          BY <4>3, <3>3, <5>1, <5>2
      <4>5. \A e \in Range(libraries)' : Valid(e)
        BY <4>3, <3>5 DEF FileInv
      <4> QED
        BY <2>t, <3>1, <3>3, <4>1, <4>2, <4>3, <4>4, <4>5 DEF FileInv, TypeOK, Dependencies
    <3> QED
      BY <3>4, <3>5
  <2>4. CASE endOfFile
    <3>1. next - 1 = Len(file)
      BY <2>4, <2>t DEF endOfFile, FileInv
    <3>2. Read(Len(file))' = Read(Len(file)) /\ Covered(Len(file))' = Covered(Len(file))
      BY <2>4 DEF endOfFile, Read, Covered, FirstLine
    <3>3. Sorted(<< >>) /\ Different(<< >>) /\ Range(<< >>) = {}
      BY DEF Sorted, Different, Range
    <3> QED
      BY <2>4, <2>t, <3>1, <3>2, <3>3 DEF endOfFile, FileInv, TypeOK
  <2>5. CASE removeRedundantDependencies
    <3> DEFINE d == libraries[next]
    <3>1. /\ next \in 1..Len(libraries) /\ outcome = "filtering" /\ next' = next + 1
          /\ result' = IF Redundant(d) THEN result ELSE Append(result, d)
          /\ UNCHANGED <<file, libraries, outcome>>
      BY <2>5, <2>t DEF removeRedundantDependencies, FileInv
    <3>2. d \in Range(libraries)
      BY <3>1, <2>t DEF Range
    <3>3. \A e \in Range(result) : e.name <= d.name /\ ~Equal(e, d)
      <4> SUFFICES ASSUME NEW e \in Range(result) PROVE e.name <= d.name /\ ~Equal(e, d)
        OBVIOUS
      <4>1. PICK i \in 1..(next - 1) : e = libraries[i]
        BY <3>1 DEF FileInv
      <4>2. i \in DOMAIN libraries /\ next \in DOMAIN libraries /\ i < next
        BY <3>1, <2>t
      <4> QED
        BY <4>1, <4>2 DEF FileInv, Sorted, Different
    <3>4. \A e \in Range(libraries) : e.name \in Nat
      BY <2>t, NamesAreNumbers DEF Range
    <3>5. Sorted(result) /\ Different(result)
      BY <3>1 DEF FileInv
    <3> HIDE DEF d
    <3>6. /\ result' \in Seq(Range(libraries)) /\ Sorted(result') /\ Different(result')
          /\ Range(result') = IF Redundant(d) THEN Range(result) ELSE Range(result) \union {d}
      <4>1. CASE Redundant(d)
        BY <4>1, <3>1, <3>5, <2>t
      <4>2. CASE ~Redundant(d)
        BY <4>2, <3>1, <3>2, <3>3, <3>4, <3>5, <2>t, AppendSorted
      <4> QED
        BY <4>1, <4>2
    <3>7. \A j : j \in 1..(next' - 1) <=> j \in 1..(next - 1) \/ j = next
      BY <3>1
    <3>8. Range(result)' = {libraries[i] : i \in {j \in 1..(next' - 1) : ~Redundant(libraries[j])}}
      BY <3>1, <3>6, <3>7 DEF FileInv, d
    <3>9. /\ Read(Len(file))' = Read(Len(file)) /\ Covered(Len(file))' = Covered(Len(file))
          /\ \A e : Redundant(e)' = Redundant(e)
      BY <3>1 DEF Read, Covered, FirstLine, Redundant
    <3>10. libraries' = libraries /\ outcome' = "filtering" /\ next' \in 1..(Len(libraries') + 1)
      BY <2>t, <3>1
    <3> QED
      BY <2>t, <3>1, <3>6, <3>8, <3>9, <3>10, SMTT(60) DEF FileInv, TypeOK
  <2>6. CASE parsed
    <3>1. /\ Read(Len(file))' = Read(Len(file)) /\ Covered(Len(file))' = Covered(Len(file))
          /\ \A d : Redundant(d)' = Redundant(d)
      BY <2>6 DEF parsed, Read, Covered, FirstLine, Redundant
    <3> QED
      BY <2>6, <2>t, <3>1 DEF parsed, FileInv, TypeOK
  <2>7. CASE UNCHANGED vars
    <3>1. /\ \A n : Read(n)' = Read(n) /\ Covered(n)' = Covered(n)
          /\ \A d : Redundant(d)' = Redundant(d)
      BY <2>7 DEF vars, Read, Covered, FirstLine, Redundant
    <3> QED
      BY <2>7, <2>t, <3>1, SMTT(60) DEF vars, FileInv, TypeOK, Sorted, Different
  <2> QED
    BY <2>1, <2>2, <2>3, <2>4, <2>5, <2>6, <2>7 DEF Next
<1> QED
  BY <1>1, <1>2

\* What a file yields, whatever its length and its lines: the needed classes of equal lines,
\* each by its first line, in the order of their names.  The loops of parse and of
\* removeRedundantDependencies depend on the order of the lines in nothing else.
THEOREM FilesAreSets == RSpec => []OrderIrrelevant
<1>1. FileInv => OrderIrrelevant
  <2> SUFFICES ASSUME FileInv, outcome = "ok" PROVE OrderIrrelevant
    BY DEF OrderIrrelevant
  <2>1. /\ Range(libraries) = {d \in Read(Len(file)) : Stored(d)} /\ Covered(Len(file))
        /\ Sorted(result) /\ Different(result) /\ Different(libraries)
        /\ next = Len(libraries) + 1 /\ libraries \in Seq(Dependencies) /\ file \in Seq(Lines)
        /\ Range(result) = {libraries[i] : i \in {j \in 1..(next - 1) : ~Redundant(libraries[j])}}
    BY DEF FileInv, TypeOK, Dependencies
  <2>2. /\ next - 1 = Len(libraries) /\ DOMAIN libraries = 1..Len(libraries)
        /\ DOMAIN file = 1..Len(file)
    BY <2>1
  <2>3. Range(result) = {d \in Range(libraries) : ~Redundant(d)}
    BY <2>1, <2>2 DEF Range
  <2>4. \A d \in Read(Len(file)) : \E i \in DOMAIN file : FirstLine(i) /\ d = Dependency(file[i])
    BY <2>2 DEF Read
  <2>5. Read(Len(file)) \subseteq Meant
    BY <2>4 DEF Meant, Range, FirstLine
  <2>6. ASSUME NEW d \in Meant PROVE \E e \in Read(Len(file)) : Equal(e, d)
    <3>1. PICK i \in 1..Len(file) : file[i].kind = "dependency" /\ d = Dependency(file[i])
      BY <2>2 DEF Meant, Range
    <3> QED
      BY <2>1, <3>1 DEF Covered
  <2>7. "system" \notin OtherTools /\ SystemTool \notin OtherTools
    BY DependencyFileAssumption
  <2>8. Here = {d \in Meant : Stored(d)}
    BY <2>7 DEF Here, Stored, IsGeneric, IsSpecific
  <2>9. Range(libraries) \subseteq Here
    BY <2>1, <2>5, <2>8
  <2>10. ASSUME NEW d \in Here PROVE \E e \in Range(libraries) : Equal(e, d)
    BY <2>1, <2>6, <2>8, EqualIsEquivalence
  <2>11. \A d, e \in Range(libraries) : Equal(e, d) => e = d
    <3> SUFFICES ASSUME NEW i \in 1..Len(libraries), NEW j \in 1..Len(libraries),
                        Equal(libraries[i], libraries[j])
                 PROVE  i = j
      BY <2>2 DEF Range
    <3>1. ~(i < j) /\ ~(j < i)
      BY <2>1, <2>2, EqualIsEquivalence DEF Different
    <3> QED
      BY <3>1, <2>1
  <2>12. ASSUME NEW d \in Range(libraries)
         PROVE  (\E e \in Here : ~Equal(e, d) /\ e.name = d.name)
                  <=> \E e \in Range(libraries) : e # d /\ e.name = d.name
    <3>1. ASSUME NEW e \in Here, ~Equal(e, d), e.name = d.name
          PROVE  \E f \in Range(libraries) : f # d /\ f.name = d.name
      <4>1. PICK f \in Range(libraries) : Equal(f, e)
        BY <2>10
      <4> QED
        BY <3>1, <4>1, EqualIsEquivalence
    <3>2. ASSUME NEW e \in Range(libraries), e # d, e.name = d.name
          PROVE  \E f \in Here : ~Equal(f, d) /\ f.name = d.name
      BY <2>9, <2>11, <3>2
    <3> QED
      BY <3>1, <3>2
  <2>13. \A d \in Range(libraries) : Redundant(d) <=> d \notin Needed
    BY <2>7, <2>9, <2>12 DEF Redundant, Needed, IsSpecific, IsGeneric
  <2>14. Range(result) \subseteq Needed
    BY <2>3, <2>13
  <2>15. ASSUME NEW d \in Needed PROVE \E e \in Range(result) : Equal(d, e)
    <3>1. d \in Here
      BY DEF Needed
    <3>2. PICK e \in Range(libraries) : Equal(e, d)
      BY <2>10, <3>1
    <3>3. e \in Needed
      <4>1. ASSUME NEW f \in Here, ~Equal(f, e), f.name = e.name
            PROVE  ~Equal(f, d) /\ f.name = d.name
        BY <3>2, <4>1, EqualIsEquivalence
      <4>2. e \in Here /\ (IsSystem(e) <=> IsSystem(d)) /\ e.identifier = d.identifier
        BY <2>9, <3>2, EqualIsEquivalence
      <4> QED
        BY <4>1, <4>2 DEF Needed
    <3> QED
      BY <2>3, <2>13, <3>2, <3>3, EqualIsEquivalence
  <2>16. \A d \in Range(result) : \E i \in DOMAIN file : FirstLine(i) /\ d = Dependency(file[i])
    BY <2>1, <2>3, <2>4
  <2> QED
    BY <2>1, <2>14, <2>15, <2>16 DEF OrderIrrelevant, Sorted, Different
<1>2. RInit => Init /\ (RNext => [Next]_vars)
  BY DEF RInit, RNext, parseFile, getFileHandler, getAlternateHandler, over, all
<1>3. [RNext]_all => [Next]_vars
  BY DEF RNext, parseFile, getFileHandler, getAlternateHandler, over, all, vars
<1>4. RSpec => []FileInv
  BY <1>2, <1>3, FileInvHolds, PTL DEF RSpec
<1> QED
  BY <1>1, <1>4, PTL

----------------------------------------------------------------------------
(* Retrievers *)

\* A line of the vcpkg repository names vcpkg as its tool.
VcpkgByVcpkg == \A l \in Lines : StatedRepository(l) = "vcpkg" => l.identifier = "vcpkg"

\* What the key of the map says of its retriever.
Fits(k, h) ==
  \/ k \in {"github", "http"} /\ h.class = "http"
  \/ k \in {"artifactory", "nexus"} /\ h.class = "credentials"
  \/ k = "path" /\ h.class = "path"
  \/ k = "conan" /\ h.class = "conan"
  \/ /\ h.class = "system"
     /\ <<k, h.tool>> \in {<<"vcpkg", "VCPKG">>, <<"system", "SYSTEM">>, <<"brew", "BREW">>,
                           <<"scoop", "SCOOP">>}

\* A request that is made: a system dependency is of no type with a repository of its own.
Sent(t, r) ==
  /\ t \in Factory!Type /\ r \in RepositoryTypes
  /\ r = "system" => t \in {"SYSTEM", "BREW", "SCOOP", "REMAKEN"}
  /\ r = "vcpkg" => t = "VCPKG"

HandlersKept ==
  /\ \A k \in DOMAIN handlers : Fits(k, handlers[k])
  /\ HandlerFits

AskedInv ==
  /\ asked \in Nat
  /\ asked > 0 => outcome = "ok" /\ asked <= Len(result)

\* The type and repository of a dependency that parse keeps.
LEMMA DependenciesAreSent ==
  ASSUME VcpkgByVcpkg, NEW d \in Dependencies, Valid(d)
  PROVE  Sent(d.type, d.repository)
<1>1. PICK l \in Lines : d = Dependency(l)
  BY DEF Dependencies
<1>2. d.type = TypeOf(l) /\ d.repository = RepositoryOf(l) /\ d.identifier = l.identifier
  BY <1>1 DEF Dependency
<1>3. \A s : DeducedType(s) \in Factory!Type
  BY DEF DeducedType, Factory!Type
<1>4. TypeOf(l) \in Factory!Type
  BY <1>3 DEF TypeOf
<1>5. RepositoryOf(l) \in {"github", StatedRepository(l)}
  BY DEF RepositoryOf
<1>6. ASSUME RepositoryOf(l) = "system"
      PROVE  TypeOf(l) \in {"SYSTEM", "BREW", "SCOOP", "REMAKEN"}
  <2>1. StatedRepository(l) = "system" /\ l.identifier \in ToolIdentifiers
    BY <1>2, <1>5, <1>6 DEF Valid
  <2>2. TypeOf(l) = DeducedType(l.identifier)
    BY <2>1 DEF TypeOf, DeducedType
  <2> QED
    BY <2>1, <2>2 DEF DeducedType, ToolIdentifiers
<1>7. ASSUME RepositoryOf(l) = "vcpkg"
      PROVE  TypeOf(l) = "VCPKG"
  <2>1. StatedRepository(l) = "vcpkg" /\ l.identifier = "vcpkg"
    BY <1>5, <1>7 DEF VcpkgByVcpkg
  <2> QED
    BY <2>1 DEF TypeOf, DeducedType
<1> QED
  BY <1>2, <1>4, <1>6, <1>7 DEF Sent, Valid

\* A retriever that is made fits its key.
LEMMA MadeFits ==
  ASSUME NEW t, NEW r, Sent(t, r), Factory!Made(t, r) # Factory!NoHandler
  PROVE  Fits(Factory!FinalRepo(t, r), Factory!Made(t, r))
<1>1. "REMAKEN" \notin Found
  BY RetrievalAssumption DEF Factory!HandlerFactoryAssumption
<1>2. CASE r = "system"
  BY <1>1, <1>2 DEF Sent, Factory!Made, Factory!FinalRepo, Factory!KeyOfType,
                    Factory!ToolHandler, Factory!NoHandler, Fits
<1>3. CASE r # "system"
  BY <1>3 DEF Sent, Factory!Made, Factory!FinalRepo, Factory!ToolHandler, RepositoryTypes,
              Factory!NoHandler, Fits
<1> QED
  BY <1>2, <1>3

\* One that fits its key fits what is asked for under that key.
LEMMA KeyedFits ==
  ASSUME NEW t, NEW r, Sent(t, r), NEW h, Fits(Factory!FinalRepo(t, r), h)
  PROVE  CASE r \in {"github", "http"} -> h.class = "http"
           [] r \in {"artifactory", "nexus"} -> h.class = "credentials"
           [] r = "path" -> h.class = "path"
           [] r = "conan" -> h.class = "conan"
           [] OTHER -> h.class = "system" /\ h.tool = t
<1>1. CASE r = "system"
  BY <1>1 DEF Sent, Factory!FinalRepo, Factory!KeyOfType, Fits
<1>2. CASE r # "system"
  BY <1>2 DEF Sent, Factory!FinalRepo, RepositoryTypes, Fits
<1> QED
  BY <1>1, <1>2

\* A request leaves each kept retriever with its kind and tool.
LEMMA RequestKeepsHandlers ==
  ASSUME NEW t, NEW r, Sent(t, r), HandlersKept, Factory!getHandler(t, r)
  PROVE  HandlersKept'
<1> DEFINE key == Factory!FinalRepo(t, r)
           made == Factory!Made(t, r)
<1>1. request' = <<t, r>>
  BY DEF Factory!getHandler
<1>2. CASE key \in DOMAIN handlers /\ answer' = handlers[key] /\ UNCHANGED <<handlers, folders, thrown>>
  <2>1. Fits(key, answer')
    BY <1>2 DEF HandlersKept
  <2> QED
    BY <1>1, <1>2, <2>1, KeyedFits
       DEF HandlersKept, HandlerFits
<1>3. CASE answer' = Factory!NoHandler /\ UNCHANGED handlers
  BY <1>3 DEF HandlersKept, HandlerFits
<1>4. CASE /\ key \notin DOMAIN handlers /\ made # Factory!NoHandler
           /\ answer' = made /\ handlers' = Factory!With(key, made)
  <2> HIDE DEF key, made
  <2>1. /\ DOMAIN handlers' = DOMAIN handlers \union {key}
        /\ \A k \in DOMAIN handlers : handlers'[k] = handlers[k]
        /\ handlers'[key] = made
    BY <1>4 DEF Factory!With
  <2>2. Fits(key, made)
    BY <1>4, MadeFits DEF key, made
  <2> QED
    BY <1>1, <1>4, <2>1, <2>2, KeyedFits DEF HandlersKept, HandlerFits, key
<1> QED
  BY <1>2, <1>3, <1>4
     DEF Factory!getHandler, Factory!createZipToolFails, Factory!constructorFails

\* No retriever is ever kept for another kind or tool.
LEMMA HandlersKeptFit ==
  ASSUME VcpkgByVcpkg
  PROVE  RSpec => []HandlersKept
<1>1. RInit => HandlersKept /\ AskedInv
  <2> SUFFICES ASSUME RInit PROVE HandlersKept /\ AskedInv
    OBVIOUS
  <2>1. handlers = << >> /\ answer = Factory!NoHandler /\ asked = 0
    BY DEF RInit, Factory!Init
  <2>2. DOMAIN handlers = {}
    BY <2>1
  <2> QED
    BY <2>1, <2>2 DEF HandlersKept, HandlerFits, AskedInv
<1>2. FileInv /\ HandlersKept /\ AskedInv /\ [RNext]_all => HandlersKept' /\ AskedInv'
  <2> SUFFICES ASSUME FileInv, HandlersKept, AskedInv, [RNext]_all
               PROVE  HandlersKept' /\ AskedInv'
    OBVIOUS
  <2>0. result \in Seq(Range(libraries)) /\ DOMAIN result = 1..Len(result) /\ Len(result) \in Nat
    BY DEF FileInv, TypeOK
  <2>r. ASSUME NEW i \in 1..Len(result) PROVE Sent(result[i].type, result[i].repository)
    <3>1. result[i] \in Range(libraries) /\ Range(libraries) \subseteq Dependencies
      BY <2>0 DEF FileInv, TypeOK, Dependencies, Range
    <3>2. Valid(result[i])
      BY <3>1 DEF FileInv
    <3> QED
      BY <3>1, <3>2, DependenciesAreSent
  <2>1. CASE getFileHandler
    <3> DEFINE d == result[asked + 1]
    <3>1. asked + 1 \in 1..Len(result) /\ outcome = "ok" /\ asked' = asked + 1 /\ UNCHANGED vars
      BY <2>1, <2>0 DEF getFileHandler, AskedInv
    <3>2. Factory!getHandler(d.type, d.repository)
      BY <2>1 DEF getFileHandler
    <3>3. Sent(d.type, d.repository)
      BY <3>1, <2>r
    <3> QED
      BY <3>1, <3>2, <3>3, <2>0, RequestKeepsHandlers DEF AskedInv, vars
  <2>2. CASE getAlternateHandler
    <3> DEFINE d == result[asked]
    <3>1. asked \in 1..Len(result) /\ UNCHANGED <<vars, asked>>
      BY <2>2, <2>0 DEF getAlternateHandler, AskedInv
    <3>2. Factory!getHandler(d.type, AlternateRepo)
      BY <2>2 DEF getAlternateHandler
    <3>3. Sent(d.type, AlternateRepo)
      <4>1. Sent(d.type, d.repository)
        BY <3>1, <2>r
      <4>2. AlternateRepo \in {"github", "artifactory", "nexus", "path", "http"}
        BY <2>2, RetrievalAssumption DEF getAlternateHandler
      <4> QED
        BY <4>1, <4>2 DEF Sent, RepositoryTypes
    <3> QED
      BY <3>1, <3>2, <3>3, RequestKeepsHandlers DEF AskedInv, vars
  <2>3. CASE UNCHANGED factory /\ UNCHANGED asked /\ [Next]_vars
    <3>1. HandlersKept'
      BY <2>3 DEF factory, HandlersKept, HandlerFits
    <3>2. outcome = "ok" => UNCHANGED vars
      BY <2>3 DEF Next, parse, ignoreLine, parseLine, endOfFile, removeRedundantDependencies, parsed
    <3> QED
      BY <2>3, <3>1, <3>2 DEF AskedInv, vars
  <2> QED
    BY <2>1, <2>2, <2>3 DEF RNext, parseFile, over, all
<1>3. RSpec => []FileInv
  <2>1. RInit => Init
    BY DEF RInit
  <2>2. [RNext]_all => [Next]_vars
    BY DEF RNext, parseFile, getFileHandler, getAlternateHandler, over, all, vars
  <2> QED
    BY <2>1, <2>2, FileInvHolds, PTL DEF RSpec
<1> QED
  BY <1>1, <1>2, <1>3, PTL DEF RSpec

\* getFileHandler and getAlternateHandler answer every request by a retriever of the
\* right kind and tool, in whatever order the dependencies of the files come.
THEOREM RetrieversFit ==
  ASSUME VcpkgByVcpkg
  PROVE  RSpec => []HandlerFits
<1>1. HandlersKept => HandlerFits
  BY DEF HandlersKept
<1> QED
  BY <1>1, HandlersKeptFit, PTL

\* A temporary folder that no retriever of the map owns is left only by a constructor that
\* did not find the archive tool, and that one ends the command: whatever was asked for and
\* whichever other constructors threw, no folder is lost to them.
THEOREM FoldersAreOwned == RSpec => []FoldersOwned
<1> DEFINE Kept == IsFiniteSet(DOMAIN handlers) /\ FoldersOwned
<1>1. RInit => Kept
  <2> SUFFICES ASSUME RInit PROVE Kept
    OBVIOUS
  <2>1. handlers = << >> /\ folders = 0 /\ thrown = "none"
    BY DEF RInit, Factory!Init
  <2>2. DOMAIN handlers = {}
    BY <2>1
  <2> QED
    BY <2>1, <2>2, FS_EmptySet DEF FoldersOwned
<1>2. Kept /\ [RNext]_all => Kept'
  <2> SUFFICES ASSUME Kept, [RNext]_all PROVE Kept'
    OBVIOUS
  <2>0. Cardinality(DOMAIN handlers) \in Nat
    BY FS_CardinalityType
  <2>1. CASE UNCHANGED <<handlers, folders, thrown>>
    BY <2>1 DEF FoldersOwned
  <2>2. ASSUME NEW t, NEW r, Factory!getHandler(t, r), ~UNCHANGED <<handlers, folders, thrown>>
        PROVE  Kept'
    <3> DEFINE key == Factory!FinalRepo(t, r)
               made == Factory!Made(t, r)
    <3>0. folders = Cardinality(DOMAIN handlers)
      BY <2>2, <2>0 DEF FoldersOwned, Factory!getHandler
    <3>1. CASE Factory!createZipToolFails
      BY <2>0, <3>0, <3>1 DEF Factory!createZipToolFails, FoldersOwned
    <3>2. CASE Factory!constructorFails
      BY <2>0, <3>0, <3>2 DEF Factory!constructorFails, FoldersOwned
    <3>3. CASE /\ key \notin DOMAIN handlers /\ handlers' = Factory!With(key, made)
               /\ folders' = folders + 1 /\ thrown' = "none"
      <4> HIDE DEF key, made
      <4>1. DOMAIN handlers' = DOMAIN handlers \union {key}
        BY <3>3 DEF Factory!With
      <4> QED
        BY <2>0, <3>0, <3>3, <4>1, FS_AddElement DEF FoldersOwned
    <3> QED
      BY <2>2, <3>1, <3>2, <3>3 DEF Factory!getHandler
  <2> QED
    BY <2>1, <2>2 DEF RNext, parseFile, getFileHandler, getAlternateHandler, over, all, factory
<1>3. Kept => FoldersOwned
  OBVIOUS
<1> HIDE DEF Kept
<1> QED
  BY <1>1, <1>2, <1>3, PTL DEF RSpec

=============================================================================
