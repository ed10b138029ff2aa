---------------------------- MODULE BundleProofs ----------------------------
(***************************************************************************)
(* Proofs about bundle and bundleXpcf (module Bundle): the destination of  *)
(* a command that succeeds is complete, and holds what the command found.  *)
(*                                                                         *)
(* First what End computes: the names a name leads to are counted, and the *)
(* induction over their number is UpTo.  Then what every step keeps: the   *)
(* types, the agenda's form, and links that go one way.  A complete        *)
(* destination is a matter of sets that cover what was done so far: calls  *)
(* C that were made, packages D that were copied, names G of the           *)
(* destination from which no link leads out.                               *)
(***************************************************************************)
EXTENDS BundleProps, TLAPS, FiniteSetTheorems, SequenceTheorems, WellFoundedInduction

----------------------------------------------------------------------------
(* Where a name of a folder leads *)

\* Induction on the numbers up to K, for a set.
LEMMA UpTo ==
  ASSUME NEW K \in Nat, NEW T, 0 \in T, \A i \in 0..(K-1) : i \in T => i + 1 \in T
  PROVE  0..K \subseteq T
<1> DEFINE less == {ss \in Nat \X Nat : ss[1] < ss[2]}
           Bad == {i \in 0..K : i \notin T}
<1>1. IsWellFoundedOn(less, Nat)
  BY NatLessThanWellFounded DEF OpToRel
<1>2. Bad \subseteq Nat
  OBVIOUS
<1>3. SUFFICES ASSUME Bad # {} PROVE FALSE
  OBVIOUS
<1> HIDE DEF less
<1>4. PICK i \in Bad : \A j \in Bad : <<j, i>> \notin less
  <2> HIDE DEF Bad
  <2> QED
    BY <1>1, <1>2, <1>3, WFMin
<1>5. i \in 1..K
  BY <1>4
<1>6. i - 1 \in Bad
  BY <1>4, <1>5
<1>7. <<i - 1, i>> \in less
  BY <1>5 DEF less
<1> QED
  BY <1>4, <1>6, <1>7

\* A function can be applied up to K times.
LEMMA Iteration ==
  ASSUME NEW K \in Nat
  PROVE  \A S : \A x \in S, step \in [S -> S] :
           \E g \in [0..K -> S] : g[0] = x /\ \A i \in 1..K : g[i] = step[g[i-1]]
<1> SUFFICES ASSUME NEW S, NEW x \in S, NEW step \in [S -> S]
             PROVE  \E g \in [0..K -> S] : g[0] = x /\ \A i \in 1..K : g[i] = step[g[i-1]]
  OBVIOUS
<1> DEFINE Times(k) == {g \in [0..k -> S] : g[0] = x /\ \A i \in 1..k : g[i] = step[g[i-1]]}
           T == {k \in 0..K : Times(k) # {}}
<1>1. 0 \in T
  <2>1. [i \in 0..0 |-> x] \in Times(0)
    OBVIOUS
  <2> QED
    BY <2>1
<1>2. ASSUME NEW k \in 0..(K-1), k \in T PROVE k + 1 \in T
  <2>1. PICK g \in [0..k -> S] : g[0] = x /\ \A i \in 1..k : g[i] = step[g[i-1]]
    BY <1>2
  <2> DEFINE h == [i \in 0..(k+1) |-> IF i = k + 1 THEN step[g[k]] ELSE g[i]]
  <2>2. h \in [0..(k+1) -> S]
    BY <2>1
  <2>3. h[0] = x
    BY <2>1
  <2>4. ASSUME NEW i \in 1..(k+1) PROVE h[i] = step[h[i-1]]
    BY <2>1
  <2> HIDE DEF h
  <2>5. h \in Times(k+1)
    BY <2>2, <2>3, <2>4
  <2> QED
    BY <2>5
<1>3. 0..K \subseteq T
  <2> HIDE DEF T
  <2> QED
    BY <1>1, <1>2, UpTo
<1>4. Times(K) # {}
  BY <1>3
<1> QED
  BY <1>4

----------------------------------------------------------------------------
(* Links *)

\* There are finitely many names.
LEMMA NameCount == Cardinality(Name) \in Nat
  BY BundleAssumption, FS_CardinalityType

\* The names a name leads to, one after the other.
LEMMA Hops ==
  ASSUME NEW f, \A z \in LinksOf(f) : f[z].to \in Name, NEW n \in Name
  PROVE  \E g \in [0..Cardinality(Name) -> Name] :
           /\ g[0] = n /\ g[Cardinality(Name)] = End(f, n)
           /\ \A i \in 1..Cardinality(Name) :
                g[i] = IF f[g[i-1]].kind = "link" THEN f[g[i-1]].to ELSE g[i-1]
<1> DEFINE K == Cardinality(Name)
           step == [z \in Name |-> IF f[z].kind = "link" THEN f[z].to ELSE z]
           hop[i \in 0..K] ==
             IF i = 0 THEN n
             ELSE IF f[hop[i-1]].kind = "link" THEN f[hop[i-1]].to ELSE hop[i-1]
<1>1. step \in [Name -> Name]
  BY DEF LinksOf
<1>2. K \in Nat
  BY NameCount
<1>3. PICK g \in [0..K -> Name] : g[0] = n /\ \A i \in 1..K : g[i] = step[g[i-1]]
  <2> HIDE DEF step, K, hop
  <2>1. n \in Name
    OBVIOUS
  <2>2. \E g \in [0..K -> Name] : g[0] = n /\ \A i \in 1..K : g[i] = step[g[i-1]]
    <3>1. \A S : \A x \in S, st \in [S -> S] :
            \E g \in [0..K -> S] : g[0] = x /\ \A i \in 1..K : g[i] = st[g[i-1]]
      BY <1>2, Iteration
    <3>2. \A x \in Name, st \in [Name -> Name] :
            \E g \in [0..K -> Name] : g[0] = x /\ \A i \in 1..K : g[i] = st[g[i-1]]
      BY <3>1
    <3> QED
      BY <1>1, <2>1, <3>2
  <2> QED
    BY <2>2
<1>4. \A i \in 1..K : g[i] = IF f[g[i-1]].kind = "link" THEN f[g[i-1]].to ELSE g[i-1]
  <2> SUFFICES ASSUME NEW i \in 1..K
               PROVE  g[i] = IF f[g[i-1]].kind = "link" THEN f[g[i-1]].to ELSE g[i-1]
    OBVIOUS
  <2>1. g[i-1] \in Name
    BY <1>2, <1>3
  <2> QED
    BY <1>3, <2>1
<1>5. g = [i \in 0..K |-> IF i = 0 THEN n
                          ELSE IF f[g[i-1]].kind = "link" THEN f[g[i-1]].to ELSE g[i-1]]
  BY <1>2, <1>3, <1>4
<1>6. hop = [i \in 0..K |-> IF i = 0 THEN n
                            ELSE IF f[hop[i-1]].kind = "link" THEN f[hop[i-1]].to ELSE hop[i-1]]
  BY <1>5
<1>7. End(f, n) = hop[K]
  BY DEF End
<1> HIDE DEF hop
<1>8. hop[0] = n /\ \A i \in 1..K : hop[i] = IF f[hop[i-1]].kind = "link" THEN f[hop[i-1]].to
                                             ELSE hop[i-1]
  BY <1>2, <1>6
<1> DEFINE T == {i \in 0..K : hop[i] = g[i]}
<1>9. 0..K \subseteq T
  <2>1. 0 \in T
    BY <1>2, <1>3, <1>8
  <2>2. ASSUME NEW i \in 0..(K-1), i \in T PROVE i + 1 \in T
    <3>1. i + 1 \in 1..K /\ (i + 1) - 1 = i
      BY <1>2
    <3> QED
      BY <1>4, <1>8, <2>2, <3>1
  <2> HIDE DEF T, K
  <2> QED
    BY <1>2, <2>1, <2>2, UpTo
<1>10. g[K] = End(f, n)
  BY <1>2, <1>7, <1>9
<1> QED
  BY <1>3, <1>4, <1>10

\* Where links lead to is no link.
LEMMA EndIsEnd ==
  ASSUME NEW f, NEW r \in Rank, Rising(f, r), NEW n \in Name
  PROVE  End(f, n) \in Name /\ f[End(f, n)].kind # "link"
<1> DEFINE K == Cardinality(Name)
<1>1. K \in Nat
  BY NameCount
<1>2. PICK g \in [0..K -> Name] :
        /\ g[0] = n /\ g[K] = End(f, n)
        /\ \A i \in 1..K : g[i] = IF f[g[i-1]].kind = "link" THEN f[g[i-1]].to ELSE g[i-1]
  BY Hops DEF Rising
<1> DEFINE T == {i \in 0..K : f[g[i]].kind # "link" \/ r[g[i]] >= i}
<1> HIDE DEF K
<1>3. 0 \in T
  BY <1>1, <1>2 DEF Rank, K
<1>4. ASSUME NEW i \in 0..(K-1), i \in T PROVE i + 1 \in T
  <2>1. i + 1 \in 1..K /\ (i + 1) - 1 = i /\ g[i] \in Name /\ g[i+1] \in Name
    BY <1>1, <1>2
  <2>2. CASE f[g[i]].kind # "link"
    BY <1>2, <2>1, <2>2
  <2>3. CASE f[g[i]].kind = "link"
    <3>1. g[i+1] = f[g[i]].to /\ r[g[i]] < r[g[i+1]]
      BY <1>2, <2>1, <2>3 DEF Rising, LinksOf
    <3>2. r[g[i]] \in Nat /\ r[g[i+1]] \in Nat
      BY <1>1, <2>1 DEF Rank, K
    <3> QED
      BY <1>4, <2>1, <2>3, <3>1, <3>2
  <2> QED
    BY <2>2, <2>3
<1>5. K \in T
  <2> HIDE DEF T
  <2>1. 0..K \subseteq T
    BY <1>1, <1>3, <1>4, UpTo
  <2> QED
    BY <1>1, <2>1
<1>6. g[K] \in Name
  BY <1>1, <1>2
<1>7. f[g[K]].kind # "link"
  <2> SUFFICES ASSUME f[g[K]].kind = "link" PROVE FALSE
    OBVIOUS
  <2>1. r[g[K]] >= K
    BY <1>5
  <2>2. f[g[K]].to \in Name /\ r[g[K]] < r[f[g[K]].to]
    BY <1>6 DEF Rising, LinksOf
  <2> QED
    BY <1>1, <1>6, <2>1, <2>2 DEF Rank, K
<1> QED
  BY <1>2, <1>6, <1>7

\* No chain of links is longer than Cardinality(Name): what Hops says, with its end.
LEMMA Chain ==
  ASSUME NEW f, NEW r \in Rank, Rising(f, r), NEW n \in Name
  PROVE  \E A \in SUBSET Name :
           /\ n \in A /\ End(f, n) \in A
           /\ \A z \in A : r[n] <= r[z] /\ (z = End(f, n) \/ (f[z].kind = "link" /\ f[z].to \in A))
<1> DEFINE K == Cardinality(Name)
<1>1. K \in Nat
  BY NameCount
<1>2. PICK g \in [0..K -> Name] :
        /\ g[0] = n /\ g[K] = End(f, n)
        /\ \A i \in 1..K : g[i] = IF f[g[i-1]].kind = "link" THEN f[g[i-1]].to ELSE g[i-1]
  BY Hops DEF Rising
<1> DEFINE A == {g[i] : i \in 0..K}
           T == {i \in 0..K : r[n] <= r[g[i]]}
<1> HIDE DEF K
<1>3. 0..K \subseteq T
  <2>1. 0 \in T
    BY <1>1, <1>2 DEF Rank, K
  <2>2. ASSUME NEW i \in 0..(K-1), i \in T PROVE i + 1 \in T
    <3>1. i + 1 \in 1..K /\ (i + 1) - 1 = i /\ g[i] \in Name /\ g[i+1] \in Name
      BY <1>1, <1>2
    <3>2. g[i+1] = g[i] \/ r[g[i]] < r[g[i+1]]
      BY <1>2, <3>1 DEF Rising, LinksOf
    <3>3. r[g[i]] \in Nat /\ r[g[i+1]] \in Nat /\ r[n] \in Nat
      BY <1>1, <3>1 DEF Rank, K
    <3> QED
      BY <2>2, <3>1, <3>2, <3>3
  <2> HIDE DEF T
  <2> QED
    BY <1>1, <2>1, <2>2, UpTo
<1>4. ASSUME NEW i \in 0..K, f[g[i]].kind # "link" PROVE g[i] = End(f, n)
  <2> DEFINE S == {j \in 0..(K-i) : g[i+j] = g[i]}
  <2>1. 0 \in S
    BY <1>1, <1>4
  <2>2. ASSUME NEW j \in 0..((K-i)-1), j \in S PROVE j + 1 \in S
    <3>1. i + j + 1 \in 1..K /\ (i + j + 1) - 1 = i + j
      BY <1>1
    <3>2. g[i+j+1] = g[i]
      BY <1>2, <1>4, <2>2, <3>1
    <3>3. i + (j + 1) = i + j + 1 /\ j + 1 \in 0..(K-i)
      BY <1>1
    <3> QED
      BY <3>2, <3>3
  <2>3. K - i \in S
    <3> HIDE DEF S
    <3>1. K - i \in Nat
      BY <1>1
    <3>2. 0..(K-i) \subseteq S
      BY <2>1, <2>2, <3>1, UpTo
    <3> QED
      BY <3>1, <3>2
  <2> QED
    BY <1>1, <1>2, <2>3
<1>5. ASSUME NEW i \in 0..K, f[g[i]].kind = "link" PROVE f[g[i]].to \in A
  <2>1. i # K
    BY <1>2, <1>5, EndIsEnd
  <2>2. i + 1 \in 1..K /\ (i + 1) - 1 = i
    BY <1>1, <2>1
  <2>3. g[i+1] = f[g[i]].to
    BY <1>2, <1>5, <2>2
  <2> QED
    BY <2>2, <2>3
<1>6. A \subseteq Name /\ n \in A /\ End(f, n) \in A
  BY <1>1, <1>2
<1>7. ASSUME NEW z \in A
      PROVE  r[n] <= r[z] /\ (z = End(f, n) \/ (f[z].kind = "link" /\ f[z].to \in A))
  <2>1. PICK i \in 0..K : z = g[i]
    OBVIOUS
  <2> HIDE DEF A
  <2>2. r[n] <= r[z]
    BY <1>3, <2>1
  <2>3. z = End(f, n) \/ (f[z].kind = "link" /\ f[z].to \in A)
    <3>1. CASE f[g[i]].kind = "link"
      BY <1>5, <2>1, <3>1
    <3>2. CASE f[g[i]].kind # "link"
      <4>1. g[i] = End(f, n)
        BY <1>4, <3>2
      <4> QED
        BY <2>1, <4>1
    <3> QED
      BY <3>1, <3>2
  <2> QED
    BY <2>2, <2>3
<1> HIDE DEF A
<1> QED
  BY <1>6, <1>7

\* A link stands for what it leads to.
LEMMA EndLink ==
  ASSUME NEW f, NEW r \in Rank, Rising(f, r), NEW n \in Name, f[n].kind = "link"
  PROVE  f[n].to \in Name /\ End(f, n) = End(f, f[n].to)
<1> DEFINE K == Cardinality(Name)
           m == f[n].to
<1>0. ASSUME NEW x \in Name
      PROVE  \E g \in [0..K -> Name] :
               /\ g[0] = x /\ g[K] = End(f, x)
               /\ \A i \in 1..K : g[i] = IF f[g[i-1]].kind = "link" THEN f[g[i-1]].to ELSE g[i-1]
  <2>1. \A z \in LinksOf(f) : f[z].to \in Name
    BY DEF Rising
  <2> QED
    BY <2>1, Hops
<1>1. K \in Nat
  BY NameCount
<1>2. m \in Name
  BY DEF Rising, LinksOf
<1> HIDE DEF K, m
<1>3. PICK g \in [0..K -> Name] :
        /\ g[0] = n /\ g[K] = End(f, n)
        /\ \A i \in 1..K : g[i] = IF f[g[i-1]].kind = "link" THEN f[g[i-1]].to ELSE g[i-1]
  BY <1>0
<1>4. PICK h \in [0..K -> Name] :
        /\ h[0] = m /\ h[K] = End(f, m)
        /\ \A i \in 1..K : h[i] = IF f[h[i-1]].kind = "link" THEN f[h[i-1]].to ELSE h[i-1]
  BY <1>2, <1>0
<1>5. f[g[K]].kind # "link"
  BY <1>3, EndIsEnd
<1> DEFINE T == {i \in 0..(K-1) : h[i] = g[i+1]}
<1>6. K # 0
  BY <1>3, <1>5
<1>7. 0 \in T
  BY <1>1, <1>3, <1>4, <1>6 DEF m
<1>8. ASSUME NEW i \in 0..((K-1)-1), i \in T PROVE i + 1 \in T
  <2>1. i + 1 \in 1..K /\ (i + 1) - 1 = i /\ i + 2 \in 1..K /\ (i + 2) - 1 = i + 1
    BY <1>1
  <2>2. h[i+1] = g[i+2]
    BY <1>3, <1>4, <1>8, <2>1
  <2> QED
    BY <1>1, <2>1, <2>2
<1>9. K - 1 \in T
  <2> HIDE DEF T
  <2>1. K - 1 \in Nat
    BY <1>1, <1>6
  <2>2. 0..(K-1) \subseteq T
    BY <1>7, <1>8, <2>1, UpTo
  <2> QED
    BY <2>1, <2>2
<1>10. h[K-1] = g[K]
  BY <1>1, <1>9
<1>11. K \in 1..K
  BY <1>1, <1>6
<1>12. h[K] = h[K-1]
  BY <1>4, <1>5, <1>10, <1>11
<1> QED
  BY <1>2, <1>3, <1>4, <1>10, <1>12 DEF m

\* Folders that have the same links among the names A lead from these to the same ends.
LEMMA EndAgree ==
  ASSUME NEW f, NEW r \in Rank, Rising(f, r), NEW e, Rising(e, r), NEW A \in SUBSET Name,
         \A z \in A : \/ f[z].kind = "link" /\ f[z].to \in A
                         /\ e[z].kind = "link" /\ e[z].to = f[z].to
                      \/ f[z].kind # "link" /\ e[z].kind # "link",
         NEW n \in A
  PROVE  End(e, n) = End(f, n) /\ End(f, n) \in A
<1> DEFINE K == Cardinality(Name)
<1>1. K \in Nat
  BY NameCount
<1>2. n \in Name
  OBVIOUS
<1>3. PICK g \in [0..K -> Name] :
        /\ g[0] = n /\ g[K] = End(f, n)
        /\ \A i \in 1..K : g[i] = IF f[g[i-1]].kind = "link" THEN f[g[i-1]].to ELSE g[i-1]
  BY <1>2, Hops DEF Rising
<1>4. PICK h \in [0..K -> Name] :
        /\ h[0] = n /\ h[K] = End(e, n)
        /\ \A i \in 1..K : h[i] = IF e[h[i-1]].kind = "link" THEN e[h[i-1]].to ELSE h[i-1]
  BY <1>2, Hops DEF Rising
<1> DEFINE T == {i \in 0..K : h[i] = g[i] /\ g[i] \in A}
<1> HIDE DEF K
<1>5. 0 \in T
  BY <1>1, <1>3, <1>4
<1>6. ASSUME NEW i \in 0..(K-1), i \in T PROVE i + 1 \in T
  <2>1. i + 1 \in 1..K /\ (i + 1) - 1 = i
    BY <1>1
  <2>2. h[i+1] = g[i+1] /\ g[i+1] \in A
    BY <1>3, <1>4, <1>6, <2>1
  <2> QED
    BY <2>1, <2>2
<1>7. K \in T
  <2> HIDE DEF T
  <2>1. 0..K \subseteq T
    BY <1>1, <1>5, <1>6, UpTo
  <2> QED
    BY <1>1, <2>1
<1> QED
  BY <1>3, <1>4, <1>7

----------------------------------------------------------------------------
(* Types and control *)

\* The first element and the rest of a sequence.
LEMMA SeqParts ==
  ASSUME NEW S, NEW s \in Seq(S)
  PROVE  /\ Len(s) \in Nat /\ DOMAIN s = 1..Len(s) /\ Range(s) \subseteq S
         /\ \A i \in DOMAIN s : s[i] \in S /\ s[i] \in Range(s)
  BY DEF Range

\* What the entries of a folder are.
LEMMA Entries ==
  ASSUME NEW f \in Folder, NEW n \in Name
  PROVE  /\ f[n].kind \in {"none", "file", "link"}
         /\ f[n].kind = "none" <=> f[n] = Absent
         /\ f[n].kind = "link" => f[n].to \in Name
  BY DEF Folder, Entry, Absent

\* The items that the actions put on the agenda.
LEMMA ItemTypes ==
  ASSUME NEW t \in FileType
  PROVE  /\ \A o \in Dep \union {Project}, k \in 1..MaxDepth : Call(o, t, k) \in Item
         /\ \A d \in Dep, k \in 1..MaxDepth : Visit(d, t, k) \in Item
         /\ \A i \in DOMAIN Modules : Modules[i].dep \in Dep /\ Module(i) \in Item
<1>1. \A o \in Dep \union {Project}, k \in 1..MaxDepth : Call(o, t, k) \in Item
  BY DEF Call, Item
<1>2. \A d \in Dep, k \in 1..MaxDepth : Visit(d, t, k) \in Item
  BY DEF Visit, Item
<1>3. ASSUME NEW i \in DOMAIN Modules PROVE Modules[i].dep \in Dep /\ Module(i) \in Item
  <2>1. Modules[i] \in [name : STRING, dep : Dep, rooted : BOOLEAN]
    BY BundleAssumption, SeqParts
  <2> QED
    BY <2>1 DEF Module, Item, FileType
<1> QED
  BY <1>1, <1>2, <1>3

\* What an item of each kind says.
LEMMA ItemFacts ==
  ASSUME NEW it \in Item
  PROVE  /\ it.is \in {"call", "dependency", "module"} /\ it.type \in FileType
         /\ it.at \in Dep \union {Project}
         /\ it.is = "call" =>
              it.next \in Nat \ {0} /\ it.depth \in 1..MaxDepth
         /\ it.is = "dependency" => it.at \in Dep /\ it.depth \in 1..MaxDepth
         /\ it.is = "module" => it.at \in Dep
  BY DEF Item

\* What is to do first, and what after it.
LEMMA AgendaParts ==
  ASSUME agenda \in Seq(Item), agenda # << >>
  PROVE  /\ First \in Item /\ First \in Range(agenda) /\ Tail(agenda) \in Seq(Item)
         /\ Range(agenda) = {First} \union Range(Tail(agenda))
<1>1. Len(agenda) \in Nat /\ Len(agenda) >= 1 /\ First \in Item /\ Tail(agenda) \in Seq(Item)
  BY DEF First
<1>2. /\ Len(Tail(agenda)) = Len(agenda) - 1
      /\ \A i \in 1..(Len(agenda) - 1) : Tail(agenda)[i] = agenda[i+1]
  BY <1>1
<1>3. DOMAIN agenda = 1..Len(agenda) /\ DOMAIN Tail(agenda) = 1..(Len(agenda) - 1)
  BY <1>1, <1>2
<1>4. ASSUME NEW i \in DOMAIN agenda PROVE agenda[i] \in {First} \union Range(Tail(agenda))
  <2>1. CASE i = 1
    BY <2>1 DEF First
  <2>2. CASE i # 1
    <3>1. i - 1 \in 1..(Len(agenda) - 1) /\ (i - 1) + 1 = i
      BY <1>1, <1>3, <2>2
    <3> QED
      BY <1>2, <1>3, <3>1 DEF Range
  <2> QED
    BY <2>1, <2>2
<1>5. ASSUME NEW i \in DOMAIN Tail(agenda) PROVE Tail(agenda)[i] \in Range(agenda)
  <2>1. i + 1 \in 1..Len(agenda)
    BY <1>1, <1>3
  <2> QED
    BY <1>2, <1>3, <2>1 DEF Range
<1>6. First \in Range(agenda)
  BY <1>1, <1>3 DEF Range, First
<1> QED
  BY <1>1, <1>4, <1>5, <1>6 DEF Range

\* What is in two sequences put together.
LEMMA RangeConcat ==
  ASSUME NEW s \in Seq(Item), NEW t \in Seq(Item)
  PROVE  s \o t \in Seq(Item) /\ Range(s \o t) = Range(s) \union Range(t)
<1>1. /\ s \o t \in Seq(Item) /\ Len(s \o t) = Len(s) + Len(t)
      /\ \A i \in 1..(Len(s) + Len(t)) :
           (s \o t)[i] = IF i <= Len(s) THEN s[i] ELSE t[i - Len(s)]
  OBVIOUS
<1>2. /\ DOMAIN (s \o t) = 1..(Len(s) + Len(t)) /\ DOMAIN s = 1..Len(s) /\ DOMAIN t = 1..Len(t)
      /\ Len(s) \in Nat /\ Len(t) \in Nat
  BY <1>1
<1>3. ASSUME NEW i \in DOMAIN (s \o t) PROVE (s \o t)[i] \in Range(s) \union Range(t)
  <2>1. CASE i <= Len(s)
    BY <1>1, <1>2, <2>1 DEF Range
  <2>2. CASE ~(i <= Len(s))
    <3>1. i - Len(s) \in DOMAIN t
      BY <1>2, <2>2
    <3> QED
      BY <1>1, <1>2, <2>2, <3>1 DEF Range
  <2> QED
    BY <2>1, <2>2
<1>4. ASSUME NEW i \in DOMAIN s PROVE s[i] \in Range(s \o t)
  <2>1. i \in 1..(Len(s) + Len(t)) /\ i <= Len(s)
    BY <1>2
  <2> QED
    BY <1>1, <1>2, <2>1 DEF Range
<1>5. ASSUME NEW i \in DOMAIN t PROVE t[i] \in Range(s \o t)
  <2>1. i + Len(s) \in 1..(Len(s) + Len(t)) /\ ~(i + Len(s) <= Len(s)) /\ (i + Len(s)) - Len(s) = i
    BY <1>2
  <2>2. (s \o t)[i + Len(s)] = t[i]
    BY <1>1, <2>1
  <2> QED
    BY <1>2, <2>1, <2>2 DEF Range
<1> QED
  BY <1>1, <1>3, <1>4, <1>5 DEF Range

\* The dependency file a call is at.
LEMMA FileTypes ==
  ASSUME NEW o \in Dep \union {Project}, NEW t \in FileType
  PROVE  /\ Len(Files[o][t]) \in Nat /\ DOMAIN Files[o][t] = 1..Len(Files[o][t])
         /\ \A i \in DOMAIN Files[o][t] :
              /\ Files[o][t][i].valid \in BOOLEAN
              /\ Files[o][t][i].deps \in Seq(Dep)
              /\ Range(Files[o][t][i].deps) \subseteq LinesOf(o, t)
              /\ Range(Files[o][t][i].deps) \subseteq Dep
<1> DEFINE File == [valid : BOOLEAN, deps : Seq(Dep)]
<1>1. Files[o][t] \in Seq(File)
  BY BundleAssumption
<1>2. ASSUME NEW i \in DOMAIN Files[o][t]
      PROVE  /\ Files[o][t][i].valid \in BOOLEAN
             /\ Files[o][t][i].deps \in Seq(Dep)
             /\ Range(Files[o][t][i].deps) \subseteq LinesOf(o, t)
             /\ Range(Files[o][t][i].deps) \subseteq Dep
  <2>1. Files[o][t][i] \in File /\ Files[o][t][i] \in Range(Files[o][t])
    <3> HIDE DEF File
    <3> QED
      BY <1>1, SeqParts
  <2>2. Range(Files[o][t][i].deps) \subseteq Dep
    BY <2>1, SeqParts
  <2> QED
    BY <2>1, <2>2 DEF LinesOf
<1>3. Len(Files[o][t]) \in Nat /\ DOMAIN Files[o][t] = 1..Len(Files[o][t])
  <2> HIDE DEF File
  <2> QED
    BY <1>1, SeqParts
<1> QED
  BY <1>2, <1>3

\* A call whose next file is read: the file's lines are to be visited first.
LEMMA AgendaRead ==
  ASSUME TypeOK, bundleDependencies, Files[First.at][First.type][First.next].valid
  PROVE  /\ agenda' \in Seq(Item)
         /\ Range(agenda') =
              {Visit(d, First.type, First.depth) :
                 d \in Range(Files[First.at][First.type][First.next].deps)}
              \union {[First EXCEPT !.next = @ + 1]} \union Range(Tail(agenda))
<1> DEFINE deps == Files[First.at][First.type][First.next].deps
           lines == [i \in DOMAIN deps |-> Visit(deps[i], First.type, First.depth)]
           rest == [First EXCEPT !.next = @ + 1]
<1>1. agenda \in Seq(Item) /\ agenda # << >>
  BY DEF TypeOK, bundleDependencies, At
<1>2. First \in Item /\ Tail(agenda) \in Seq(Item)
  BY <1>1, AgendaParts
<1>3. First.at \in Dep \union {Project} /\ First.type \in FileType /\ First.next \in Nat \ {0}
      /\ First.depth \in 1..MaxDepth /\ First.is = "call"
  BY <1>2, ItemFacts DEF bundleDependencies, At
<1>4. First.next \in DOMAIN Files[First.at][First.type]
  <2>1. First.next <= Len(Files[First.at][First.type])
    BY DEF bundleDependencies
  <2>2. /\ Len(Files[First.at][First.type]) \in Nat
        /\ DOMAIN Files[First.at][First.type] = 1..Len(Files[First.at][First.type])
    BY <1>3, FileTypes
  <2> QED
    BY <1>3, <2>1, <2>2
<1>5. deps \in Seq(Dep)
  BY <1>3, <1>4, FileTypes
<1>6. lines \in Seq(Item) /\ Range(lines) = {Visit(d, First.type, First.depth) : d \in Range(deps)}
  <2>1. DOMAIN deps = 1..Len(deps) /\ Len(deps) \in Nat /\ \A i \in DOMAIN deps : deps[i] \in Dep
    BY <1>5, SeqParts
  <2>2. \A d \in Dep : Visit(d, First.type, First.depth) \in Item
    BY <1>3, ItemTypes
  <2>3. lines \in [1..Len(deps) -> Item]
    BY <2>1, <2>2
  <2> HIDE DEF deps
  <2>4. lines \in Seq(Item)
    <3> HIDE DEF lines
    <3> QED
      BY <2>1, <2>3
  <2>5. Range(lines) = {Visit(d, First.type, First.depth) : d \in Range(deps)}
    BY DEF Range
  <2> QED
    BY <2>4, <2>5
<1>7. <<rest>> \in Seq(Item) /\ Range(<<rest>>) = {rest}
  <2>1. rest \in Item
    BY <1>2, <1>3 DEF Item
  <2> HIDE DEF rest
  <2>2. <<rest>> \in Seq(Item) /\ DOMAIN <<rest>> = {1}
    BY <2>1
  <2> QED
    BY <2>2 DEF Range
<1>8. agenda' = lines \o <<rest>> \o Tail(agenda)
  BY DEF bundleDependencies
<1> HIDE DEF lines, rest
<1>9. lines \o <<rest>> \in Seq(Item) /\ Range(lines \o <<rest>>) = Range(lines) \union {rest}
  BY <1>6, <1>7, RangeConcat
<1>10. /\ (lines \o <<rest>>) \o Tail(agenda) \in Seq(Item)
       /\ Range((lines \o <<rest>>) \o Tail(agenda)) =
            Range(lines \o <<rest>>) \union Range(Tail(agenda))
  BY <1>2, <1>9, RangeConcat
<1> QED
  BY <1>6, <1>8, <1>9, <1>10 DEF rest

\* The parts of a pair.
LEMMA Pairs ==
  ASSUME NEW a \in Item
  PROVE  /\ <<a>> \in Seq(Item) /\ Range(<<a>>) = {a}
         /\ \A b \in Item : <<a, b>> \in Seq(Item) /\ Range(<<a, b>>) = {a, b}
<1>1. <<a>> \in Seq(Item) /\ DOMAIN <<a>> = {1}
  OBVIOUS
<1>2. Range(<<a>>) = {a}
  BY <1>1 DEF Range
<1>3. ASSUME NEW b \in Item PROVE <<a, b>> \in Seq(Item) /\ Range(<<a, b>>) = {a, b}
  <2>1. <<a, b>> \in Seq(Item) /\ DOMAIN <<a, b>> = {1, 2}
    OBVIOUS
  <2> QED
    BY <2>1 DEF Range
<1> QED
  BY <1>1, <1>2, <1>3

\* The empty agenda.
LEMMA NoItems == << >> \in Seq(Item) /\ Range(<< >>) = {}
<1>1. << >> \in Seq(Item) /\ DOMAIN << >> = {}
  OBVIOUS
<1> QED
  BY <1>1 DEF Range

\* The calls for the dependencies of a package that was copied.
LEMMA RecursionCalls ==
  ASSUME NEW d \in Dep, NEW t \in FileType, NEW k \in Nat \ {0}
  PROVE  \/ Recursion(d, t, k) = << >> /\ ~(Type[d] = "REMAKEN" /\ cmd.recurse)
         \/ k \in 1..MaxDepth =>
              /\ Recursion(d, t, k) \in Seq(Item)
              /\ Call(d, "EXTRA_DEPS", k) \in Range(Recursion(d, t, k))
              /\ t = "PACKAGE" /\ d \notin Static => Call(d, t, k) \in Range(Recursion(d, t, k))
<1>1. CASE Type[d] # "REMAKEN" \/ ~cmd.recurse
  BY <1>1 DEF Recursion
<1>2. ASSUME Type[d] = "REMAKEN", cmd.recurse, k \in 1..MaxDepth
      PROVE  /\ Recursion(d, t, k) \in Seq(Item)
             /\ Call(d, "EXTRA_DEPS", k) \in Range(Recursion(d, t, k))
             /\ t = "PACKAGE" /\ d \notin Static => Call(d, t, k) \in Range(Recursion(d, t, k))
  <2>1. Call(d, "EXTRA_DEPS", k) \in Item /\ Call(d, t, k) \in Item
    BY <1>2, ItemTypes DEF FileType
  <2>2. CASE t = "EXTRA_DEPS" \/ d \in Static
    <3>1. Recursion(d, t, k) = <<Call(d, "EXTRA_DEPS", k)>>
      BY <1>2, <2>2 DEF Recursion
    <3> QED
      BY <2>1, <2>2, <3>1, Pairs
  <2>3. CASE ~(t = "EXTRA_DEPS" \/ d \in Static)
    <3>1. Recursion(d, t, k) = <<Call(d, "EXTRA_DEPS", k), Call(d, t, k)>>
      BY <1>2, <2>3 DEF Recursion
    <3>2. /\ <<Call(d, "EXTRA_DEPS", k), Call(d, t, k)>> \in Seq(Item)
          /\ Range(<<Call(d, "EXTRA_DEPS", k), Call(d, t, k)>>) =
               {Call(d, "EXTRA_DEPS", k), Call(d, t, k)}
      BY <2>1, Pairs
    <3> QED
      BY <3>1, <3>2
  <2> QED
    BY <2>2, <2>3
<1> QED
  BY <1>1, <1>2

\* What copying goes with.
ControlInv ==
  /\ pc \notin {"bundle", "modules"} => agenda = << >> /\ ~copying
  /\ copying =>
       /\ agenda # << >> /\ First.is \in {"dependency", "module"}
       /\ First.is = "dependency" => Type[First.at] = "REMAKEN" /\ First.at \notin Ignored
       /\ left \subseteq FilesOf(lib[First.at]) \union LinksOf(lib[First.at])
  /\ outcome # "none" <=> pc = "done"
  /\ pc \in {"config", "modules"} => cmd.xpcf
  /\ pc = "idle" => bundled = {}
  /\ \A b \in bundled : b[2] \in Libraries(b[1])

\* What is to do after a package is copied.
LEMMA AgendaCopied ==
  ASSUME TypeOK, ControlInv, copied, pc' # "done"
  PROVE  /\ agenda' \in Seq(Item) /\ First \in Item /\ First.at \in Dep /\ agenda # << >>
         /\ Range(agenda) = {First} \union Range(Tail(agenda))
         /\ Range(Tail(agenda)) \subseteq Range(agenda')
         /\ First.is = "dependency" /\ cmd.recurse /\ Type[First.at] = "REMAKEN" =>
              \E k \in 1..MaxDepth :
                /\ Call(First.at, "EXTRA_DEPS", k) \in Range(agenda')
                /\ First.type = "PACKAGE" /\ First.at \notin Static =>
                     Call(First.at, First.type, k) \in Range(agenda')
<1> DEFINE k == First.depth + 1
           calls == IF First.is = "module" THEN << >> ELSE Recursion(First.at, First.type, k)
<1>1. agenda \in Seq(Item) /\ agenda # << >> /\ First.is \in {"dependency", "module"}
  BY DEF TypeOK, ControlInv, copied
<1>2. /\ First \in Item /\ Tail(agenda) \in Seq(Item)
      /\ Range(agenda) = {First} \union Range(Tail(agenda))
  BY <1>1, AgendaParts
<1>3. First.at \in Dep /\ First.type \in FileType
  BY <1>1, <1>2, ItemFacts
<1>4. First.is = "dependency" => First.depth \in 1..MaxDepth
  BY <1>2, ItemFacts
<1>5. (calls = << >> \/ ~StackFull) /\ agenda' = calls \o Tail(agenda)
  BY DEF copied, Finish
<1>6. CASE calls = << >>
  <2>1. agenda' = Tail(agenda)
    BY <1>2, <1>5, <1>6
  <2>2. ~(First.is = "dependency" /\ cmd.recurse /\ Type[First.at] = "REMAKEN")
    <3> SUFFICES ASSUME First.is = "dependency", cmd.recurse, Type[First.at] = "REMAKEN"
                 PROVE  calls # << >>
      BY <1>6
    <3> QED
      BY DEF Recursion
  <2> QED
    BY <1>1, <1>2, <1>3, <2>1, <2>2
<1>7. CASE calls # << >>
  <2>1. First.is = "dependency" /\ ~StackFull
    BY <1>1, <1>5, <1>7
  <2>2. k \in 1..MaxDepth
    BY <1>4, <2>1, BundleAssumption DEF StackFull
  <2>3. calls = Recursion(First.at, First.type, k)
    BY <2>1
  <2> HIDE DEF k
  <2>4. k \in Nat \ {0}
    BY <2>2
  <2>5. /\ calls \in Seq(Item)
        /\ Call(First.at, "EXTRA_DEPS", k) \in Range(calls)
        /\ First.type = "PACKAGE" /\ First.at \notin Static =>
             Call(First.at, First.type, k) \in Range(calls)
    BY <1>3, <1>7, <2>2, <2>3, <2>4, RecursionCalls
  <2> HIDE DEF calls
  <2>6. agenda' \in Seq(Item) /\ Range(agenda') = Range(calls) \union Range(Tail(agenda))
    BY <1>2, <1>5, <2>5, RangeConcat
  <2> QED
    BY <1>1, <1>2, <1>3, <2>2, <2>5, <2>6
<1> QED
  BY <1>6, <1>7

\* The modules that are to be copied, in any order, and then their packages' dependencies.
LEMMA AgendaModules ==
  ASSUME bundleXpcf, config # "alien"
  PROVE  /\ agenda' \in Seq(Item)
         /\ \A i \in declareModules : Module(i) \in Range(agenda')
<1> DEFINE n == Cardinality(declareModules)
           mods(o) == [i \in DOMAIN o |-> Module(o[i])]
           files(o) == [i \in DOMAIN o |-> DependenciesOfModule(o[i])]
<1>1. declareModules \subseteq DOMAIN Modules
  BY DEF declareModules, Declared
<1>2. IsFiniteSet(declareModules) /\ n \in Nat
  <2>1. DOMAIN Modules = 1..Len(Modules) /\ Len(Modules) \in Nat
    BY BundleAssumption, SeqParts
  <2>2. IsFiniteSet(DOMAIN Modules)
    BY <2>1, FS_Interval
  <2> QED
    BY <1>1, <2>2, FS_Subset, FS_CardinalityType
<1>3. PICK o \in SetToSeqs(declareModules) : agenda' = mods(o) \o files(o)
  BY DEF bundleXpcf
<1>4. o \in [1..n -> declareModules] /\ \A i, j \in 1..n : i # j => o[i] # o[j]
  BY DEF SetToSeqs
<1>5. \A m \in declareModules : \E i \in 1..n : o[i] = m
  <2>1. o \in Injection(1..n, declareModules)
    BY <1>4 DEF Injection, IsInjective
  <2>2. Cardinality(1..n) = n
    BY <1>2, FS_Interval
  <2>3. o \in Surjection(1..n, declareModules)
    BY <1>2, <2>1, <2>2, FS_Injection
  <2> QED
    BY <2>3 DEF Surjection
<1>6. \A i \in 1..n : Module(o[i]) \in Item /\ DependenciesOfModule(o[i]) \in Item
  <2> SUFFICES ASSUME NEW i \in 1..n
               PROVE  Module(o[i]) \in Item /\ DependenciesOfModule(o[i]) \in Item
    OBVIOUS
  <2>1. o[i] \in DOMAIN Modules
    BY <1>1, <1>4
  <2>2. "PACKAGE" \in FileType /\ 1 \in 1..MaxDepth
    BY BundleAssumption DEF FileType
  <2>3. Modules[o[i]].dep \in Dep /\ Module(o[i]) \in Item
    BY <2>1, <2>2, ItemTypes
  <2> QED
    BY <2>2, <2>3, ItemTypes DEF DependenciesOfModule
<1> HIDE DEF n
<1>7. mods(o) \in [1..n -> Item] /\ files(o) \in [1..n -> Item]
  BY <1>4, <1>6
<1>8. mods(o) \in Seq(Item) /\ files(o) \in Seq(Item)
  <2> HIDE DEF mods, files
  <2> QED
    BY <1>2, <1>7
<1>9. ASSUME NEW m \in declareModules PROVE Module(m) \in Range(mods(o))
  <2>1. PICK i \in 1..n : o[i] = m
    BY <1>5
  <2>2. mods(o)[i] = Module(m) /\ i \in DOMAIN mods(o)
    BY <1>4, <2>1
  <2> QED
    BY <2>2 DEF Range
<1> HIDE DEF mods, files
<1>10. agenda' \in Seq(Item) /\ Range(agenda') = Range(mods(o)) \union Range(files(o))
  BY <1>3, <1>8, RangeConcat
<1> QED
  BY <1>9, <1>10

\* The releases that are installed.
LEMMA InstalledFolders ==
  ASSUME TypeOK, NEW d \in Dep
  PROVE  lib[d] \in Folder /\ \A n \in Name : lib[d][n] \in Entry
  BY BundleAssumption DEF TypeOK, Folder

\* What the end of a command leaves.
LEMMA FinishTypes ==
  ASSUME NEW result \in {"ok", "failed", "killed"}, Finish(result)
  PROVE  /\ pc' = "done" /\ outcome' = result /\ agenda' = << >>
         /\ agenda' \in Seq(Item) /\ left' = {} /\ copying' = FALSE
  BY NoItems DEF Finish

\* What an error leaves: bundleXpcf goes on to its configuration.
LEMMA FailTypes ==
  ASSUME TypeOK, Fail
  PROVE  /\ pc' \in {"config", "done"} /\ agenda' = << >> /\ agenda' \in Seq(Item)
         /\ left' = {} /\ copying' = FALSE
         /\ pc' = "config" => outcome' = outcome /\ pc = "bundle" /\ cmd.xpcf
         /\ pc' = "done" => outcome' = "failed"
  BY NoItems DEF Fail, Finish

\* Every step keeps the types.
LEMMA TypesKept ==
  ASSUME TypeOK, ControlInv, [Next]_vars
  PROVE  TypeOK'
<1> USE DEF TypeOK
<1>1. CASE bundle
  <2>1. Call(Project, "EXTRA_DEPS", 1) \in Item /\ Call(Project, "PACKAGE", 1) \in Item
    <3>1. 1 \in 1..MaxDepth /\ "PACKAGE" \in FileType /\ "EXTRA_DEPS" \in FileType
      BY BundleAssumption DEF FileType
    <3> QED
      BY <3>1, ItemTypes
  <2>2. agenda' \in Seq(Item)
    BY <1>1, <2>1, Pairs DEF bundle
  <2>3. cmd' \in Command
    BY <1>1, BundleAssumption DEF bundle
  <2>4. config' \in Config
    BY <1>1 DEF bundle, Config
  <2> QED
    BY <1>1, <2>2, <2>3, <2>4 DEF bundle
<1>2. CASE bundleDependencies
  <2>1. CASE Files[First.at][First.type][First.next].valid
    BY <1>2, <2>1, AgendaRead DEF bundleDependencies, command
  <2>2. CASE ~Files[First.at][First.type][First.next].valid
    <3>1. Fail /\ UNCHANGED <<lib, dest, paths, command, bundled>>
      BY <1>2, <2>2 DEF bundleDependencies
    <3> QED
      BY <3>1, FailTypes DEF command
  <2> QED
    BY <2>1, <2>2
<1>3. CASE returns \/ ignoreDependency
  <2>1. agenda' \in Seq(Item)
    BY <1>3, AgendaParts DEF returns, ignoreDependency, At
  <2> QED
    BY <1>3, <2>1 DEF returns, ignoreDependency, command
<1>4. CASE bundleByTool \/ withoutLibrary \/ withoutModule
  <2>1. \/ Fail
        \/ agenda # << >> /\ agenda' = Tail(agenda) /\ UNCHANGED <<pc, left, copying, outcome>>
    BY <1>4 DEF bundleByTool, withoutLibrary, withoutModule, ToBundle, At
  <2>2. UNCHANGED <<lib, dest, paths, command, bundled>>
    BY <1>4 DEF bundleByTool, withoutLibrary, withoutModule
  <2>3. CASE Fail
    BY <2>2, <2>3, FailTypes DEF command
  <2>4. CASE agenda # << >> /\ agenda' = Tail(agenda) /\ UNCHANGED <<pc, left, copying, outcome>>
    BY <2>2, <2>4, AgendaParts DEF command
  <2> QED
    BY <2>1, <2>3, <2>4
<1>5. CASE copyLibraries
  BY <1>5 DEF copyLibraries, command, FilesOf, LinksOf
<1>6. CASE copyFile
  <2>1. First.at \in Dep
    BY <1>6, AgendaParts, ItemFacts DEF copyFile, ControlInv
  <2>2. PICK n \in left : /\ left' = left \ {n}
                          /\ \/ /\ dest' = CopyFile(dest, n, lib[First.at][n])
                                /\ bundled' = bundled \union {<<First.at, n>>}
                             \/ UNCHANGED <<dest, bundled>>
    BY <1>6 DEF copyFile
  <2>3. lib[First.at][n] \in Entry
    BY <2>1, InstalledFolders
  <2>4. dest' \in Folder
    BY <2>2, <2>3 DEF CopyFile, Folder
  <2>5. bundled' \subseteq Dep \X Name
    BY <2>1, <2>2
  <2> QED
    BY <1>6, <2>2, <2>4, <2>5 DEF copyFile, command
<1>7. CASE copyLink
  <2>1. First.at \in Dep
    BY <1>7, AgendaParts, ItemFacts DEF copyLink, ControlInv
  <2>2. PICK n \in left :
          \/ Fail /\ UNCHANGED <<dest, bundled>>
          \/ /\ left' = left \ {n} /\ UNCHANGED <<dest, bundled, pc, agenda, copying, outcome>>
          \/ /\ left' = left \ {n}
             /\ dest' = CopyLink(dest, n, lib[First.at][n])
             /\ bundled' = bundled \union {<<First.at, n>>}
             /\ UNCHANGED <<pc, agenda, copying, outcome>>
    BY <1>7 DEF copyLink
  <2>3. lib[First.at][n] \in Entry
    BY <2>1, InstalledFolders
  <2>4. UNCHANGED <<lib, paths, command>>
    BY <1>7 DEF copyLink
  <2>5. CASE Fail /\ UNCHANGED <<dest, bundled>>
    BY <2>4, <2>5, FailTypes DEF command
  <2>6. CASE left' = left \ {n} /\ UNCHANGED <<dest, bundled, pc, agenda, copying, outcome>>
    BY <2>4, <2>6 DEF command
  <2>7. CASE /\ left' = left \ {n}
             /\ dest' = CopyLink(dest, n, lib[First.at][n])
             /\ bundled' = bundled \union {<<First.at, n>>}
             /\ UNCHANGED <<pc, agenda, copying, outcome>>
    <3>1. dest' \in Folder
      BY <2>3, <2>7 DEF CopyLink, Folder
    <3>2. bundled' \subseteq Dep \X Name
      BY <2>1, <2>7
    <3> QED
      BY <2>4, <2>7, <3>1, <3>2 DEF command
  <2> QED
    BY <2>2, <2>5, <2>6, <2>7
<1>8. CASE copied
  <2>1. CASE pc' = "done"
    <3>1. agenda' \in Seq(Item) /\ left' \subseteq Name /\ outcome' \in {"none", "ok", "failed", "killed"}
      BY <1>8, <2>1, NoItems DEF copied, Finish, ControlInv
    <3> QED
      BY <1>8, <2>1, <3>1 DEF copied, command
  <2>2. CASE pc' # "done"
    <3>1. agenda' \in Seq(Item)
      BY <1>8, <2>2, AgendaCopied
    <3> QED
      BY <1>8, <2>2, <3>1 DEF copied, command, Finish
  <2> QED
    BY <2>1, <2>2
<1>9. CASE bundleDone
  BY <1>9, NoItems DEF bundleDone, command, Finish
<1>10. CASE bundleXpcf
  <2>1. CASE config = "alien"
    BY <1>10, <2>1, NoItems DEF bundleXpcf, command, Finish
  <2>2. CASE config # "alien"
    <3>1. agenda' \in Seq(Item)
      BY <1>10, <2>2, AgendaModules
    <3> QED
      BY <1>10, <2>2, <3>1 DEF bundleXpcf, command, newPaths
  <2> QED
    BY <2>1, <2>2
<1>11. CASE exit
  BY <1>11 DEF exit, Command, Config, NoCommand
<1>12. CASE kill
  BY <1>12, FinishTypes DEF kill, command
<1>13. CASE upgrade
  BY <1>13 DEF upgrade, command
<1>14. CASE UNCHANGED vars
  BY <1>14 DEF vars
<1> QED
  BY <1>1, <1>2, <1>3, <1>4, <1>5, <1>6, <1>7, <1>8, <1>9, <1>10, <1>11, <1>12, <1>13, <1>14
     DEF Next, Step

\* Every step keeps what copying goes with.
LEMMA ControlKept ==
  ASSUME TypeOK, ControlInv, [Next]_vars
  PROVE  ControlInv'
<1> USE DEF ControlInv
<1>a. ASSUME UNCHANGED <<lib, bundled>>
      PROVE  \A b \in bundled' : b[2] \in Libraries(b[1])'
  BY <1>a DEF Libraries
<1>b. ASSUME Fail, pc \in {"bundle", "modules"}, UNCHANGED <<lib, cmd, bundled>> PROVE ControlInv'
  BY <1>a, <1>b, FailTypes
<1>c. ASSUME NEW result \in {"ok", "failed", "killed"}, Finish(result), UNCHANGED <<lib, cmd, bundled>>
      PROVE  ControlInv'
  BY <1>a, <1>c, FinishTypes
<1>1. CASE bundle
  BY <1>1, <1>a DEF bundle
<1>2. CASE bundleDependencies \/ returns \/ ignoreDependency \/ bundleByTool \/ withoutLibrary
  <2>1. ~copying /\ pc \in {"bundle", "modules"} /\ UNCHANGED <<lib, cmd, bundled>>
    BY <1>2 DEF bundleDependencies, returns, ignoreDependency, bundleByTool, withoutLibrary,
                ToBundle, At, command
  <2>2. Fail \/ UNCHANGED <<pc, copying, outcome>>
    BY <1>2 DEF bundleDependencies, returns, ignoreDependency, bundleByTool, withoutLibrary
  <2> QED
    BY <1>a, <1>b, <2>1, <2>2
<1>3. CASE copyLibraries
  <2>1. /\ pc \in {"bundle", "modules"} /\ agenda # << >> /\ First.is \in {"dependency", "module"}
        /\ First.is = "dependency" => Type[First.at] = "REMAKEN" /\ First.at \notin Ignored
    BY <1>3 DEF copyLibraries, ToBundle, At, command
  <2>2. UNCHANGED <<lib, dest, paths, pc, command, agenda, outcome, bundled>>
    BY <1>3 DEF copyLibraries
  <2>3. First' = First /\ Ignored' = Ignored
    BY <2>2 DEF First, Ignored
  <2>4. left' = FilesOf(lib'[First'.at]) \union LinksOf(lib'[First'.at])
    BY <1>3, <2>2, <2>3 DEF copyLibraries
  <2> QED
    BY <1>a, <2>1, <2>2, <2>3, <2>4 DEF command
<1>4. CASE withoutModule
  BY <1>4, <1>b DEF withoutModule, At, command
<1>5. CASE copyFile
  <2>1. PICK n \in left \intersect FilesOf(lib[First.at]) :
          /\ left' = left \ {n}
          /\ IF IsLibrary(n)
             THEN bundled' = bundled \union {<<First.at, n>>}
             ELSE UNCHANGED bundled
    BY <1>5 DEF copyFile
  <2>2. UNCHANGED <<lib, paths, pc, command, agenda, copying, outcome>> /\ copying
    BY <1>5 DEF copyFile
  <2>3. First' = First /\ Ignored' = Ignored /\ \A d \in Dep : Libraries(d)' = Libraries(d)
    BY <2>2 DEF First, Ignored, Libraries
  <2>4. IsLibrary(n) => n \in Libraries(First.at)
    BY <2>1 DEF IsLibrary, Libraries, FilesOf, Absent
  <2>5. First.at \in Dep
    BY <2>2, AgendaParts, ItemFacts DEF TypeOK
  <2>6. \A b \in bundled' : b[2] \in Libraries(b[1])'
    BY <2>1, <2>3, <2>4, <2>5 DEF TypeOK
  <2> QED
    BY <2>1, <2>2, <2>3, <2>6 DEF command
<1>6. CASE copyLink
  <2>1. PICK n \in left :
          \/ Fail /\ UNCHANGED bundled
          \/ /\ left' = left \ {n} /\ UNCHANGED <<pc, agenda, copying, outcome>>
             /\ IF IsLibrary(n)
                THEN bundled' = bundled \union {<<First.at, n>>}
                ELSE UNCHANGED bundled
    BY <1>6 DEF copyLink
  <2>2. UNCHANGED <<lib, paths, command>> /\ copying
    BY <1>6 DEF copyLink
  <2>3. CASE Fail /\ UNCHANGED bundled
    BY <1>b, <2>2, <2>3 DEF command
  <2>4. CASE /\ left' = left \ {n} /\ UNCHANGED <<pc, agenda, copying, outcome>>
             /\ IF IsLibrary(n)
                THEN bundled' = bundled \union {<<First.at, n>>}
                ELSE UNCHANGED bundled
    <3>1. First' = First /\ Ignored' = Ignored /\ \A d \in Dep : Libraries(d)' = Libraries(d)
      BY <2>2, <2>4 DEF First, Ignored, Libraries
    <3>2. First.at \in Dep
      BY <2>2, AgendaParts, ItemFacts DEF TypeOK
    <3>3. IsLibrary(n) => n \in Libraries(First.at)
      BY <2>2 DEF IsLibrary, Libraries, FilesOf, LinksOf, Absent
    <3>4. \A b \in bundled' : b[2] \in Libraries(b[1])'
      BY <2>4, <3>1, <3>2, <3>3 DEF TypeOK
    <3> QED
      BY <2>2, <2>4, <3>1, <3>4 DEF command
  <2> QED
    BY <2>1, <2>3, <2>4
<1>7. CASE copied
  <2>1. UNCHANGED <<lib, cmd, bundled>> /\ pc \in {"bundle", "modules"} /\ copying' = FALSE
    BY <1>7 DEF copied, command
  <2>2. Finish("killed") \/ UNCHANGED <<pc, outcome>>
    BY <1>7 DEF copied, command
  <2> QED
    BY <1>a, <1>c, <2>1, <2>2
<1>8. CASE bundleDone
  <2>1. UNCHANGED <<lib, cmd, bundled>> /\ pc \in {"bundle", "modules"} /\ agenda = << >>
    BY <1>8 DEF bundleDone, command
  <2>2. Finish("ok") \/ (pc' = "config" /\ cmd.xpcf /\ UNCHANGED <<agenda, copying, outcome>>)
    BY <1>8 DEF bundleDone, command
  <2> QED
    BY <1>a, <1>c, <2>1, <2>2
<1>9. CASE bundleXpcf
  <2>1. UNCHANGED <<lib, cmd, bundled>> /\ pc = "config"
    BY <1>9 DEF bundleXpcf, command
  <2>2. Finish("failed") \/ (pc' = "modules" /\ UNCHANGED <<copying, outcome>>)
    BY <1>9 DEF bundleXpcf, command
  <2> QED
    BY <1>a, <1>c, <2>1, <2>2
<1>10. CASE exit
  BY <1>10 DEF exit
<1>11. CASE kill
  BY <1>11, <1>c DEF kill, command
<1>12. CASE upgrade
  <2>1. bundled' = {}
    BY <1>12 DEF upgrade
  <2> QED
    BY <1>12, <2>1 DEF upgrade
<1>13. CASE UNCHANGED vars
  <2>1. First' = First /\ Ignored' = Ignored
    BY <1>13 DEF First, Ignored, vars
  <2> QED
    BY <1>13, <1>a, <2>1 DEF vars
<1> QED
  BY <1>1, <1>2, <1>3, <1>4, <1>5, <1>6, <1>7, <1>8, <1>9, <1>10, <1>11, <1>12, <1>13
     DEF Next, Step

\* Nothing runs at first.
LEMMA BundleInit == Init => TypeOK /\ ControlInv
<1> SUFFICES ASSUME Init PROVE TypeOK /\ ControlInv
  OBVIOUS
<1>1. dest \in Folder
  BY DEF Init, NoFolder, Folder, Entry
<1>2. cmd \in Command /\ config \in Config
  BY DEF Init, NoCommand, Command, Config
<1> QED
  BY <1>1, <1>2, NoItems DEF Init, TypeOK, ControlInv

\* Every variable of Bundle stays in its domain.
THEOREM BundleTypeCorrect == Spec => []TypeOK
<1>1. TypeOK /\ ControlInv /\ [Next]_vars => (TypeOK /\ ControlInv)'
  BY TypesKept, ControlKept
<1> QED
  BY <1>1, BundleInit, PTL DEF Spec

----------------------------------------------------------------------------
(* The destination *)

\* What a step copies, if anything.
LEMMA CopySteps ==
  ASSUME TypeOK, ControlInv, copyFile \/ copyLink
  PROVE  /\ First.at \in Dep /\ copying /\ pc \in {"bundle", "modules"}
         /\ lib[First.at] \in Folder /\ lib[First.at] \in Releases[First.at]
         /\ UNCHANGED <<lib, paths, command>>
         /\ \/ Fail /\ UNCHANGED <<dest, bundled>>
            \/ /\ UNCHANGED <<pc, agenda, copying, outcome>> /\ First' = First
               /\ \E n \in left : /\ left' = left \ {n}
                                  /\ n \notin Suffixed
                                  /\ UNCHANGED <<dest, bundled>>
            \/ /\ UNCHANGED <<pc, agenda, copying, outcome>> /\ First' = First
               /\ \E n \in left \intersect Suffixed :
                    /\ left' = left \ {n}
                    /\ bundled' = bundled \union {<<First.at, n>>}
                    /\ \/ /\ lib[First.at][n].kind = "file"
                          /\ dest' = CopyFile(dest, n, lib[First.at][n])
                       \/ /\ left \intersect FilesOf(lib[First.at]) = {}
                          /\ lib[First.at][n].kind = "link" /\ dest[n].kind # "file"
                          /\ dest' = CopyLink(dest, n, lib[First.at][n])
<1>1. copying /\ agenda # << >> /\ First.is \in {"dependency", "module"}
      /\ pc \in {"bundle", "modules"}
      /\ left \subseteq FilesOf(lib[First.at]) \union LinksOf(lib[First.at])
  BY DEF ControlInv, copyFile, copyLink
<1>2. First.at \in Dep
  BY <1>1, AgendaParts, ItemFacts DEF TypeOK
<1>3. lib[First.at] \in Folder /\ lib[First.at] \in Releases[First.at]
  BY <1>2, InstalledFolders DEF TypeOK
<1>4. CASE copyFile
  <2>1. /\ UNCHANGED <<lib, paths, command>>
        /\ UNCHANGED <<pc, agenda, copying, outcome>> /\ First' = First
    BY <1>4 DEF copyFile, First
  <2>2. PICK n \in left \intersect FilesOf(lib[First.at]) :
          /\ left' = left \ {n}
          /\ IF IsLibrary(n)
             THEN /\ dest' = CopyFile(dest, n, lib[First.at][n])
                  /\ bundled' = bundled \union {<<First.at, n>>}
             ELSE UNCHANGED <<dest, bundled>>
    BY <1>4 DEF copyFile
  <2>3. lib[First.at][n].kind = "file" /\ n \in left
    BY <2>2 DEF FilesOf
  <2>4. CASE n \in Suffixed
    BY <1>1, <1>2, <1>3, <2>1, <2>2, <2>3, <2>4 DEF IsLibrary
  <2>5. CASE n \notin Suffixed
    BY <1>1, <1>2, <1>3, <2>1, <2>2, <2>3, <2>5 DEF IsLibrary
  <2> QED
    BY <2>4, <2>5
<1>5. CASE copyLink
  <2>1. UNCHANGED <<lib, paths, command>> /\ left \intersect FilesOf(lib[First.at]) = {}
    BY <1>5 DEF copyLink
  <2>2. PICK n \in left :
          IF ~IsLibrary(n)
          THEN left' = left \ {n} /\ UNCHANGED <<dest, bundled, pc, agenda, copying, outcome>>
          ELSE IF dest[n].kind = "file"
          THEN Fail /\ UNCHANGED <<dest, bundled>>
          ELSE /\ left' = left \ {n}
               /\ dest' = CopyLink(dest, n, lib[First.at][n])
               /\ bundled' = bundled \union {<<First.at, n>>}
               /\ UNCHANGED <<pc, agenda, copying, outcome>>
    BY <1>5 DEF copyLink
  <2>3. lib[First.at][n].kind = "link"
    BY <1>1, <2>1 DEF FilesOf, LinksOf
  <2>4. CASE n \notin Suffixed
    <3>1. First' = First
      BY <2>2, <2>4 DEF IsLibrary, First
    <3> QED
      BY <1>1, <1>2, <1>3, <2>1, <2>2, <2>4, <3>1 DEF IsLibrary
  <2>5. CASE n \in Suffixed /\ dest[n].kind = "file"
    BY <1>1, <1>2, <1>3, <2>1, <2>2, <2>5 DEF IsLibrary
  <2>6. CASE n \in Suffixed /\ dest[n].kind # "file"
    <3>1. First' = First
      BY <2>2, <2>6 DEF IsLibrary, First
    <3> QED
      BY <1>1, <1>2, <1>3, <2>1, <2>2, <2>3, <2>6, <3>1 DEF IsLibrary
  <2> QED
    BY <2>4, <2>5, <2>6
<1> QED
  BY <1>4, <1>5

\* A step that copies nothing leaves the destination alone.
LEMMA OtherSteps ==
  ASSUME [Next]_vars, ~copyFile, ~copyLink
  PROVE  dest' = dest /\ (bundled' = bundled \/ bundled' = {})
<1>1. CASE bundle
  BY <1>1 DEF bundle
<1>2. CASE Step
  BY <1>2 DEF Step, bundleDependencies, returns, ignoreDependency, bundleByTool, withoutLibrary,
              copyLibraries, withoutModule, copied, bundleDone, bundleXpcf, exit
<1>3. CASE kill \/ upgrade \/ UNCHANGED vars
  BY <1>3 DEF kill, upgrade, vars
<1> QED
  BY <1>1, <1>2, <1>3 DEF Next

\* The links of the destination rise too: copying writes a file where there is no link.
LEMMA RisingKept ==
  ASSUME TypeOK, ControlInv, NEW r \in Rank, Ranked(r), Rising(dest, r), [Next]_vars
  PROVE  Rising(dest', r)
<1>1. CASE ~copyFile /\ ~copyLink
  BY <1>1, OtherSteps
<1>2. CASE copyFile \/ copyLink
  <2>1. First.at \in Dep /\ lib[First.at] \in Folder /\ Rising(lib[First.at], r)
    BY <1>2, CopySteps DEF Ranked
  <2>2. CASE dest' = dest
    BY <2>2
  <2>3. ASSUME NEW n \in Name, lib[First.at][n].kind = "file",
               dest' = CopyFile(dest, n, lib[First.at][n])
        PROVE  Rising(dest', r)
    BY <2>3 DEF CopyFile, Rising, LinksOf, TypeOK, Folder
  <2>4. ASSUME NEW n \in Name, lib[First.at][n].kind = "link",
               dest' = CopyLink(dest, n, lib[First.at][n])
        PROVE  Rising(dest', r)
    BY <2>1, <2>4 DEF CopyLink, Rising, LinksOf, TypeOK, Folder
  <2> QED
    BY <1>2, <2>2, <2>3, <2>4, CopySteps DEF TypeOK
<1> QED
  BY <1>1, <1>2

----------------------------------------------------------------------------
(* Complete destinations *)

\* A link that will be copied.
Pending(n) == copying /\ n \in left \intersect Suffixed /\ lib[First.at][n].kind = "link"

\* Every name of G is a file, leads to another of them, or is a link yet to be copied.
Safe(G) ==
  \A n \in G : \/ dest[n].kind = "file"
               \/ dest[n].kind = "link" /\ dest[n].to \in G
               \/ Pending(n)

\* The libraries of the packages D, and those of the package being copied that were
\* copied already, are safe.
Copies(D, G) ==
  /\ \A d \in D : Libraries(d) \subseteq G
  /\ copying => Libraries(First.at) \ left \subseteq G
  /\ Safe(G)

\* What a file does to the names that lead to where it is written.
LEMMA FileWritten ==
  ASSUME TypeOK, NEW r \in Rank, Rising(dest, r), NEW n \in Name, NEW entry \in Entry,
         entry.kind = "file", dest' = CopyFile(dest, n, entry)
  PROVE  /\ \A z \in Name : dest'[z] = dest[z] \/ dest'[z].kind = "file"
         /\ \E A \in SUBSET Name :
              /\ n \in A
              /\ \A z \in A : \/ dest'[z].kind = "file"
                              \/ dest'[z].kind = "link" /\ dest'[z].to \in A
<1>1. dest \in Folder /\ End(dest, n) \in Name
  BY EndIsEnd DEF TypeOK
<1>2. \A z \in Name : dest'[z] = dest[z] \/ (z = End(dest, n) /\ dest'[z].kind = "file")
  BY <1>1 DEF CopyFile, Folder
<1>3. dest'[End(dest, n)].kind = "file"
  BY <1>1 DEF CopyFile, Folder, Exists
<1>4. PICK A \in SUBSET Name :
        /\ n \in A /\ End(dest, n) \in A
        /\ \A z \in A : z = End(dest, n) \/ (dest[z].kind = "link" /\ dest[z].to \in A)
  BY Chain
<1>5. ASSUME NEW z \in A
      PROVE  \/ dest'[z].kind = "file"
             \/ dest'[z].kind = "link" /\ dest'[z].to \in A
  BY <1>2, <1>3, <1>4
<1> QED
  BY <1>2, <1>4, <1>5

\* Copying keeps what is safe safe.
LEMMA CopiesKept ==
  ASSUME TypeOK, ControlInv, NEW r \in Rank, Ranked(r), LinksLead, Rising(dest, r),
         copyFile \/ copyLink, UNCHANGED pc,
         NEW D \in SUBSET Dep, NEW G \in SUBSET Name, Copies(D, G)
  PROVE  \E H \in SUBSET Name : Copies(D, H)'
<1> DEFINE d == First.at
<1>1. /\ d \in Dep /\ copying /\ pc \in {"bundle", "modules"}
      /\ lib[d] \in Folder /\ lib[d] \in Releases[d]
      /\ UNCHANGED <<lib, paths, command>>
  BY CopySteps
<1>2. \A e \in Dep : Libraries(e)' = Libraries(e)
  BY <1>1 DEF Libraries
<1>3. \A z \in Name : lib[d][z].kind \in {"none", "file", "link"}
                      /\ (lib[d][z].kind = "none" <=> lib[d][z] = Absent)
  BY <1>1, Entries
<1>4. Suffixed \subseteq Name
  BY BundleAssumption
<1>5. ~Fail
  BY <1>1 DEF Fail, Finish
<1>6. ASSUME NEW n \in left, left' = left \ {n}, n \notin Suffixed,
             UNCHANGED <<dest, copying>>, First' = First
      PROVE  Copies(D, G)'
  <2>1. \A z \in G : Pending(z) => Pending(z)'
    BY <1>1, <1>6 DEF Pending
  <2>2. Safe(G)'
    BY <1>6, <2>1 DEF Safe, Copies
  <2>3. Libraries(d) \ left' \subseteq G
    BY <1>1, <1>6 DEF Copies, Libraries
  <2> QED
    BY <1>1, <1>2, <1>6, <2>2, <2>3 DEF Copies
<1>7. ASSUME NEW n \in left \intersect Suffixed, left' = left \ {n},
             UNCHANGED copying, First' = First, lib[d][n].kind = "file",
             dest' = CopyFile(dest, n, lib[d][n])
      PROVE  \E H \in SUBSET Name : Copies(D, H)'
  <2>1. n \in Name /\ lib[d][n] \in Entry
    BY <1>1, <1>4, InstalledFolders
  <2>2. PICK A \in SUBSET Name :
          /\ n \in A
          /\ \A z \in A : \/ dest'[z].kind = "file"
                          \/ dest'[z].kind = "link" /\ dest'[z].to \in A
    BY <1>7, <2>1, FileWritten
  <2>3. \A z \in Name : dest'[z] = dest[z] \/ dest'[z].kind = "file"
    BY <1>7, <2>1, FileWritten
  <2>4. \A z \in G : Pending(z) => Pending(z)'
    BY <1>1, <1>7 DEF Pending
  <2>5. Safe(G \union A)'
    BY <2>2, <2>3, <2>4 DEF Safe, Copies
  <2>6. Libraries(d) \ left' \subseteq G \union A
    BY <1>1, <1>7, <2>2 DEF Copies
  <2>7. Copies(D, G \union A)'
    BY <1>1, <1>2, <1>7, <2>5, <2>6 DEF Copies
  <2> QED
    BY <2>7
<1>8. ASSUME NEW n \in left \intersect Suffixed, left' = left \ {n},
             UNCHANGED copying, First' = First, lib[d][n].kind = "link",
             left \intersect FilesOf(lib[d]) = {},
             dest' = CopyLink(dest, n, lib[d][n])
      PROVE  \E H \in SUBSET Name : Copies(D, H)'
  <2>1. n \in Name
    BY <1>4
  <2>t. PICK t \in Name : t = lib[d][n].to
    BY <1>1, <1>8, <2>1, Entries
  <2>2. t \in Name /\ t \in Libraries(d) /\ t # n
    <3>1. n \in LinksOf(lib[d]) \intersect Suffixed
      BY <1>8, <2>1 DEF LinksOf
    <3>2. t \in Suffixed /\ lib[d][t] # Absent
      BY <1>1, <2>t, <3>1 DEF LinksLead
    <3>3. r[n] < r[t] /\ t \in Name
      BY <1>1, <2>t, <3>1 DEF Ranked, Rising
    <3>4. t # n
      BY <3>3, <2>1, NameCount DEF Rank
    <3> QED
      BY <3>2, <3>3, <3>4 DEF Libraries
  <2>3. dest'[n].kind = "link" /\ dest'[n].to = t /\ \A z \in Name \ {n} : dest'[z] = dest[z]
    BY <1>8, <2>1, <2>t DEF CopyLink, TypeOK, Folder
  <2>4. \A z \in G \ {n} : Pending(z) => Pending(z)'
    BY <1>1, <1>8 DEF Pending
  <2>5. t \in G \/ Pending(t)'
    <3>1. CASE t \in left
      <4>1. lib[d][t].kind = "link"
        BY <1>3, <1>8, <2>2, <3>1 DEF FilesOf, Libraries
      <4> QED
        BY <1>1, <1>8, <2>2, <3>1, <4>1 DEF Pending, Libraries
    <3>2. CASE t \notin left
      BY <1>1, <2>2, <3>2 DEF Copies
    <3> QED
      BY <3>1, <3>2
  <2>6. Safe(G \union {n, t})'
    <3> SUFFICES ASSUME NEW z \in G \union {n, t}
                 PROVE  \/ dest'[z].kind = "file"
                        \/ dest'[z].kind = "link" /\ dest'[z].to \in G \union {n, t}
                        \/ Pending(z)'
      BY DEF Safe
    <3>1. CASE z = n
      BY <2>3, <3>1
    <3>2. CASE z \in G \ {n}
      BY <2>3, <2>4, <3>2 DEF Safe, Copies
    <3>3. CASE z \notin G /\ z = t
      BY <2>5, <3>3
    <3> QED
      BY <3>1, <3>2, <3>3
  <2>7. Libraries(d) \ left' \subseteq G \union {n, t}
    BY <1>1, <1>8 DEF Copies
  <2>8. Copies(D, G \union {n, t})'
    <3> QED
      BY <1>1, <1>2, <1>8, <2>6, <2>7 DEF Copies
  <2> QED
    BY <2>1, <2>2, <2>8
<1> QED
  BY <1>5, <1>6, <1>7, <1>8, CopySteps

CallPair == (Dep \union {Project}) \X FileType
Start == {<<Project, "EXTRA_DEPS">>, <<Project, "PACKAGE">>}

\* A line for package d, read by a call for files of type t, is done with: no library is
\* to be copied, or d's are and the calls for its own dependencies are among C.
Handled(d, t, C, D) ==
  \/ Type[d] # "REMAKEN" \/ d \in Ignored \/ lib[d] = NoFolder
  \/ /\ d \in D
     /\ cmd.recurse => /\ <<d, "EXTRA_DEPS">> \in C
                       /\ t = "PACKAGE" /\ d \notin Static => <<d, t>> \in C

ToVisit(d, t) == \E it \in Range(agenda) : it.is = "dependency" /\ it.at = d /\ it.type = t
ToRead(o, t, j) ==
  \E it \in Range(agenda) : it.is = "call" /\ it.at = o /\ it.type = t /\ it.next <= j

\* The line for d is done with, or still to come.
Met(d, t, C, D) == Handled(d, t, C, D) \/ ToVisit(d, t)

\* Every file of every call of C is still to be read, or its lines are met.
Covers(C, D) ==
  \A c \in C : \A j \in DOMAIN Files[c[1]][c[2]] :
    \/ ToRead(c[1], c[2], j)
    \/ \A d \in Range(Files[c[1]][c[2]][j].deps) : Met(d, c[2], C, D)

\* What is copied and called so far covers what the command is about to do.
CoverWith(D, C, G) ==
  /\ pc \in {"bundle", "modules"} \/ outcome = "ok" => Copies(D, G)
  /\ pc = "bundle" \/ (outcome = "ok" /\ ~cmd.xpcf) => Start \subseteq C /\ Covers(C, D)
  /\ pc = "modules" \/ (outcome = "ok" /\ cmd.xpcf) =>
       /\ paths = newPaths
       /\ \A i \in declareModules : Modules[i].dep \in D \/ Module(i) \in Range(agenda)

CoverInv ==
  \E D \in SUBSET Dep, C \in SUBSET CallPair, G \in SUBSET Name : CoverWith(D, C, G)

\* The first item of the agenda can go once what it stands for is covered.
LEMMA CoversOn ==
  ASSUME TypeOK, NEW C \in SUBSET CallPair, NEW D \in SUBSET Dep, Covers(C, D),
         NEW E \in SUBSET CallPair, NEW B \in SUBSET Dep, C \subseteq E, D \subseteq B,
         UNCHANGED <<lib, cmd>>,
         NEW first,
         \A it \in Range(agenda) \ {first} : it \in Range(agenda'),
         first.is = "dependency" => Met(first.at, first.type, E, B)',
         first.is = "call" =>
           \A j \in DOMAIN Files[first.at][first.type] : first.next <= j =>
             \/ ToRead(first.at, first.type, j)'
             \/ \A d \in Range(Files[first.at][first.type][j].deps) :
                  ToVisit(d, first.type)',
         \A c \in E \ C : \A j \in DOMAIN Files[c[1]][c[2]] : ToRead(c[1], c[2], j)'
  PROVE  Covers(E, B)'
<1>1. \A d, t : Handled(d, t, C, D) => Handled(d, t, E, B)'
  BY DEF Handled, Ignored
<1>2. ASSUME NEW d, NEW t, ToVisit(d, t) PROVE Met(d, t, E, B)'
  <2>1. PICK it \in Range(agenda) : it.is = "dependency" /\ it.at = d /\ it.type = t
    BY <1>2 DEF ToVisit
  <2>2. CASE it = first
    BY <2>1, <2>2
  <2>3. CASE it # first
    BY <2>1, <2>3 DEF Met, ToVisit
  <2> QED
    BY <2>2, <2>3
<1>3. \A d, t : Met(d, t, C, D) => Met(d, t, E, B)'
  BY <1>1, <1>2 DEF Met
<1>4. ASSUME NEW c \in C, NEW j \in DOMAIN Files[c[1]][c[2]], ToRead(c[1], c[2], j)
      PROVE  \/ ToRead(c[1], c[2], j)'
             \/ \A d \in Range(Files[c[1]][c[2]][j].deps) : Met(d, c[2], E, B)'
  <2>1. PICK it \in Range(agenda) :
          it.is = "call" /\ it.at = c[1] /\ it.type = c[2] /\ it.next <= j
    BY <1>4 DEF ToRead
  <2>2. CASE it = first
    BY <2>1, <2>2 DEF Met
  <2>3. CASE it # first
    BY <2>1, <2>3 DEF ToRead
  <2> QED
    BY <2>2, <2>3
<1>5. ASSUME NEW c \in C, NEW j \in DOMAIN Files[c[1]][c[2]]
      PROVE  \/ ToRead(c[1], c[2], j)'
             \/ \A d \in Range(Files[c[1]][c[2]][j].deps) : Met(d, c[2], E, B)'
  BY <1>3, <1>4 DEF Covers
<1> QED
  BY <1>5 DEF Covers

\* A call reads its next file, or returns.
LEMMA ReadCovers ==
  ASSUME TypeOK, NEW C \in SUBSET CallPair, NEW D \in SUBSET Dep, Covers(C, D),
         \/ bundleDependencies /\ Files[First.at][First.type][First.next].valid
         \/ returns
  PROVE  Covers(C, D)'
<1>1. agenda \in Seq(Item) /\ agenda # << >> /\ First.is = "call"
  BY DEF TypeOK, bundleDependencies, returns, At
<1>f. PICK first : first = First
  OBVIOUS
<1>2. /\ First \in Item /\ Range(agenda) = {First} \union Range(Tail(agenda))
      /\ First.at \in Dep \union {Project} /\ First.type \in FileType
      /\ First.next \in Nat
  BY <1>1, AgendaParts, ItemFacts
<1>3. /\ Len(Files[First.at][First.type]) \in Nat
      /\ DOMAIN Files[First.at][First.type] = 1..Len(Files[First.at][First.type])
  BY <1>2, FileTypes
<1>4. UNCHANGED <<lib, cmd>>
  BY DEF bundleDependencies, returns, command
<1>5. CASE bundleDependencies /\ Files[First.at][First.type][First.next].valid
  <2>1. Range(agenda') =
          {Visit(d, First.type, First.depth) :
             d \in Range(Files[First.at][First.type][First.next].deps)}
          \union {[First EXCEPT !.next = @ + 1]} \union Range(Tail(agenda))
    BY <1>5, AgendaRead
  <2>2. ASSUME NEW j \in DOMAIN Files[First.at][First.type], First.next <= j
        PROVE  \/ ToRead(first.at, first.type, j)'
               \/ \A d \in Range(Files[first.at][first.type][j].deps) : ToVisit(d, first.type)'
    <3>1. CASE j = First.next
      <4>1. ASSUME NEW d \in Range(Files[First.at][First.type][First.next].deps)
            PROVE  ToVisit(d, first.type)'
        <5>1. Visit(d, First.type, First.depth) \in Range(agenda')
          BY <2>1
        <5> QED
          BY <1>f, <5>1 DEF ToVisit, Visit
      <4> QED
        BY <1>f, <3>1, <4>1
    <3>2. CASE j # First.next
      <4> DEFINE it == [First EXCEPT !.next = @ + 1]
      <4>1. it \in Range(agenda')
        BY <2>1
      <4>2. it.is = "call" /\ it.at = First.at /\ it.type = First.type /\ it.next = First.next + 1
        BY <1>1, <1>2 DEF Item
      <4>3. First.next + 1 <= j
        BY <1>2, <1>3, <2>2, <3>2
      <4> HIDE DEF it
      <4> QED
        BY <1>f, <4>1, <4>2, <4>3 DEF ToRead
    <3> QED
      BY <3>1, <3>2
  <2>3. \A it \in Range(agenda) \ {First} : it \in Range(agenda')
    BY <1>2, <2>1
  <2> QED
    BY <1>1, <1>4, <1>f, <2>2, <2>3, CoversOn
<1>6. CASE returns
  <2>1. agenda' = Tail(agenda) /\ First.next > Len(Files[First.at][First.type])
    BY <1>6 DEF returns
  <2>2. \A it \in Range(agenda) \ {First} : it \in Range(agenda')
    BY <1>2, <2>1
  <2>3. \A j \in DOMAIN Files[First.at][First.type] : ~(First.next <= j)
    BY <1>2, <1>3, <2>1
  <2> QED
    BY <1>1, <1>4, <1>f, <2>2, <2>3, CoversOn
<1> QED
  BY <1>5, <1>6

\* A dependency that has no library to copy.
LEMMA VisitCovers ==
  ASSUME TypeOK, NEW C \in SUBSET CallPair, NEW D \in SUBSET Dep, Covers(C, D),
         ignoreDependency \/ bundleByTool \/ withoutLibrary, ~Fail
  PROVE  Covers(C, D)'
<1>1. agenda \in Seq(Item) /\ agenda # << >> /\ First.is = "dependency"
  BY DEF TypeOK, ignoreDependency, bundleByTool, withoutLibrary, ToBundle, At
<1>2. Range(agenda) = {First} \union Range(Tail(agenda))
  BY <1>1, AgendaParts
<1>3. PICK first : first = First
  OBVIOUS
<1>4. agenda' = Tail(agenda) /\ UNCHANGED <<lib, cmd>>
  BY DEF ignoreDependency, bundleByTool, withoutLibrary, command
<1>5. Type[first.at] # "REMAKEN" \/ first.at \in Ignored \/ lib[first.at] = NoFolder
  BY <1>3 DEF ignoreDependency, bundleByTool, withoutLibrary
<1>6. Met(first.at, first.type, C, D)'
  BY <1>4, <1>5 DEF Met, Handled, Ignored
<1>7. \A it \in Range(agenda) \ {first} : it \in Range(agenda')
  BY <1>2, <1>3, <1>4
<1> QED
  BY <1>1, <1>3, <1>4, <1>6, <1>7, CoversOn

\* A package that is copied: its dependencies are called for.
LEMMA CopiedCovers ==
  ASSUME TypeOK, ControlInv, NEW C \in SUBSET CallPair, NEW D \in SUBSET Dep, Covers(C, D),
         copied, pc' # "done", NEW first, first = First
  PROVE  \E E \in SUBSET CallPair : C \subseteq E /\ Covers(E, D \union {first.at})'
<1>1. /\ first.at \in Dep /\ first \in Item /\ first.is \in {"dependency", "module"}
      /\ Range(agenda) = {first} \union Range(Tail(agenda))
      /\ Range(Tail(agenda)) \subseteq Range(agenda')
  BY AgendaCopied DEF copied, ControlInv
<1>2. UNCHANGED <<lib, cmd>>
  BY DEF copied, command
<1>3. first.type \in FileType
  BY <1>1, ItemFacts
<1>4. first.is = "dependency" => Type[first.at] = "REMAKEN"
  BY DEF copied, ControlInv
<1> DEFINE B == D \union {first.at}
           new == IF first.is = "dependency" /\ cmd.recurse
                  THEN {<<first.at, "EXTRA_DEPS">>}
                       \union (IF first.type = "PACKAGE" /\ first.at \notin Static
                               THEN {<<first.at, first.type>>} ELSE {})
                  ELSE {}
<1>5. PICK E : E = C \union new
  OBVIOUS
<1>6. E \in SUBSET CallPair /\ C \subseteq E
  BY <1>1, <1>3, <1>5 DEF CallPair, FileType
<1>7. ASSUME NEW c \in E \ C, NEW j \in DOMAIN Files[c[1]][c[2]] PROVE ToRead(c[1], c[2], j)'
  <2>1. /\ first.is = "dependency" /\ cmd.recurse
        /\ \/ c = <<first.at, "EXTRA_DEPS">>
           \/ c = <<first.at, first.type>> /\ first.type = "PACKAGE" /\ first.at \notin Static
    BY <1>5, <1>7
  <2>2. PICK k \in 1..MaxDepth :
          /\ Call(first.at, "EXTRA_DEPS", k) \in Range(agenda')
          /\ first.type = "PACKAGE" /\ first.at \notin Static =>
               Call(first.at, first.type, k) \in Range(agenda')
    BY <1>4, <2>1, AgendaCopied
  <2>3. Call(c[1], c[2], k) \in Range(agenda')
    BY <2>1, <2>2
  <2>4. c[1] \in Dep \union {Project} /\ c[2] \in FileType
    BY <1>6 DEF CallPair
  <2>5. 1 <= j
    BY <2>4, FileTypes
  <2> QED
    BY <2>3, <2>5 DEF ToRead, Call
<1>8. first.is = "dependency" => Met(first.at, first.type, E, B)'
  <2> SUFFICES ASSUME first.is = "dependency" PROVE Handled(first.at, first.type, E, B)'
    BY DEF Met
  <2>1. cmd.recurse => /\ <<first.at, "EXTRA_DEPS">> \in E
                       /\ first.type = "PACKAGE" /\ first.at \notin Static =>
                            <<first.at, first.type>> \in E
    BY <1>5
  <2> QED
    BY <1>2, <2>1 DEF Handled
<1>9. B \in SUBSET Dep /\ D \subseteq B
  BY <1>1
<1>10. \A it \in Range(agenda) \ {first} : it \in Range(agenda')
  BY <1>1
<1>11. first.is # "call"
  BY <1>1
<1> HIDE DEF new, B
<1>12. Covers(E, B)'
  BY <1>2, <1>6, <1>7, <1>8, <1>9, <1>10, <1>11, CoversOn
<1> QED
  BY <1>6, <1>12 DEF B

\* Safety of names where nothing is copied.
LEMMA CopiesOn ==
  ASSUME NEW D \in SUBSET Dep, NEW G \in SUBSET Name, Copies(D, G),
         UNCHANGED <<lib, dest>>, copying' => copying /\ UNCHANGED <<left, First>>,
         ~copying \/ copying'
  PROVE  Copies(D, G)'
<1>1. \A d \in Dep : Libraries(d)' = Libraries(d)
  BY DEF Libraries
<1>2. \A n \in G : Pending(n) => Pending(n)'
  BY DEF Pending
<1>3. Safe(G)'
  BY <1>2 DEF Safe, Copies
<1>4. copying' => Libraries(First.at)' \ left' \subseteq G
  BY DEF Copies, Libraries
<1> QED
  BY <1>1, <1>3, <1>4 DEF Copies

\* A package that is copied is copied whole.
LEMMA CopiesCopied ==
  ASSUME TypeOK, ControlInv, NEW D \in SUBSET Dep, NEW G \in SUBSET Name, Copies(D, G), copied,
         NEW d \in Dep, d = First.at
  PROVE  Copies(D \union {d}, G)'
<1>1. UNCHANGED <<lib, dest>> /\ copying /\ left = {} /\ copying' = FALSE
  BY DEF copied
<1>2. \A e \in Dep : Libraries(e)' = Libraries(e)
  BY <1>1 DEF Libraries
<1>3. Libraries(d) \subseteq G
  BY <1>1 DEF Copies
<1>4. Safe(G)'
  BY <1>1 DEF Safe, Copies, Pending
<1> QED
  BY <1>1, <1>2, <1>3, <1>4 DEF Copies

\* Copying begins with every library left.
LEMMA CopiesBegin ==
  ASSUME TypeOK, NEW D \in SUBSET Dep, NEW G \in SUBSET Name, Copies(D, G), copyLibraries
  PROVE  Copies(D, G)'
<1>1. /\ agenda # << >> /\ First.is \in {"dependency", "module"} /\ ~copying
      /\ left' = FilesOf(lib[First.at]) \union LinksOf(lib[First.at])
      /\ UNCHANGED <<lib, dest, agenda>>
  BY DEF copyLibraries, ToBundle, At
<1>2. First.at \in Dep /\ First' = First
  BY <1>1, AgendaParts, ItemFacts DEF TypeOK, First
<1>3. \A d \in Dep : Libraries(d)' = Libraries(d)
  BY <1>1 DEF Libraries
<1>4. Libraries(First.at) \subseteq left'
  <2>1. lib[First.at] \in Folder
    BY <1>2, InstalledFolders
  <2> QED
    BY <1>1, <2>1, Entries DEF Libraries, FilesOf, LinksOf
<1>5. Safe(G)'
  BY <1>1 DEF Safe, Copies, Pending
<1> QED
  BY <1>1, <1>2, <1>3, <1>4, <1>5 DEF Copies

\* Nothing has to be covered.
LEMMA CoverNothing ==
  ASSUME pc' \notin {"bundle", "modules"}, outcome' # "ok"
  PROVE  CoverInv'
<1>1. CoverWith({}, {}, {})'
  BY DEF CoverWith
<1> QED
  BY <1>1 DEF CoverInv

\* A bundle begins with nothing covered but its two calls to come.
LEMMA CoverStart ==
  ASSUME TypeOK, ControlInv, bundle
  PROVE  CoverInv'
<1>1. pc' = "bundle" /\ outcome' = "none" /\ copying' = FALSE
  BY DEF bundle, ControlInv
<1>2. agenda' = <<Call(Project, "EXTRA_DEPS", 1), Call(Project, "PACKAGE", 1)>>
  BY DEF bundle
<1>3. Call(Project, "EXTRA_DEPS", 1) \in Range(agenda') /\ Call(Project, "PACKAGE", 1) \in Range(agenda')
  <2>1. 1 \in 1..MaxDepth /\ "PACKAGE" \in FileType /\ "EXTRA_DEPS" \in FileType
    BY BundleAssumption DEF FileType
  <2>2. Call(Project, "EXTRA_DEPS", 1) \in Item /\ Call(Project, "PACKAGE", 1) \in Item
    BY <2>1, ItemTypes
  <2>3. Range(<<Call(Project, "EXTRA_DEPS", 1), Call(Project, "PACKAGE", 1)>>) =
          {Call(Project, "EXTRA_DEPS", 1), Call(Project, "PACKAGE", 1)}
    BY <2>2, Pairs
  <2> QED
    BY <1>2, <2>3
<1>4. Copies({}, {})'
  BY <1>1 DEF Copies, Safe
<1>5. ASSUME NEW c \in Start, NEW j \in DOMAIN Files[c[1]][c[2]] PROVE ToRead(c[1], c[2], j)'
  <2>1. c[1] = Project /\ c[2] \in FileType /\ Call(c[1], c[2], 1) \in Range(agenda')
    BY <1>3 DEF Start, FileType
  <2>2. 1 <= j
    BY <2>1, FileTypes
  <2> QED
    BY <2>1, <2>2 DEF ToRead, Call
<1>6. Covers(Start, {})'
  BY <1>5 DEF Covers
<1>7. CoverWith({}, Start, {})'
  BY <1>1, <1>4, <1>6 DEF CoverWith
<1>8. Start \in SUBSET CallPair
  BY DEF Start, CallPair, FileType
<1> QED
  BY <1>7, <1>8 DEF CoverInv

\* The modules of a configuration begin with nothing copied.
LEMMA CoverModules ==
  ASSUME TypeOK, ControlInv, bundleXpcf
  PROVE  CoverInv'
<1>1. pc = "config" /\ UNCHANGED <<lib, cmd, config>>
  BY DEF bundleXpcf, command
<1>2. CASE config = "alien"
  <2>1. pc' = "done" /\ outcome' = "failed"
    BY <1>2 DEF bundleXpcf, Finish
  <2> QED
    BY <2>1, CoverNothing
<1>3. CASE config # "alien"
  <2>1. /\ pc' = "modules" /\ outcome' = "none" /\ copying' = FALSE /\ paths' = newPaths
    BY <1>3 DEF bundleXpcf, ControlInv
  <2>2. newPaths' = newPaths /\ declareModules' = declareModules
    BY <1>1 DEF newPaths, declareModules
  <2>3. \A i \in declareModules' : Module(i) \in Range(agenda')
    BY <1>3, <2>2, AgendaModules
  <2>4. Copies({}, {})'
    BY <2>1 DEF Copies, Safe
  <2>5. CoverWith({}, {}, {})'
    BY <2>1, <2>2, <2>3, <2>4 DEF CoverWith
  <2> QED
    BY <2>5 DEF CoverInv
<1> QED
  BY <1>2, <1>3

\* The steps of the agenda that copy nothing.
LEMMA CoverAgenda ==
  ASSUME TypeOK, ControlInv, CoverInv,
         \/ bundleDependencies \/ returns \/ ignoreDependency \/ bundleByTool
         \/ withoutLibrary \/ withoutModule
  PROVE  CoverInv'
<1>1. /\ pc \in {"bundle", "modules"} /\ outcome = "none" /\ agenda # << >>
      /\ agenda \in Seq(Item) /\ ~copying
      /\ UNCHANGED <<lib, dest, paths, command>>
  BY DEF bundleDependencies, returns, ignoreDependency, bundleByTool, withoutLibrary, withoutModule,
         ToBundle, At, ControlInv, TypeOK, command
<1>2. CASE Fail
  <2>1. pc' \notin {"bundle", "modules"} /\ outcome' # "ok"
    BY <1>1, <1>2, FailTypes
  <2> QED
    BY <2>1, CoverNothing
<1>3. CASE ~Fail
  <2>1. PICK D \in SUBSET Dep, C \in SUBSET CallPair, G \in SUBSET Name : CoverWith(D, C, G)
    BY DEF CoverInv
  <2>2. UNCHANGED <<pc, left, copying, outcome>> /\ First.is # "module" /\ ~withoutModule
    BY <1>3 DEF bundleDependencies, returns, ignoreDependency, bundleByTool, withoutLibrary,
                withoutModule, At, ToBundle
  <2>3. Copies(D, G)'
    BY <1>1, <2>1, <2>2, CopiesOn DEF CoverWith
  <2>4. Range(agenda) = {First} \union Range(Tail(agenda))
        /\ Range(Tail(agenda)) \subseteq Range(agenda')
    <3>1. CASE bundleDependencies
      BY <1>1, <1>3, <3>1, AgendaParts, AgendaRead DEF bundleDependencies
    <3>2. CASE agenda' = Tail(agenda)
      BY <1>1, <3>2, AgendaParts
    <3> QED
      BY <1>3, <2>2, <3>1, <3>2 DEF returns, ignoreDependency, bundleByTool, withoutLibrary
  <2>5. Covers(C, D) => Covers(C, D)'
    <3>1. CASE bundleDependencies \/ returns
      BY <1>3, <3>1, ReadCovers DEF bundleDependencies
    <3>2. CASE ignoreDependency \/ bundleByTool \/ withoutLibrary
      BY <1>3, <3>2, VisitCovers
    <3> QED
      BY <2>2, <3>1, <3>2
  <2>6. newPaths' = newPaths /\ declareModules' = declareModules /\ cmd' = cmd
    BY <1>1 DEF newPaths, declareModules, command
  <2>7. \A i \in declareModules : Module(i) \in Range(agenda) => Module(i) \in Range(agenda')
    BY <2>2, <2>4 DEF Module
  <2>8. CoverWith(D, C, G)'
    BY <1>1, <2>1, <2>2, <2>3, <2>5, <2>6, <2>7 DEF CoverWith
  <2> QED
    BY <2>8 DEF CoverInv
<1> QED
  BY <1>2, <1>3

\* The steps that copy.
LEMMA CoverCopies ==
  ASSUME TypeOK, ControlInv, CoverInv, NEW r \in Rank, Ranked(r), LinksLead, Rising(dest, r),
         copyLibraries \/ copyFile \/ copyLink \/ copied
  PROVE  CoverInv'
<1>1. PICK D \in SUBSET Dep, C \in SUBSET CallPair, G \in SUBSET Name : CoverWith(D, C, G)
  BY DEF CoverInv
<1>2. /\ pc \in {"bundle", "modules"} /\ outcome = "none" /\ UNCHANGED <<lib, paths, command>>
  BY DEF copyLibraries, copyFile, copyLink, copied, ControlInv, ToBundle, At, command
<1>3. newPaths' = newPaths /\ declareModules' = declareModules /\ cmd' = cmd /\ Ignored' = Ignored
  BY <1>2 DEF newPaths, declareModules, command, Ignored
<1>4. Copies(D, G)
  BY <1>1, <1>2 DEF CoverWith
<1>5. ASSUME UNCHANGED agenda PROVE Covers(C, D) => Covers(C, D)'
  BY <1>2, <1>3, <1>5 DEF Covers, Met, Handled, ToVisit, ToRead
<1>6. CASE copyLibraries
  <2>1. Copies(D, G)'
    BY <1>4, <1>6, CopiesBegin
  <2>2. UNCHANGED <<pc, agenda, outcome>>
    BY <1>6 DEF copyLibraries
  <2>3. CoverWith(D, C, G)'
    BY <1>1, <1>2, <1>3, <1>5, <2>1, <2>2 DEF CoverWith
  <2> QED
    BY <2>3 DEF CoverInv
<1>7. CASE (copyFile \/ copyLink) /\ UNCHANGED pc
  <2>1. PICK H \in SUBSET Name : Copies(D, H)'
    BY <1>4, <1>7, CopiesKept
  <2>2. UNCHANGED <<agenda, outcome>>
    BY <1>2, <1>7, CopySteps DEF Fail, Finish
  <2>3. CoverWith(D, C, H)'
    BY <1>1, <1>2, <1>3, <1>5, <1>7, <2>1, <2>2 DEF CoverWith
  <2> QED
    BY <2>3 DEF CoverInv
<1>8. CASE (copyFile \/ copyLink) /\ ~UNCHANGED pc
  <2>1. Fail
    BY <1>8, CopySteps
  <2>2. pc' \notin {"bundle", "modules"} /\ outcome' # "ok"
    BY <1>2, <2>1, FailTypes
  <2> QED
    BY <2>2, CoverNothing
<1>9. CASE copied /\ pc' = "done"
  <2>1. outcome' = "killed"
    BY <1>2, <1>9 DEF copied, Finish
  <2> QED
    BY <1>9, <2>1, CoverNothing
<1>10. CASE copied /\ pc' # "done"
  <2>1. PICK first : first = First
    OBVIOUS
  <2>2. /\ first.at \in Dep /\ UNCHANGED <<pc, outcome>>
        /\ Range(agenda) = {first} \union Range(Tail(agenda))
        /\ Range(Tail(agenda)) \subseteq Range(agenda')
    BY <1>10, <2>1, AgendaCopied DEF copied, Finish
  <2>3. Copies(D \union {first.at}, G)'
    BY <1>4, <1>10, <2>1, <2>2, CopiesCopied
  <2>4. PICK E \in SUBSET CallPair :
          C \subseteq E /\ (Covers(C, D) => Covers(E, D \union {first.at})')
    BY <1>10, <2>1, CopiedCovers
  <2>5. \A i \in declareModules :
          Module(i) \in Range(agenda) =>
            Modules[i].dep \in D \union {first.at} \/ Module(i) \in Range(agenda')
    BY <2>2 DEF Module
  <2>6. CoverWith(D \union {first.at}, E, G)'
    BY <1>1, <1>2, <1>3, <2>2, <2>3, <2>4, <2>5 DEF CoverWith
  <2> QED
    BY <2>2, <2>6 DEF CoverInv
<1> QED
  BY <1>6, <1>7, <1>8, <1>9, <1>10

\* Every step keeps a cover.
LEMMA CoverKept ==
  ASSUME TypeOK, ControlInv, CoverInv, NEW r \in Rank, Ranked(r), LinksLead, Rising(dest, r),
         [Next]_vars
  PROVE  CoverInv'
<1>1. CASE bundle
  BY <1>1, CoverStart
<1>2. CASE bundleDependencies \/ returns \/ ignoreDependency \/ bundleByTool
           \/ withoutLibrary \/ withoutModule
  BY <1>2, CoverAgenda
<1>3. CASE copyLibraries \/ copyFile \/ copyLink \/ copied
  BY <1>3, CoverCopies
<1>4. CASE bundleXpcf
  BY <1>4, CoverModules
<1>5. CASE bundleDone
  <2>1. /\ pc \in {"bundle", "modules"} /\ outcome = "none" /\ agenda = << >> /\ ~copying
        /\ UNCHANGED <<lib, dest, paths, command, agenda>> /\ copying' = FALSE
    BY <1>5 DEF bundleDone, ControlInv, Finish
  <2>2. CASE pc' = "config"
    <3>1. outcome' = "none"
      BY <1>5, <2>1, <2>2 DEF bundleDone, Finish
    <3> QED
      BY <2>2, <3>1, CoverNothing
  <2>3. CASE pc' # "config"
    <3>1. pc' = "done" /\ outcome' = "ok" /\ ~(pc = "bundle" /\ cmd.xpcf)
      BY <1>5, <2>3 DEF bundleDone, Finish
    <3>2. PICK D \in SUBSET Dep, C \in SUBSET CallPair, G \in SUBSET Name : CoverWith(D, C, G)
      BY DEF CoverInv
    <3>3. newPaths' = newPaths /\ declareModules' = declareModules /\ cmd' = cmd
          /\ Ignored' = Ignored
      BY <2>1 DEF newPaths, declareModules, command, Ignored
    <3>4. Copies(D, G)'
      BY <2>1, <3>2, CopiesOn DEF CoverWith
    <3>5. Covers(C, D) => Covers(C, D)'
      BY <2>1, <3>3 DEF Covers, Met, Handled, ToVisit, ToRead
    <3>6. CASE cmd.xpcf
      <4>1. pc = "modules"
        BY <2>1, <3>1, <3>6
      <4>2. CoverWith(D, C, G)'
        BY <2>1, <3>1, <3>2, <3>3, <3>4, <3>6, <4>1 DEF CoverWith
      <4> QED
        BY <4>2 DEF CoverInv
    <3>7. CASE ~cmd.xpcf
      <4>1. pc = "bundle"
        BY <2>1, <3>7 DEF ControlInv
      <4>2. CoverWith(D, C, G)'
        BY <2>1, <3>1, <3>2, <3>3, <3>4, <3>5, <3>7, <4>1 DEF CoverWith
      <4> QED
        BY <4>2 DEF CoverInv
    <3> QED
      BY <3>6, <3>7
  <2> QED
    BY <2>2, <2>3
<1>6. CASE exit \/ kill \/ upgrade
  <2>1. pc' \notin {"bundle", "modules"} /\ outcome' # "ok"
    BY <1>6 DEF exit, kill, upgrade, Finish, ControlInv
  <2> QED
    BY <2>1, CoverNothing
<1>7. CASE UNCHANGED vars
  <2>1. PICK D \in SUBSET Dep, C \in SUBSET CallPair, G \in SUBSET Name : CoverWith(D, C, G)
    BY DEF CoverInv
  <2>2. CoverWith(D, C, G)'
    BY <1>7, <2>1 DEF vars, CoverWith, Copies, Libraries, First, Safe, Pending, Covers, Met, Handled,
                      ToVisit, ToRead, Ignored, newPaths, declareModules
  <2> QED
    BY <2>2 DEF CoverInv
<1> QED
  BY <1>1, <1>2, <1>3, <1>4, <1>5, <1>6, <1>7 DEF Next, Step

\* The calls of a closed set are all there are.
LEMMA ClosureCovered ==
  ASSUME NEW stops, NEW C \in SUBSET CallPair, Start \subseteq C,
         cmd.recurse =>
           \A c \in C : \A d \in LinesOf(c[1], c[2]) \ (Ignored \union stops) :
             Type[d] = "REMAKEN" =>
               /\ <<d, "EXTRA_DEPS">> \in C
               /\ c[2] = "PACKAGE" /\ d \notin Static => <<d, c[2]>> \in C
  PROVE  Closure(stops) \subseteq C
<1> DEFINE of(c) == {d \in LinesOf(c[1], c[2]) \ (Ignored \union stops) : Type[d] = "REMAKEN"}
           step(cs) == cs \union
             UNION {{<<d, "EXTRA_DEPS">> : d \in of(c)} \union
                    {<<d, c[2]>> : d \in IF c[2] = "PACKAGE" THEN of(c) \ Static ELSE {}} : c \in cs}
           K == 2 * Cardinality(Dep)
           next == [cs \in SUBSET C |-> IF ~cmd.recurse THEN Start ELSE step(cs)]
           at[n \in 0..K] == IF n = 0 \/ ~cmd.recurse THEN Start ELSE step(at[n-1])
<1>1. K \in Nat
  BY BundleAssumption, FS_CardinalityType
<1>2. ASSUME NEW cs \in SUBSET C, cmd.recurse PROVE step(cs) \subseteq C
  <2> SUFFICES ASSUME NEW x \in step(cs), x \notin cs PROVE x \in C
    OBVIOUS
  <2>1. PICK c \in cs : \/ \E d \in of(c) : x = <<d, "EXTRA_DEPS">>
                        \/ c[2] = "PACKAGE" /\ \E d \in of(c) \ Static : x = <<d, c[2]>>
    OBVIOUS
  <2> QED
    BY <1>2, <2>1
<1>3. next \in [SUBSET C -> SUBSET C]
  BY <1>2
<1>4. PICK g \in [0..K -> SUBSET C] : g[0] = Start /\ \A i \in 1..K : g[i] = next[g[i-1]]
  <2> HIDE DEF next, at, K
  <2>1. Start \in SUBSET C
    OBVIOUS
  <2>2. \A S : \A x \in S, st \in [S -> S] :
          \E g \in [0..K -> S] : g[0] = x /\ \A i \in 1..K : g[i] = st[g[i-1]]
    BY <1>1, Iteration
  <2>3. PICK S : S = SUBSET C
    OBVIOUS
  <2>4. next \in [S -> S] /\ Start \in S
    BY <1>3, <2>1, <2>3
  <2>5. \E g \in [0..K -> S] : g[0] = Start /\ \A i \in 1..K : g[i] = next[g[i-1]]
    BY <2>2, <2>4
  <2> QED
    BY <2>3, <2>5
<1>5. \A i \in 1..K : g[i] = IF ~cmd.recurse THEN Start ELSE step(g[i-1])
  <2> SUFFICES ASSUME NEW i \in 1..K PROVE g[i] = IF ~cmd.recurse THEN Start ELSE step(g[i-1])
    OBVIOUS
  <2>1. g[i-1] \in SUBSET C
    BY <1>1, <1>4
  <2> HIDE DEF step
  <2> QED
    BY <1>4, <2>1
<1>6. g = [n \in 0..K |-> IF n = 0 \/ ~cmd.recurse THEN Start ELSE step(g[n-1])]
  <2> HIDE DEF step, K
  <2> QED
    BY <1>1, <1>4, <1>5
<1>7. at = [n \in 0..K |-> IF n = 0 \/ ~cmd.recurse THEN Start ELSE step(at[n-1])]
  <2> HIDE DEF step, K
  <2> QED
    BY <1>6
<1>8. Closure(stops) = at[K]
  BY DEF Closure, Start
<1> HIDE DEF at
<1> DEFINE T == {n \in 0..K : at[n] \subseteq C}
<1>9. 0 \in T
  BY <1>1, <1>7
<1>10. ASSUME NEW i \in 0..(K-1), i \in T PROVE i + 1 \in T
  <2>1. i + 1 \in 0..K /\ i + 1 # 0 /\ (i + 1) - 1 = i
    BY <1>1
  <2>2. at[i+1] = IF ~cmd.recurse THEN Start ELSE step(at[i])
    <3> HIDE DEF step, K
    <3> QED
      BY <1>7, <2>1
  <2>3. at[i] \in SUBSET C
    BY <1>10
  <2>4. at[i+1] \subseteq C
    <3> HIDE DEF step
    <3> QED
      BY <1>2, <2>2, <2>3
  <2> QED
    BY <2>1, <2>4
<1>11. K \in T
  <2> HIDE DEF T, K
  <2>1. 0..K \subseteq T
    BY <1>1, <1>9, <1>10, UpTo
  <2> QED
    BY <1>1, <2>1
<1> QED
  BY <1>8, <1>11

\* What is safe while nothing is copied is there.
LEMMA SafeExists ==
  ASSUME TypeOK, NEW r \in Rank, Rising(dest, r), ~copying, NEW G \in SUBSET Name, Safe(G),
         NEW n \in G
  PROVE  Exists(dest, n)
<1>1. dest \in Folder /\ \A z \in G : dest[z].kind = "file" \/ (dest[z].kind = "link" /\ dest[z].to \in G)
  BY DEF Safe, Pending, TypeOK
<1>2. End(dest, n) \in G
  BY <1>1, EndAgree
<1>3. dest[End(dest, n)].kind # "link"
  BY EndIsEnd
<1> QED
  BY <1>1, <1>2, <1>3 DEF Exists

\* When nothing is left to do, the cover has what is to be bundled.
LEMMA CoveredComplete ==
  ASSUME TypeOK, ControlInv, CoverInv, NEW r \in Rank, Rising(dest, r)
  PROVE  BundleComplete
<1> SUFFICES ASSUME outcome = "ok", ~cmd.xpcf,
                    NEW d \in Required({x \in Dep : lib[x] = NoFolder})
             PROVE  HasAll(d)
  BY DEF BundleComplete, Succeeds
<1>1. PICK D \in SUBSET Dep, C \in SUBSET CallPair, G \in SUBSET Name : CoverWith(D, C, G)
  BY DEF CoverInv
<1>2. Copies(D, G) /\ Start \subseteq C /\ Covers(C, D)
  BY <1>1 DEF CoverWith
<1>3. pc = "done" /\ agenda = << >> /\ ~copying
  BY DEF ControlInv
<1>4. \A c \in C : \A j \in DOMAIN Files[c[1]][c[2]] :
        \A e \in Range(Files[c[1]][c[2]][j].deps) : Handled(e, c[2], C, D)
  BY <1>2, <1>3, NoItems DEF Covers, ToRead, Met, ToVisit
<1>5. ASSUME NEW c \in C, NEW e \in LinesOf(c[1], c[2]) PROVE Handled(e, c[2], C, D)
  <2>1. PICK file \in Range(Files[c[1]][c[2]]) : e \in Range(file.deps)
    BY DEF LinesOf
  <2>2. PICK j \in DOMAIN Files[c[1]][c[2]] : file = Files[c[1]][c[2]][j]
    BY DEF Range
  <2> QED
    BY <1>4, <2>1, <2>2
<1> DEFINE stops == {x \in Dep : lib[x] = NoFolder}
<1>6. \A c \in C : LinesOf(c[1], c[2]) \subseteq Dep
  <2> SUFFICES ASSUME NEW c \in C, NEW e \in LinesOf(c[1], c[2]) PROVE e \in Dep
    OBVIOUS
  <2>1. PICK j \in DOMAIN Files[c[1]][c[2]] : e \in Range(Files[c[1]][c[2]][j].deps)
    BY DEF LinesOf, Range
  <2>2. c[1] \in Dep \union {Project} /\ c[2] \in FileType
    BY DEF CallPair
  <2> QED
    BY <2>1, <2>2, FileTypes
<1>7. Closure(stops) \subseteq C
  <2>1. cmd.recurse =>
           \A c \in C : \A e \in LinesOf(c[1], c[2]) \ (Ignored \union stops) :
             Type[e] = "REMAKEN" =>
               /\ <<e, "EXTRA_DEPS">> \in C
               /\ c[2] = "PACKAGE" /\ e \notin Static => <<e, c[2]>> \in C
    BY <1>5, <1>6 DEF Handled
  <2> HIDE DEF stops
  <2> QED
    BY <1>2, <2>1, ClosureCovered
<1>8. PICK c \in C : d \in LinesOf(c[1], c[2]) \ Ignored /\ Type[d] = "REMAKEN"
  <2> HIDE DEF stops
  <2>1. d \in Required(stops)
    BY DEF stops
  <2> QED
    <3> DEFINE Lines == UNION {LinesOf(c[1], c[2]) : c \in Closure(stops)}
    <3>1. PICK lines : lines = Lines
      OBVIOUS
    <3>2. d \in {e \in lines \ Ignored : Type[e] = "REMAKEN"}
      BY <2>1, <3>1, Zenon DEF Required
    <3>3. d \in Lines /\ d \notin Ignored /\ Type[d] = "REMAKEN"
      BY <3>1, <3>2
    <3>4. PICK c \in Closure(stops) : d \in LinesOf(c[1], c[2])
      BY <3>3
    <3> QED
      BY <1>7, <3>3, <3>4
<1>9. d \in D \/ lib[d] = NoFolder
  BY <1>5, <1>8 DEF Handled
<1>10. CASE d \in D
  BY <1>2, <1>3, <1>10, SafeExists DEF Copies, HasAll
<1>11. CASE lib[d] = NoFolder
  BY <1>11 DEF HasAll, Libraries, NoFolder
<1> QED
  BY <1>9, <1>10, <1>11

\* When nothing is left to do, the cover has the declared modules.
LEMMA ModulesComplete ==
  ASSUME TypeOK, ControlInv, CoverInv, NEW r \in Rank, Rising(dest, r)
  PROVE  XpcfComplete
<1> SUFFICES ASSUME outcome = "ok", cmd.xpcf, config = "good" PROVE
      /\ paths = "new"
      /\ \A i \in DOMAIN Modules :
           (\A j \in 1..(i-1) : Modules[j].name # Modules[i].name) => HasAll(Modules[i].dep)
  BY DEF XpcfComplete, Succeeds
<1>1. PICK D \in SUBSET Dep, C \in SUBSET CallPair, G \in SUBSET Name : CoverWith(D, C, G)
  BY DEF CoverInv
<1>2. /\ Copies(D, G) /\ paths = newPaths
      /\ \A i \in declareModules : Modules[i].dep \in D \/ Module(i) \in Range(agenda)
  BY <1>1 DEF CoverWith
<1>3. pc = "done" /\ agenda = << >> /\ ~copying
  BY DEF ControlInv
<1>4. \A i \in declareModules : Modules[i].dep \in D
  BY <1>2, <1>3, NoItems
<1>5. \A e \in D : HasAll(e)
  BY <1>2, <1>3, SafeExists DEF Copies, HasAll
<1> QED
  BY <1>2, <1>4, <1>5 DEF newPaths, declareModules, Declared

BundleInv(r) == TypeOK /\ ControlInv /\ CoverInv /\ Rising(dest, r)

\* The invariant of complete destinations.
LEMMA BundleInvHolds ==
  ASSUME NEW r \in Rank, Ranked(r), LinksLead
  PROVE  /\ Init => BundleInv(r)
         /\ BundleInv(r) /\ [Next]_vars => BundleInv(r)'
<1>1. ASSUME Init PROVE BundleInv(r)
  <2>1. pc \notin {"bundle", "modules"} /\ outcome # "ok"
    BY <1>1 DEF Init
  <2>2. CoverWith({}, {}, {})
    BY <2>1 DEF CoverWith
  <2>3. Rising(dest, r)
    BY <1>1 DEF Init, Rising, LinksOf, NoFolder, Absent
  <2> QED
    BY <1>1, <2>2, <2>3, BundleInit DEF CoverInv, BundleInv
<1>2. BundleInv(r) /\ [Next]_vars => BundleInv(r)'
  BY TypesKept, ControlKept, CoverKept, RisingKept DEF BundleInv
<1> QED
  BY <1>1, <1>2

\* A bundle that succeeds has put every library of every package it reaches into the
\* destination, where each leads to a file: for every dependency graph and every release,
\* if the releases' links go one way and lead to libraries of their own release.
THEOREM BundlesAreComplete ==
  ASSUME NEW r \in Rank, Ranked(r), LinksLead
  PROVE  Spec => []BundleComplete
<1>1. BundleInv(r) => BundleComplete
  BY CoveredComplete DEF BundleInv
<1> QED
  BY <1>1, BundleInvHolds, PTL DEF Spec

\* A bundleXpcf that succeeds has copied the libraries of every module that its
\* configuration declares, whatever became of the bundle it began with.
THEOREM XpcfBundlesAreComplete ==
  ASSUME NEW r \in Rank, Ranked(r), LinksLead
  PROVE  Spec => []XpcfComplete
<1>1. BundleInv(r) => XpcfComplete
  BY ModulesComplete DEF BundleInv
<1> QED
  BY <1>1, BundleInvHolds, PTL DEF Spec

----------------------------------------------------------------------------
(* Current destinations *)

\* Where f's links among A are e's too, f's end of a name of A has the end of the name in e.
LEMMA EndThrough ==
  ASSUME NEW f, NEW e, NEW r \in Rank, Rising(f, r), Rising(e, r), NEW A \in SUBSET Name,
         \A z \in A : f[z].kind = "link" =>
           f[z].to \in A /\ e[z].kind = "link" /\ e[z].to = f[z].to,
         NEW n \in A
  PROVE  End(e, End(f, n)) = End(e, n)
<1> DEFINE K == Cardinality(Name)
<1>1. K \in Nat
  BY NameCount
<1>2. n \in Name
  OBVIOUS
<1>3. PICK g \in [0..K -> Name] :
        /\ g[0] = n /\ g[K] = End(f, n)
        /\ \A i \in 1..K : g[i] = IF f[g[i-1]].kind = "link" THEN f[g[i-1]].to ELSE g[i-1]
  BY <1>2, Hops DEF Rising
<1> DEFINE T == {i \in 0..K : g[i] \in A /\ End(e, g[i]) = End(e, n)}
<1> HIDE DEF K
<1>4. 0 \in T
  BY <1>1, <1>3
<1>5. ASSUME NEW i \in 0..(K-1), i \in T PROVE i + 1 \in T
  <2>1. i + 1 \in 1..K /\ (i + 1) - 1 = i /\ g[i] \in A
    BY <1>1, <1>5
  <2>2. CASE f[g[i]].kind = "link"
    <3>1. g[i+1] = f[g[i]].to /\ g[i+1] \in A /\ e[g[i]].kind = "link" /\ e[g[i]].to = g[i+1]
      BY <1>3, <2>1, <2>2
    <3>2. End(e, g[i]) = End(e, g[i+1])
      BY <2>1, <3>1, EndLink
    <3> QED
      BY <1>1, <1>5, <2>1, <3>1, <3>2
  <2>3. CASE f[g[i]].kind # "link"
    BY <1>1, <1>3, <1>5, <2>1, <2>3
  <2> QED
    BY <2>2, <2>3
<1>6. K \in T
  <2> HIDE DEF T
  <2>1. 0..K \subseteq T
    BY <1>1, <1>4, <1>5, UpTo
  <2> QED
    BY <1>1, <2>1
<1> QED
  BY <1>3, <1>6

\* Where a library of an installed release leads to.
LEMMA LibraryEnd ==
  ASSUME TypeOK, NEW r \in Rank, Ranked(r), LinksLead, NEW h, Families(h),
         NEW d \in Dep, NEW n \in Libraries(d)
  PROVE  /\ End(lib[d], n) \in Libraries(d) /\ lib[d][End(lib[d], n)].kind = "file"
         /\ h[End(lib[d], n)] = h[n]
         /\ lib[d][n].kind = "link" => r[n] < r[End(lib[d], n)]
<1>1. lib[d] \in Folder /\ lib[d] \in Releases[d] /\ Rising(lib[d], r) /\ n \in Name
  BY InstalledFolders DEF TypeOK, Ranked, Libraries
<1> DEFINE A == {z \in Libraries(d) : h[z] = h[n]}
<1>2. \A z \in A : lib[d][z].kind = "link" => lib[d][z].to \in A
  <2> SUFFICES ASSUME NEW z \in A, lib[d][z].kind = "link" PROVE lib[d][z].to \in A
    OBVIOUS
  <2>1. z \in LinksOf(lib[d]) \intersect Suffixed
    BY DEF Libraries, LinksOf
  <2>2. lib[d][z].to \in Name /\ lib[d][z].to \in Suffixed /\ lib[d][lib[d][z].to] # Absent
    BY <1>1, <2>1 DEF LinksLead, Rising
  <2>3. h[lib[d][z].to] = h[n]
    BY <1>1, <2>1 DEF Families
  <2> QED
    BY <2>2, <2>3 DEF Libraries
<1>3. A \subseteq Name /\ n \in A
  BY DEF Libraries
<1> HIDE DEF A
<1>4. End(lib[d], n) \in A
  BY <1>1, <1>2, <1>3, EndAgree
<1>5. lib[d][End(lib[d], n)].kind # "link"
  BY <1>1, EndIsEnd
<1>6. End(lib[d], n) \in Libraries(d) /\ h[End(lib[d], n)] = h[n]
  BY <1>4 DEF A
<1>7. lib[d][End(lib[d], n)].kind = "file"
  BY <1>1, <1>5, <1>6, Entries DEF Libraries
<1>8. ASSUME lib[d][n].kind = "link" PROVE r[n] < r[End(lib[d], n)]
  <2> DEFINE t == lib[d][n].to
  <2>1. t \in Name /\ End(lib[d], n) = End(lib[d], t)
    BY <1>1, <1>8, EndLink
  <2>2. r[n] < r[t]
    BY <1>1, <1>8 DEF Rising, LinksOf
  <2> HIDE DEF t
  <2>3. r[t] <= r[End(lib[d], t)]
    BY <1>1, <2>1, Chain
  <2>4. r[n] \in Int /\ r[t] \in Int /\ r[End(lib[d], t)] \in Int
    BY <1>1, <2>1, EndIsEnd, NameCount DEF Rank
  <2> QED
    BY <2>1, <2>2, <2>3, <2>4
<1> QED
  BY <1>6, <1>7, <1>8

\* The links of the destination stay in a family.
InFamily(h) == \A n \in LinksOf(dest) : h[dest[n].to] = h[n]

\* A copied link that no other package has is that of its package.
LinksCurrent ==
  \A b \in bundled :
    (\A c \in bundled : c[2] = b[2] => c = b) /\ lib[b[1]][b[2]].kind = "link" =>
      dest[b[2]] = lib[b[1]][b[2]]

\* With --override a copied file is where its name leads to.
FilesCurrent ==
  cmd.override => \A b \in bundled :
    lib[b[1]][b[2]].kind = "file" =>
      dest[End(dest, b[2])].content = lib[b[1]][b[2]].content

\* What is copied of a package that is not complete is still to be completed.
WholeInv ==
  /\ pc = "bundle" \/ (outcome = "ok" /\ ~cmd.xpcf) =>
       \A b \in bundled : \A m \in Libraries(b[1]) :
         <<b[1], m>> \in bundled \/ (copying /\ First.at = b[1] /\ m \in left)
  /\ copying => \A m \in Libraries(First.at) : <<First.at, m>> \in bundled \/ m \in left

\* A link that is copied stays in its family.
LEMMA FamilyKept ==
  ASSUME TypeOK, ControlInv, NEW r \in Rank, Ranked(r), Rising(dest, r), NEW h, Families(h),
         InFamily(h), [Next]_vars
  PROVE  InFamily(h)'
<1>1. CASE ~copyFile /\ ~copyLink
  BY <1>1, OtherSteps DEF InFamily
<1>2. CASE copyFile \/ copyLink
  <2>1. First.at \in Dep /\ lib[First.at] \in Folder /\ lib[First.at] \in Releases[First.at]
    BY <1>2, CopySteps
  <2>2. CASE dest' = dest
    BY <2>2 DEF InFamily
  <2>3. ASSUME NEW n \in Name, lib[First.at][n].kind = "file",
               dest' = CopyFile(dest, n, lib[First.at][n])
        PROVE  InFamily(h)'
    BY <2>3 DEF CopyFile, InFamily, LinksOf, TypeOK, Folder
  <2>4. ASSUME NEW n \in Name \intersect Suffixed, lib[First.at][n].kind = "link",
               dest' = CopyLink(dest, n, lib[First.at][n])
        PROVE  InFamily(h)'
    <3>1. n \in LinksOf(lib[First.at]) \intersect Suffixed
      BY <2>4 DEF LinksOf
    <3>2. h[lib[First.at][n].to] = h[n]
      BY <2>1, <3>1 DEF Families
    <3> QED
      BY <2>1, <2>4, <3>2 DEF CopyLink, InFamily, LinksOf, TypeOK, Folder
  <2> QED
    BY <1>2, <2>2, <2>3, <2>4, CopySteps DEF TypeOK
<1> QED
  BY <1>1, <1>2

\* A step that copies nothing ends a command, or leaves what matters to copies alone.
LEMMA QuietSteps ==
  ASSUME TypeOK, ControlInv, [Next]_vars, ~copyFile, ~copyLink
  PROVE  bundled' = {} \/ UNCHANGED <<lib, dest, cmd, bundled>>
<1>1. CASE pc = "idle"
  <2>1. bundled = {}
    BY <1>1 DEF ControlInv
  <2> QED
    BY <2>1, OtherSteps
<1>2. CASE pc # "idle"
  <2>1. CASE Step
    BY <2>1 DEF Step, bundleDependencies, returns, ignoreDependency, bundleByTool,
       withoutLibrary, copyLibraries, withoutModule, copied, bundleDone, bundleXpcf, exit, command
  <2>2. CASE kill \/ UNCHANGED vars
    BY <2>2 DEF kill, vars, command
  <2> QED
    BY <1>2, <2>1, <2>2 DEF Next, bundle, upgrade
<1> QED
  BY <1>1, <1>2

\* A copied link is replaced only by a link of the same name.
LEMMA LinksCurrentKept ==
  ASSUME TypeOK, ControlInv, NEW r \in Rank, Ranked(r), Rising(dest, r), LinksCurrent, [Next]_vars
  PROVE  LinksCurrent'
<1>1. CASE ~copyFile /\ ~copyLink
  BY <1>1, QuietSteps DEF LinksCurrent
<1>2. CASE copyFile \/ copyLink
  <2>1. PICK d \in Dep : d = First.at /\ lib[d] \in Folder
    BY <1>2, CopySteps
  <2>2. lib' = lib
    BY <1>2, CopySteps
  <2>3. CASE UNCHANGED <<dest, bundled>>
    BY <2>2, <2>3 DEF LinksCurrent
  <2>4. ASSUME NEW n \in Name, bundled' = bundled \union {<<d, n>>},
               lib[d][n].kind = "file", dest' = CopyFile(dest, n, lib[d][n])
        PROVE  LinksCurrent'
    <3>1. dest[End(dest, n)].kind # "link"
      BY EndIsEnd
    <3>2. \A z \in Name : dest[z].kind = "link" => dest'[z] = dest[z]
      BY <2>4, <3>1 DEF CopyFile, TypeOK, Folder
    <3>3. ASSUME NEW b \in bundled', \A c \in bundled' : c[2] = b[2] => c = b,
                 lib[b[1]][b[2]].kind = "link"
          PROVE  dest'[b[2]] = lib[b[1]][b[2]]
      <4>1. b \in bundled
        BY <2>4, <3>3
      <4>2. dest[b[2]] = lib[b[1]][b[2]] /\ b[2] \in Name
        BY <2>4, <3>3, <4>1 DEF LinksCurrent, TypeOK
      <4> QED
        BY <3>2, <3>3, <4>2
    <3> QED
      BY <2>2, <3>3 DEF LinksCurrent
  <2>5. ASSUME NEW n \in Name, bundled' = bundled \union {<<d, n>>},
               lib[d][n].kind = "link", dest' = CopyLink(dest, n, lib[d][n])
        PROVE  LinksCurrent'
    <3>1. dest'[n] = lib[d][n] /\ \A z \in Name \ {n} : dest'[z] = dest[z]
      BY <2>5 DEF CopyLink, TypeOK, Folder
    <3>2. ASSUME NEW b \in bundled', \A c \in bundled' : c[2] = b[2] => c = b,
                 lib[b[1]][b[2]].kind = "link"
          PROVE  dest'[b[2]] = lib[b[1]][b[2]]
      <4>1. CASE b[2] = n
        <5>1. b = <<d, n>>
          BY <2>5, <3>2, <4>1
        <5> QED
          BY <3>1, <5>1
      <4>2. CASE b[2] # n
        <5>1. b \in bundled /\ b[2] \in Name
          BY <2>5, <4>2 DEF TypeOK
        <5>2. dest[b[2]] = lib[b[1]][b[2]]
          BY <2>5, <3>2, <5>1 DEF LinksCurrent
        <5> QED
          BY <3>1, <4>2, <5>1, <5>2
      <4> QED
        BY <4>1, <4>2
    <3> QED
      BY <2>2, <3>2 DEF LinksCurrent
  <2> QED
    BY <1>2, <2>1, <2>3, <2>4, <2>5, CopySteps DEF TypeOK
<1> QED
  BY <1>1, <1>2

\* What a bundle has begun to copy, it copies whole or fails.
LEMMA WholeKept ==
  ASSUME TypeOK, ControlInv, WholeInv, [Next]_vars
  PROVE  WholeInv'
<1>1. CASE copyFile \/ copyLink
  <2>1. PICK d \in Dep : d = First.at
    BY <1>1, CopySteps
  <2>2. copying /\ lib' = lib /\ cmd' = cmd
    BY <1>1, CopySteps DEF command
  <2>3. \A e \in Dep : Libraries(e)' = Libraries(e)
    BY <2>2 DEF Libraries
  <2>4. CASE Fail
    <3>1. copying' = FALSE /\ pc' \in {"config", "done"} /\ outcome' # "ok"
      BY <2>2, <2>4, FailTypes DEF ControlInv
    <3> QED
      BY <3>1 DEF WholeInv
  <2>5. CASE ~Fail
    <3>1. PICK n \in left :
            /\ UNCHANGED <<pc, outcome, copying>> /\ First' = First
            /\ left' = left \ {n} /\ bundled \subseteq bundled' /\ bundled' \subseteq bundled \union {<<d, n>>}
            /\ n \in Suffixed => <<d, n>> \in bundled'
      BY <1>1, <2>1, <2>5, CopySteps
    <3>2. \A m \in Libraries(d) : <<d, m>> \in bundled' \/ m \in left'
      BY <2>1, <2>2, <3>1 DEF WholeInv, Libraries
    <3>3. ASSUME pc = "bundle" \/ (outcome = "ok" /\ ~cmd.xpcf),
                 NEW b \in bundled', NEW m \in Libraries(b[1])
          PROVE  <<b[1], m>> \in bundled' \/ (copying /\ d = b[1] /\ m \in left')
      <4>1. CASE b[1] = d
        BY <2>2, <3>2, <3>3, <4>1
      <4>2. CASE b[1] # d
        <5>1. b \in bundled
          BY <3>1, <4>2
        <5> QED
          BY <2>1, <3>1, <3>3, <4>2, <5>1 DEF WholeInv
      <4> QED
        BY <4>1, <4>2
    <3>4. \A b \in bundled' : b[1] \in Dep
      BY <3>1 DEF TypeOK
    <3> QED
      BY <2>1, <2>2, <2>3, <3>1, <3>2, <3>3, <3>4 DEF WholeInv
  <2> QED
    BY <2>4, <2>5
<1>2. CASE copyLibraries
  <2>1. /\ ~copying /\ UNCHANGED <<lib, pc, agenda, outcome, bundled, cmd>>
        /\ agenda # << >> /\ First.is \in {"dependency", "module"}
        /\ left' = FilesOf(lib[First.at]) \union LinksOf(lib[First.at])
    BY <1>2 DEF copyLibraries, command, ToBundle, At
  <2>2. PICK d \in Dep : d = First.at
    BY <2>1, AgendaParts, ItemFacts DEF TypeOK
  <2>3. \A e \in Dep : Libraries(e)' = Libraries(e)
    BY <2>1 DEF Libraries
  <2>4. Libraries(d) \subseteq left'
    <3>1. lib[d] \in Folder
      BY <2>2, InstalledFolders
    <3> QED
      BY <2>1, <2>2, <3>1, Entries DEF Libraries, FilesOf, LinksOf
  <2>5. First' = First
    BY <2>1 DEF First
  <2>6. \A b \in bundled : b[1] \in Dep
    BY DEF TypeOK
  <2> QED
    BY <2>1, <2>2, <2>3, <2>4, <2>5, <2>6 DEF WholeInv
<1>3. CASE ~copyFile /\ ~copyLink /\ ~copyLibraries
  <2>1. CASE pc' \notin {"bundle"} /\ outcome' # "ok" /\ copying' = FALSE
    BY <2>1 DEF WholeInv
  <2>2. CASE UNCHANGED <<lib, pc, cmd, outcome, bundled>> /\ copying' = FALSE /\ (copying => left = {})
    <3>1. \A e \in Dep : Libraries(e)' = Libraries(e)
      BY <2>2 DEF Libraries
    <3>2. \A b \in bundled : b[1] \in Dep
      BY DEF TypeOK
    <3> QED
      BY <2>2, <3>1, <3>2 DEF WholeInv
  <2>3. CASE bundle \/ upgrade \/ exit
    <3>1. bundled' = {} /\ copying' = FALSE
      BY <2>3 DEF bundle, upgrade, exit, ControlInv
    <3> QED
      BY <3>1 DEF WholeInv
  <2>4. CASE kill
    BY <2>1, <2>4 DEF kill, Finish
  <2>5. CASE UNCHANGED vars
    <3>1. First' = First /\ \A e \in Dep : Libraries(e)' = Libraries(e)
      BY <2>5 DEF vars, First, Libraries
    <3> QED
      BY <2>5 DEF vars, WholeInv, Libraries, First
  <2>6. CASE bundleXpcf
    <3>1. pc' \in {"done", "modules"} /\ copying' = FALSE /\ outcome' # "ok"
      BY <2>6 DEF bundleXpcf, Finish, ControlInv, TypeOK
    <3> QED
      BY <2>1, <3>1
  <2>7. CASE bundleDone
    <3>1. /\ pc \in {"bundle", "modules"} /\ agenda = << >> /\ ~copying /\ outcome = "none"
          /\ UNCHANGED <<lib, cmd, bundled>> /\ copying' = FALSE
      BY <2>7 DEF bundleDone, ControlInv, Finish, command
    <3>2. CASE pc' = "config"
      BY <2>1, <2>7, <3>1, <3>2 DEF bundleDone, Finish
    <3>3. CASE pc' # "config"
      <4>1. pc' = "done" /\ ~cmd.xpcf => pc = "bundle"
        BY <3>1, <3>3 DEF ControlInv
      <4>2. pc' = "done"
        BY <2>7, <3>3 DEF bundleDone, Finish
      <4>3. \A e \in Dep : Libraries(e)' = Libraries(e)
        BY <3>1 DEF Libraries
      <4>4. \A b \in bundled : b[1] \in Dep
        BY DEF TypeOK
      <4> QED
        BY <3>1, <4>1, <4>2, <4>3, <4>4 DEF WholeInv
    <3> QED
      BY <3>2, <3>3
  <2>8. CASE copied
    <3>1. /\ copying' = FALSE /\ left = {} /\ UNCHANGED <<lib, cmd, bundled>>
          /\ \/ pc' = "done" /\ outcome' = "killed"
             \/ UNCHANGED <<pc, outcome>>
      BY <2>8 DEF copied, Finish, command
    <3> QED
      BY <2>1, <2>2, <3>1
  <2>9. CASE \/ bundleDependencies \/ returns \/ ignoreDependency \/ bundleByTool
             \/ withoutLibrary \/ withoutModule
    <3>1. ~copying /\ UNCHANGED <<lib, cmd, bundled>> /\ pc \in {"bundle", "modules"}
          /\ outcome = "none"
      BY <2>9 DEF bundleDependencies, returns, ignoreDependency, bundleByTool, withoutLibrary,
                  withoutModule, At, ToBundle, ControlInv, command
    <3>2. Fail \/ UNCHANGED <<pc, copying, outcome>>
      BY <2>9 DEF bundleDependencies, returns, ignoreDependency, bundleByTool, withoutLibrary,
                  withoutModule
    <3>3. CASE Fail
      BY <2>1, <3>1, <3>3, FailTypes
    <3> QED
      BY <2>2, <3>1, <3>2, <3>3 DEF TypeOK
  <2> QED
    BY <1>3, <2>3, <2>4, <2>5, <2>6, <2>7, <2>8, <2>9 DEF Next, Step
<1> QED
  BY <1>1, <1>2, <1>3

\* Neither a file nor a link of another library disturbs where a copied file is.
LEMMA FilesCurrentKept ==
  ASSUME TypeOK, ControlInv, NEW r \in Rank, Ranked(r), LinksLead, NEW h, Families(h),
         Rising(dest, r), Rising(dest', r), InFamily(h), FilesCurrent, [Next]_vars
  PROVE  FilesCurrent'
<1>1. CASE ~copyFile /\ ~copyLink
  BY <1>1, QuietSteps DEF FilesCurrent
<1>2. CASE copyFile \/ copyLink
  <2>1. PICK d \in Dep : d = First.at /\ lib[d] \in Folder /\ lib[d] \in Releases[d]
    BY <1>2, CopySteps
  <2>2. lib' = lib /\ cmd' = cmd /\ dest \in Folder
    BY <1>2, CopySteps DEF command, TypeOK
  <2>3. CASE UNCHANGED <<dest, bundled>>
    BY <2>2, <2>3 DEF FilesCurrent
  <2>4. \A b \in bundled : b[1] \in Dep /\ b[2] \in Libraries(b[1]) /\ b = <<b[1], b[2]>>
                           /\ lib[b[1]] \in Releases[b[1]] /\ b[2] \in Name
    BY InstalledFolders DEF TypeOK, ControlInv
  <2>5. ASSUME NEW b \in bundled, NEW n \in Libraries(d), h[b[2]] = h[n]
        PROVE  b[1] = d
    BY <2>1, <2>4, <2>5 DEF Families, Libraries
  <2>6. ASSUME NEW z \in Name PROVE h[End(dest, z)] = h[z]
    <3> DEFINE A == {y \in Name : h[y] = h[z]}
    <3>1. \A y \in A : dest[y].kind = "link" => dest[y].to \in A
      BY DEF InFamily, LinksOf, Rising
    <3>2. A \in SUBSET Name /\ z \in A
      OBVIOUS
    <3> HIDE DEF A
    <3>3. End(dest, z) \in A
      BY <3>1, <3>2, EndAgree
    <3> QED
      BY <3>3 DEF A
  <2>7. ASSUME cmd.override, NEW n \in Libraries(d), bundled' = bundled \union {<<d, n>>},
               lib[d][n].kind = "file", dest' = CopyFile(dest, n, lib[d][n]),
               NEW b \in bundled', lib[b[1]][b[2]].kind = "file"
        PROVE  dest'[End(dest', b[2])].content = lib[b[1]][b[2]].content
    <3>1. PICK e \in Name : e = End(dest, n) /\ dest[e].kind # "link"
      BY EndIsEnd DEF Libraries
    <3>2. dest' = [dest EXCEPT ![e] = lib[d][n]]
      BY <2>7, <3>1 DEF CopyFile
    <3>3. ASSUME NEW z \in Name PROVE End(dest', z) = End(dest, z)
      <4>1. \A y \in Name : \/ dest[y].kind = "link" /\ dest[y].to \in Name
                               /\ dest'[y].kind = "link" /\ dest'[y].to = dest[y].to
                            \/ dest[y].kind # "link" /\ dest'[y].kind # "link"
        BY <2>2, <2>7, <3>1, <3>2 DEF Folder, Rising, LinksOf
      <4> QED
        BY <4>1, EndAgree
    <3>4. CASE b = <<d, n>>
      BY <2>2, <3>1, <3>2, <3>3, <3>4 DEF Folder, Libraries
    <3>5. CASE b # <<d, n>>
      <4>1. b \in bundled /\ b[2] \in Name /\ b[2] \in Libraries(b[1])
        BY <2>4, <2>7, <3>5
      <4>2. dest[End(dest, b[2])].content = lib[b[1]][b[2]].content
        BY <2>7, <4>1 DEF FilesCurrent
      <4>3. End(dest, b[2]) # e
        <5> SUFFICES ASSUME End(dest, b[2]) = e PROVE FALSE
          OBVIOUS
        <5>1. h[b[2]] = h[n]
          BY <2>6, <3>1, <4>1 DEF Libraries
        <5>2. b[1] = d
          BY <2>5, <4>1, <5>1
        <5>3. b[2] = n
          BY <2>1, <2>7, <4>1, <5>1, <5>2 DEF Families, FilesOf, Libraries
        <5> QED
          BY <2>4, <3>5, <4>1, <5>2, <5>3
      <4>4. End(dest, b[2]) \in Name
        BY <4>1, EndIsEnd
      <4> QED
        BY <2>2, <3>2, <3>3, <4>1, <4>2, <4>3, <4>4 DEF Folder
    <3> QED
      BY <3>4, <3>5
  <2>8. ASSUME cmd.override, NEW n \in Libraries(d), bundled' = bundled \union {<<d, n>>},
               lib[d][n].kind = "link", dest' = CopyLink(dest, n, lib[d][n]),
               dest[n].kind # "file",
               NEW b \in bundled', lib[b[1]][b[2]].kind = "file"
        PROVE  dest'[End(dest', b[2])].content = lib[b[1]][b[2]].content
    <3>1. n \in Name /\ dest' = [dest EXCEPT ![n] = lib[d][n]]
      BY <2>8 DEF CopyLink, Libraries
    <3>2. b \in bundled
      BY <2>8
    <3>3. PICK F \in Name : F = b[2]
      BY <2>4, <3>2
    <3>4. dest[End(dest, F)].content = lib[b[1]][b[2]].content
      BY <2>8, <3>2, <3>3 DEF FilesCurrent
    <3>5. PICK A \in SUBSET Name :
            /\ F \in A /\ End(dest, F) \in A
            /\ \A z \in A : r[F] <= r[z]
                            /\ (z = End(dest, F) \/ (dest[z].kind = "link" /\ dest[z].to \in A))
      BY Chain
    <3> DEFINE B == {z \in A : h[z] = h[F]}
    <3>6. n \notin B
      <4> SUFFICES ASSUME n \in B PROVE FALSE
        OBVIOUS
      <4>1. b[1] = d
        BY <2>5, <2>8, <3>2, <3>3
      <4>2. /\ End(lib[d], n) \in Libraries(d) /\ lib[d][End(lib[d], n)].kind = "file"
            /\ h[End(lib[d], n)] = h[n] /\ r[n] < r[End(lib[d], n)]
        BY <2>8, LibraryEnd
      <4>3. End(lib[d], n) = F
        BY <2>1, <2>4, <2>8, <3>2, <3>3, <4>1, <4>2 DEF Families, FilesOf, Libraries
      <4>4. r[F] <= r[n] /\ r[n] < r[F] /\ r[F] \in Int /\ r[n] \in Int
        BY <3>1, <3>5, <4>2, <4>3, NameCount DEF Rank
      <4> QED
        BY <4>4
    <3>7. /\ F \in B /\ End(dest, F) \in B
          /\ \A z \in B : \/ dest[z].kind = "link" /\ dest[z].to \in B
                             /\ dest'[z].kind = "link" /\ dest'[z].to = dest[z].to
                          \/ dest[z].kind # "link" /\ dest'[z].kind # "link"
      <4>1. F \in B /\ End(dest, F) \in B
        BY <2>6, <3>5
      <4>2. \A z \in B : dest'[z] = dest[z]
        BY <2>2, <3>1, <3>6 DEF Folder
      <4>3. ASSUME NEW z \in B PROVE \/ dest[z].kind = "link" /\ dest[z].to \in B
                                     \/ dest[z].kind # "link"
        <5>1. CASE dest[z].kind = "link"
          <6>1. z # End(dest, F)
            BY <5>1, EndIsEnd
          <6>2. dest[z].to \in A
            BY <3>5, <6>1
          <6>3. h[dest[z].to] = h[z]
            BY <5>1 DEF InFamily, LinksOf
          <6> QED
            BY <5>1, <6>2, <6>3
        <5> QED
          BY <5>1
      <4> HIDE DEF B
      <4> QED
        BY <4>1, <4>2, <4>3
    <3>8. B \in SUBSET Name
      OBVIOUS
    <3> HIDE DEF B
    <3>9. End(dest', F) = End(dest, F)
      BY <3>7, <3>8, EndAgree
    <3>10. End(dest, F) # n /\ End(dest, F) \in Name
      BY <3>6, <3>7, <3>8
    <3> QED
      BY <2>2, <3>1, <3>3, <3>4, <3>9, <3>10 DEF Folder
  <2>9. CASE \E n \in left \intersect Suffixed :
               /\ bundled' = bundled \union {<<First.at, n>>}
               /\ \/ /\ lib[First.at][n].kind = "file"
                     /\ dest' = CopyFile(dest, n, lib[First.at][n])
                  \/ /\ lib[First.at][n].kind = "link" /\ dest[n].kind # "file"
                     /\ dest' = CopyLink(dest, n, lib[First.at][n])
    <3>1. PICK n \in left \intersect Suffixed :
               /\ bundled' = bundled \union {<<d, n>>}
               /\ \/ /\ lib[d][n].kind = "file"
                     /\ dest' = CopyFile(dest, n, lib[d][n])
                  \/ /\ lib[d][n].kind = "link" /\ dest[n].kind # "file"
                     /\ dest' = CopyLink(dest, n, lib[d][n])
      BY <2>1, <2>9
    <3>2. n \in Libraries(d)
      BY <3>1 DEF Libraries, TypeOK, Absent
    <3>3. ASSUME cmd.override, NEW b \in bundled', lib[b[1]][b[2]].kind = "file"
          PROVE  dest'[End(dest', b[2])].content = lib[b[1]][b[2]].content
      BY <2>7, <2>8, <3>1, <3>2, <3>3
    <3> QED
      BY <2>2, <3>3 DEF FilesCurrent
  <2> QED
    BY <1>2, <2>3, <2>9, CopySteps
<1> QED
  BY <1>1, <1>2

CurrentInv(r, h) ==
  /\ TypeOK /\ ControlInv /\ Rising(dest, r) /\ InFamily(h)
  /\ LinksCurrent /\ FilesCurrent /\ WholeInv

\* The invariant of current destinations.
LEMMA CurrentInvHolds ==
  ASSUME NEW r \in Rank, Ranked(r), LinksLead, NEW h, Families(h)
  PROVE  /\ Init => CurrentInv(r, h)
         /\ CurrentInv(r, h) /\ [Next]_vars => CurrentInv(r, h)'
<1>1. ASSUME Init PROVE CurrentInv(r, h)
  <2>1. bundled = {} /\ ~copying /\ LinksOf(dest) = {}
    BY <1>1 DEF Init, LinksOf, NoFolder, Absent
  <2>2. Rising(dest, r) /\ InFamily(h)
    BY <2>1 DEF Rising, InFamily
  <2>3. LinksCurrent /\ FilesCurrent /\ WholeInv
    BY <2>1 DEF LinksCurrent, FilesCurrent, WholeInv
  <2> QED
    BY <1>1, <2>2, <2>3, BundleInit DEF CurrentInv
<1>2. ASSUME CurrentInv(r, h), [Next]_vars PROVE CurrentInv(r, h)'
  <2>1. TypeOK' /\ ControlInv' /\ Rising(dest, r)'
    BY <1>2, TypesKept, ControlKept, RisingKept DEF CurrentInv
  <2>2. InFamily(h)' /\ LinksCurrent' /\ WholeInv'
    BY <1>2, FamilyKept, LinksCurrentKept, WholeKept DEF CurrentInv
  <2>3. FilesCurrent'
    BY <1>2, <2>1, FilesCurrentKept DEF CurrentInv
  <2> QED
    BY <2>1, <2>2, <2>3 DEF CurrentInv
<1> QED
  BY <1>1, <1>2

\* Of a package copied whole, a name leads to what it leads to in the package.
LEMMA WholeLeadsAlike ==
  ASSUME NEW r \in Rank, Ranked(r), LinksLead, NEW h, Families(h), CurrentInv(r, h),
         cmd.override, NEW b \in bundled, Whole(b[1])
  PROVE  dest[End(dest, b[2])].content = lib[b[1]][End(lib[b[1]], b[2])].content
<1> USE DEF CurrentInv
<1>1. PICK d \in Dep : d = b[1]
  BY DEF TypeOK
<1>2. PICK n \in Libraries(d) : n = b[2]
  BY <1>1 DEF ControlInv
<1>3. n \in Name /\ lib[d] \in Folder /\ lib[d] \in Releases[d] /\ Rising(lib[d], r)
  BY <1>2, InstalledFolders DEF TypeOK, Ranked, Libraries
<1>4. PICK e \in Libraries(d) : e = End(lib[d], n) /\ lib[d][e].kind = "file"
  BY LibraryEnd
<1>5. <<d, e>> \in bundled
  BY <1>1, <1>4 DEF Whole
<1>6. dest[End(dest, e)].content = lib[d][e].content
  BY <1>4, <1>5 DEF FilesCurrent
<1> DEFINE A == {z \in Libraries(d) : h[z] = h[n]}
<1>7. \A z \in A : lib[d][z].kind = "link" =>
        lib[d][z].to \in A /\ dest[z].kind = "link" /\ dest[z].to = lib[d][z].to
  <2> SUFFICES ASSUME NEW z \in A, lib[d][z].kind = "link"
               PROVE  /\ lib[d][z].to \in A
                      /\ dest[z].kind = "link" /\ dest[z].to = lib[d][z].to
    OBVIOUS
  <2>1. z \in LinksOf(lib[d]) \intersect Suffixed
    BY DEF Libraries, LinksOf
  <2>2. lib[d][z].to \in Suffixed /\ lib[d][lib[d][z].to] # Absent
    BY <1>3, <2>1 DEF LinksLead
  <2>3. h[lib[d][z].to] = h[n] /\ lib[d][z].to \in Name
    BY <1>3, <2>1 DEF Families, Rising
  <2>4. <<d, z>> \in bundled
    BY <1>1 DEF Whole
  <2>5. ASSUME NEW c \in bundled, c[2] = z PROVE c = <<d, z>>
    <3>1. c = <<c[1], c[2]>> /\ c[1] \in Dep /\ c[2] \in Libraries(c[1])
          /\ lib[c[1]] \in Releases[c[1]]
      BY DEF TypeOK, ControlInv
    <3>2. c[1] = d
      BY <1>3, <2>5, <3>1 DEF Families, Libraries
    <3> QED
      BY <2>5, <3>1, <3>2
  <2>6. dest[z] = lib[d][z]
    <3>1. PICK c \in bundled : c = <<d, z>>
      BY <2>4
    <3>2. \A x \in bundled : x[2] = c[2] => x = c
      BY <2>5, <3>1
    <3> QED
      BY <3>1, <3>2 DEF LinksCurrent
  <2> QED
    BY <2>2, <2>3, <2>6 DEF Libraries
<1>8. A \in SUBSET Name /\ n \in A
  BY DEF Libraries
<1> HIDE DEF A
<1>9. End(dest, e) = End(dest, n)
  BY <1>3, <1>4, <1>7, <1>8, EndThrough
<1> QED
  BY <1>1, <1>2, <1>4, <1>6, <1>9

\* A link that a command copied stands in the destination as it is in its package,
\* whatever earlier commands left there and however this one goes on, as long as no other
\* package has a library of the name.
THEOREM LinksAreCurrent ==
  ASSUME NEW r \in Rank, Ranked(r)
  PROVE  Spec => []LinksCurrent
<1> DEFINE LInv == TypeOK /\ ControlInv /\ Rising(dest, r) /\ LinksCurrent
<1>1. ASSUME Init PROVE LInv
  <2>1. bundled = {} /\ LinksOf(dest) = {}
    BY <1>1 DEF Init, LinksOf, NoFolder, Absent
  <2> QED
    BY <1>1, <2>1, BundleInit DEF Rising, LinksCurrent
<1>2. LInv /\ [Next]_vars => LInv'
  BY TypesKept, ControlKept, RisingKept, LinksCurrentKept
<1>3. LInv => LinksCurrent
  OBVIOUS
<1> HIDE DEF LInv
<1> QED
  BY <1>1, <1>2, <1>3, PTL DEF Spec

\* A bundle that succeeds leaves the releases it found, not those of earlier bundles: the
\* links of its packages and, with --override, the files they lead to, if every name
\* belongs to one package's family of a file and its links.
THEOREM DestinationsAreCurrent ==
  ASSUME NEW r \in Rank, Ranked(r), LinksLead, NEW h, Families(h)
  PROVE  Spec => []DestinationCurrent
<1>1. ASSUME CurrentInv(r, h) PROVE DestinationCurrent
  <2> USE DEF CurrentInv
  <2> SUFFICES ASSUME Succeeds, NEW b \in bundled, \A c \in bundled : c[2] = b[2] => c = b
               PROVE  /\ lib[b[1]][b[2]].kind = "link" => dest[b[2]] = lib[b[1]][b[2]]
                      /\ cmd.override /\ (cmd.xpcf => Whole(b[1])) =>
                           dest[End(dest, b[2])].content = lib[b[1]][End(lib[b[1]], b[2])].content
    BY DEF DestinationCurrent
  <2>1. lib[b[1]][b[2]].kind = "link" => dest[b[2]] = lib[b[1]][b[2]]
    BY <1>1 DEF LinksCurrent
  <2>2. ~cmd.xpcf => Whole(b[1])
    BY <1>1 DEF Succeeds, ControlInv, WholeInv, Whole
  <2>3. cmd.override /\ (cmd.xpcf => Whole(b[1])) =>
          dest[End(dest, b[2])].content = lib[b[1]][End(lib[b[1]], b[2])].content
    BY <1>1, <2>2, WholeLeadsAlike
  <2> QED
    BY <2>1, <2>3
<1> QED
  BY <1>1, CurrentInvHolds, PTL DEF Spec

=============================================================================
