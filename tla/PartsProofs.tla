---------------------------- MODULE PartsProofs ----------------------------
(***************************************************************************)
(* Theorems about three parts that stand alone.  The texts and values of   *)
(* tinyxml2 (module XmlText) are converted in place, and what is printed   *)
(* is read back.  The install script of the packaging tools (module        *)
(* SystemTools) is that of the lines of its bundle.  The search path of    *)
(* run (module Environment) has the libraries that are needed.             *)
(***************************************************************************)
EXTENDS XmlText, SystemTools, Environment, TLAPS, SequenceTheorems, WellFoundedInduction

----------------------------------------------------------------------------
(* Texts *)

\* Induction on the numbers up to K, for a set.
LEMMA UpTo ==
  ASSUME NEW K \in Nat, NEW T, 0 \in T, \A i \in 0..(K-1) : i \in T => i + 1 \in T
  PROVE  0..K \subseteq T
<1> DEFINE less == {ss \in Nat \X Nat : ss[1] < ss[2]}
           Bad == {i \in 0..K : i \notin T}
<1>1. IsWellFoundedOn(less, Nat)
  BY NatLessThanWellFounded DEF OpToRel
<1>2. Bad \subseteq Nat
  OBVIOUS
<1>3. SUFFICES ASSUME Bad # {} PROVE FALSE
  OBVIOUS
<1> HIDE DEF less
<1>4. PICK i \in Bad : \A j \in Bad : <<j, i>> \notin less
  <2> HIDE DEF Bad
  <2> QED
    BY <1>1, <1>2, <1>3, WFMin
<1>5. i \in 1..K
  BY <1>4
<1>6. i - 1 \in Bad
  BY <1>4, <1>5
<1>7. <<i - 1, i>> \in less
  BY <1>5 DEF less
<1> QED
  BY <1>4, <1>6, <1>7

----------------------------------------------------------------------------
(* Sequences one behind the other *)

\* Sequences of a wider set.
LEMMA SeqWider == \A A, B : A \subseteq B => Seq(A) \subseteq Seq(B)
  BY SeqMonotonic

\* A sequence behind another one.
LEMMA ConcatParts ==
  ASSUME NEW S, NEW x \in Seq(S), NEW y \in Seq(S)
  PROVE  /\ x \o y \in Seq(S) /\ Len(x \o y) = Len(x) + Len(y)
         /\ \A k \in 1..Len(x) : (x \o y)[k] = x[k]
         /\ \A k \in 1..Len(y) : (x \o y)[Len(x) + k] = y[k]
  OBVIOUS

\* F[i] is the first i of the sequences s one behind the other.
Heads(F, s, S) ==
  /\ F \in [0..Len(s) -> Seq(S)] /\ F[0] = << >>
  /\ \A i \in 1..Len(s) : F[i] = F[i - 1] \o s[i]

\* How long it is.
Width(F, i) == Len(F[i])

\* There are such F.
LEMMA HeadsExist ==
  \A S : \A s \in Seq(Seq(S)) : \E F : Heads(F, s, S)
<1> TAKE S
<1> TAKE s \in Seq(Seq(S))
<1> DEFINE n == Len(s)
           Good(g, k) == /\ g \in [0..k -> Seq(S)] /\ g[0] = << >>
                         /\ \A i \in 1..k : g[i] = g[i - 1] \o s[i]
           T == {k \in 0..n : \E g : Good(g, k)}
<1>1. n \in Nat /\ \A i \in 1..n : s[i] \in Seq(S)
  OBVIOUS
<1>2. 0 \in T
  <2>1. Good([i \in 0..0 |-> << >>], 0)
    OBVIOUS
  <2>2. 0 \in 0..n
    BY <1>1
  <2> HIDE DEF Good, n
  <2> QED
    BY <2>1, <2>2
<1>3. ASSUME NEW k \in 0..(n - 1), k \in T PROVE k + 1 \in T
  <2>1. PICK g : Good(g, k)
    BY <1>3
  <2> DEFINE h == [i \in 0..(k + 1) |-> IF i = k + 1 THEN g[k] \o s[k + 1] ELSE g[i]]
  <2>2. g[k] \o s[k + 1] \in Seq(S)
    BY <1>1, <2>1
  <2>3. h \in [0..(k + 1) -> Seq(S)] /\ h[0] = << >>
    BY <1>1, <2>1, <2>2
  <2>4. ASSUME NEW i \in 1..(k + 1) PROVE h[i] = h[i - 1] \o s[i]
    <3>1. CASE i = k + 1
      <4>1. k # k + 1 /\ k \in 0..(k + 1) /\ k + 1 \in 0..(k + 1) /\ i - 1 = k
        BY <1>1, <3>1
      <4>2. h[k + 1] = g[k] \o s[k + 1] /\ h[k] = g[k]
        BY <4>1
      <4> QED
        BY <3>1, <4>1, <4>2
    <3>2. CASE i \in 1..k
      <4>1. i # k + 1 /\ i - 1 # k + 1 /\ i \in 0..(k + 1) /\ i - 1 \in 0..(k + 1)
        BY <1>1, <3>2
      <4>2. h[i] = g[i] /\ h[i - 1] = g[i - 1]
        BY <4>1
      <4> QED
        BY <2>1, <3>2, <4>2
    <3>3. i = k + 1 \/ i \in 1..k
      BY <1>1
    <3> QED
      BY <3>1, <3>2, <3>3
  <2>5. Good(h, k + 1)
    BY <2>3, <2>4
  <2>6. k + 1 \in 0..n
    BY <1>1
  <2> QED
    BY <2>5, <2>6
<1>4. 0..n \subseteq T
  <2> HIDE DEF T
  <2> QED
    BY <1>1, <1>2, <1>3, UpTo
<1>5. n \in T
  <2> HIDE DEF T
  <2>1. n \in 0..n
    BY <1>1
  <2> QED
    BY <2>1, <1>4
<1>6. PICK g : Good(g, n)
  BY <1>5
<1>7. Heads(g, s, S)
  BY <1>6 DEF Heads
<1> QED
  BY <1>7

\* FlattenSeq is the last of them.
LEMMA FlattenHeads ==
  \A S : \A s \in Seq(Seq(S)) : \A F : Heads(F, s, S) => FlattenSeq(s) = F[Len(s)]
<1> TAKE S
<1> TAKE s \in Seq(Seq(S))
<1> TAKE F
<1> SUFFICES ASSUME Heads(F, s, S) PROVE FlattenSeq(s) = F[Len(s)]
  OBVIOUS
<1> DEFINE n == Len(s)
           Rule(f) == f = [i \in 1..n |-> IF i = 1 THEN s[i] ELSE f[i - 1] \o s[i]]
           f == CHOOSE f : Rule(f)
<1>1. n \in Nat /\ \A i \in 1..n : s[i] \in Seq(S)
  OBVIOUS
<1>4. ASSUME n > 0 PROVE F[1] = s[1]
  <2>1. 1 \in 1..n /\ 1 - 1 = 0
    BY <1>1, <1>4
  <2>2. F[1] = F[0] \o s[1] /\ F[0] = << >>
    BY <2>1 DEF Heads
  <2>3. s[1] \in Seq(S)
    BY <1>1, <2>1
  <2> QED
    BY <2>2, <2>3, ConcatEmptySeq
<1>2. CASE n = 0
  BY <1>2 DEF FlattenSeq, Heads
<1>3. CASE n > 0
  <2>1. Rule([i \in 1..n |-> F[i]])
    <3>1. \A i \in 1..n : F[i] = IF i = 1 THEN s[i] ELSE F[i - 1] \o s[i]
      <4>1. F[1] = s[1]
        BY <1>3, <1>4
      <4> QED
        BY <4>1 DEF Heads
    <3> QED
      BY <1>1, <3>1
  <2>2. Rule(f)
    <3> HIDE DEF Rule
    <3> QED
      BY <2>1
  <2>3. FlattenSeq(s) = f[n]
    BY <1>3 DEF FlattenSeq
  <2> DEFINE T == {i \in 0..n : i = 0 \/ f[i] = F[i]}
  <2>4. ASSUME NEW i \in 0..(n - 1), i \in T PROVE i + 1 \in T
    <3> HIDE DEF f
    <3> DEFINE j == i + 1
    <3>1. j \in 1..n /\ j - 1 = i
      BY <1>1
    <3>2. f[j] = IF j = 1 THEN s[j] ELSE f[j - 1] \o s[j]
      <4> HIDE DEF j
      <4> QED
        BY <1>1, <2>2, <3>1
    <3>3. j = 1 => F[j] = s[j]
      BY <1>3, <1>4
    <3>4. F[j] = F[j - 1] \o s[j]
      <4> HIDE DEF j
      <4> QED
        BY <3>1 DEF Heads
    <3>5. j # 1 => f[i] = F[i]
      BY <2>4
    <3>6. f[j] = F[j]
      <4> HIDE DEF j
      <4> QED
        BY <3>1, <3>2, <3>3, <3>4, <3>5
    <3>7. j \in 0..n
      BY <1>1
    <3> QED
      BY <3>6, <3>7
  <2>5. 0 \in T
    BY <1>1
  <2>6. 0..n \subseteq T
    <3> HIDE DEF T, f
    <3> QED
      BY <1>1, <2>4, <2>5, UpTo
  <2>7. n \in T
    <3> HIDE DEF T, f
    <3>1. n \in 0..n
      BY <1>1
    <3> QED
      BY <2>6, <3>1
  <2> QED
    BY <1>3, <2>3, <2>7
<1> QED
  BY <1>1, <1>2, <1>3

\* The elements of a sequence behind another one.
LEMMA ConcatRange ==
  ASSUME NEW S, NEW x \in Seq(S), NEW y \in Seq(S)
  PROVE  Range(x \o y) = Range(x) \union Range(y)
<1>1. DOMAIN (x \o y) = 1..(Len(x) + Len(y)) /\ DOMAIN x = 1..Len(x) /\ DOMAIN y = 1..Len(y)
  OBVIOUS
<1>2. \A k \in 1..(Len(x) + Len(y)) :
        (x \o y)[k] = IF k <= Len(x) THEN x[k] ELSE y[k - Len(x)]
  OBVIOUS
<1>3. Range(x \o y) \subseteq Range(x) \union Range(y)
  <2> SUFFICES ASSUME NEW k \in 1..(Len(x) + Len(y)) PROVE (x \o y)[k] \in Range(x) \union Range(y)
    BY <1>1 DEF Range
  <2> QED
    BY <1>1, <1>2 DEF Range
<1>4. Range(x) \subseteq Range(x \o y)
  <2> SUFFICES ASSUME NEW k \in 1..Len(x) PROVE x[k] \in Range(x \o y)
    BY <1>1 DEF Range
  <2>1. k \in DOMAIN (x \o y) /\ (x \o y)[k] = x[k]
    BY <1>1, <1>2
  <2> QED
    BY <2>1 DEF Range
<1>5. Range(y) \subseteq Range(x \o y)
  <2> SUFFICES ASSUME NEW k \in 1..Len(y) PROVE y[k] \in Range(x \o y)
    BY <1>1 DEF Range
  <2>1. Len(x) + k \in DOMAIN (x \o y) /\ (x \o y)[Len(x) + k] = y[k]
    BY <1>1, ConcatParts
  <2> QED
    BY <2>1 DEF Range
<1> QED
  BY <1>3, <1>4, <1>5

\* The elements of sequences one behind the other.
LEMMA FlattenRange ==
  \A S : \A s \in Seq(Seq(S)) :
    /\ FlattenSeq(s) \in Seq(S)
    /\ Range(FlattenSeq(s)) = UNION {Range(s[i]) : i \in DOMAIN s}
<1> TAKE S
<1> TAKE s \in Seq(Seq(S))
<1> DEFINE n == Len(s)
           Of(k) == UNION {Range(s[i]) : i \in 1..k}
<1>1. n \in Nat /\ DOMAIN s = 1..n /\ \A i \in 1..n : s[i] \in Seq(S)
  OBVIOUS
<1>2. PICK F : Heads(F, s, S)
  BY HeadsExist
<1>3. F \in [0..n -> Seq(S)] /\ F[0] = << >> /\ \A i \in 1..n : F[i] = F[i - 1] \o s[i]
  BY <1>2 DEF Heads
<1> DEFINE T == {k \in 0..n : Range(F[k]) = Of(k)}
<1>4. 0 \in T
  <2>1. 0 \in 0..n
    BY <1>1
  <2>2. Range(<< >>) = {} /\ 1..0 = {}
    BY DEF Range
  <2>3. Of(0) = {}
    BY <2>2
  <2> QED
    BY <1>3, <2>1, <2>2, <2>3
<1>5. ASSUME NEW k \in 0..(n - 1), k \in T PROVE k + 1 \in T
  <2>1. k + 1 \in 1..n /\ k + 1 \in 0..n /\ (k + 1) - 1 = k /\ k \in 0..n
    BY <1>1
  <2>2. F[k + 1] = F[k] \o s[k + 1]
    <3>1. F[k + 1] = F[(k + 1) - 1] \o s[k + 1]
      BY <1>3, <2>1
    <3> QED
      BY <2>1, <3>1
  <2>3. F[k] \in Seq(S) /\ s[k + 1] \in Seq(S)
    BY <1>1, <1>3, <2>1
  <2>4. Range(F[k + 1]) = Range(F[k]) \union Range(s[k + 1])
    BY <2>2, <2>3, ConcatRange
  <2>5. 1..(k + 1) = (1..k) \union {k + 1}
    BY <1>1
  <2>6. Of(k + 1) = Of(k) \union Range(s[k + 1])
    BY <2>5
  <2>7. Range(F[k]) = Of(k)
    BY <1>5
  <2> HIDE DEF Of
  <2> QED
    BY <2>1, <2>4, <2>6, <2>7
<1>6. 0..n \subseteq T
  <2> HIDE DEF T
  <2> QED
    BY <1>1, <1>4, <1>5, UpTo
<1>7. Range(F[n]) = Of(n) /\ n \in 0..n
  <2>1. n \in 0..n
    BY <1>1
  <2>2. n \in T
    BY <1>6, <2>1
  <2> HIDE DEF Of
  <2> QED
    BY <2>1, <2>2
<1>8. FlattenSeq(s) = F[n]
  BY <1>2, FlattenHeads
<1> QED
  BY <1>1, <1>3, <1>7, <1>8

\* One sequence more.
LEMMA HeadsStep ==
  \A S : \A s \in Seq(Seq(S)) : \A F : Heads(F, s, S) => \A b \in 1..Len(s) :
    /\ F[b - 1] \in Seq(S) /\ F[b] \in Seq(S) /\ s[b] \in Seq(S)
    /\ Width(F, b - 1) \in Nat /\ Width(s, b) \in Nat
    /\ Width(F, b) = Width(F, b - 1) + Width(s, b)
    /\ \A k \in 1..Width(F, b - 1) : F[b][k] = F[b - 1][k]
    /\ \A k \in 1..Width(s, b) : F[b][Width(F, b - 1) + k] = s[b][k]
<1> TAKE S
<1> TAKE s \in Seq(Seq(S))
<1> TAKE F
<1> HAVE Heads(F, s, S)
<1> TAKE b \in 1..Len(s)
<1> DEFINE a == b - 1
           x == F[a]
           y == s[b]
<1>1. a \in 0..Len(s) /\ b \in 0..Len(s)
  OBVIOUS
<1>2. x \in Seq(S) /\ y \in Seq(S) /\ F[b] \in Seq(S) /\ F[b] = x \o y
  <2>1. F \in [0..Len(s) -> Seq(S)] /\ F[b] = F[b - 1] \o s[b]
    BY DEF Heads
  <2>2. F[b] \in Seq(S) /\ F[a] \in Seq(S)
    BY <1>1, <2>1
  <2>3. s[b] \in Seq(S)
    OBVIOUS
  <2> QED
    BY <2>1, <2>2, <2>3
<1> HIDE DEF x, y
<1>3. /\ Len(x \o y) = Len(x) + Len(y)
      /\ \A k \in 1..Len(x) : (x \o y)[k] = x[k]
      /\ \A k \in 1..Len(y) : (x \o y)[Len(x) + k] = y[k]
  BY <1>2, ConcatParts
<1>4. Len(x) \in Nat /\ Len(y) \in Nat
  BY <1>2
<1>5. Width(F, b - 1) = Len(x) /\ Width(s, b) = Len(y) /\ Width(F, b) = Len(x \o y)
  BY <1>2 DEF Width, x, y
<1>6. F[b - 1] = x /\ s[b] = y
  BY DEF x, y
<1> QED
  BY <1>2, <1>3, <1>4, <1>5, <1>6

\* The first i and the first j, i no more than j, are alike as far as they both go.
LEMMA HeadsGrow ==
  \A S : \A s \in Seq(Seq(S)) : \A F : Heads(F, s, S) =>
    \A i \in 0..Len(s) : \A j \in i..Len(s) :
      /\ Width(F, i) \in Nat /\ Width(F, i) <= Width(F, j)
      /\ \A k \in 1..Width(F, i) : F[j][k] = F[i][k]
<1> TAKE S
<1> TAKE s \in Seq(Seq(S))
<1> TAKE F
<1> HAVE Heads(F, s, S)
<1>s. \A b \in 1..Len(s) :
        /\ F[b - 1] \in Seq(S) /\ F[b] \in Seq(S) /\ s[b] \in Seq(S)
        /\ Width(F, b - 1) \in Nat /\ Width(s, b) \in Nat
        /\ Width(F, b) = Width(F, b - 1) + Width(s, b)
        /\ \A k \in 1..Width(F, b - 1) : F[b][k] = F[b - 1][k]
        /\ \A k \in 1..Width(s, b) : F[b][Width(F, b - 1) + k] = s[b][k]
  BY HeadsStep
<1> TAKE i \in 0..Len(s)
<1> DEFINE n == Len(s)
           Fits(j) == /\ Width(F, i) <= Width(F, j)
                      /\ \A k \in 1..Width(F, i) : F[j][k] = F[i][k]
           T == {d \in 0..(n - i) : Fits(i + d)}
<1>1. n \in Nat
  OBVIOUS
<1>2. Width(F, i) \in Nat
  <2>1. F \in [0..Len(s) -> Seq(S)]
    BY DEF Heads
  <2>2. F[i] \in Seq(S)
    BY <2>1
  <2> QED
    BY <2>2 DEF Width
<1>3. 0 \in T
  BY <1>1, <1>2
<1>4. ASSUME NEW d \in 0..(n - i - 1), d \in T PROVE d + 1 \in T
  <2> DEFINE b == i + d + 1
  <2>1. b \in 1..Len(s) /\ b - 1 = i + d /\ d + 1 \in 0..(n - i) /\ i + (d + 1) = b
    BY <1>1
  <2>2. Fits(b - 1)
    BY <1>4, <2>1
  <2> HIDE DEF b
  <2>3. /\ Width(F, b - 1) \in Nat /\ Width(s, b) \in Nat
        /\ Width(F, b) = Width(F, b - 1) + Width(s, b)
        /\ \A k \in 1..Width(F, b - 1) : F[b][k] = F[b - 1][k]
    BY <2>1, <1>s
  <2>4. Width(F, i) <= Width(F, b)
    BY <1>2, <2>2, <2>3
  <2>5. ASSUME NEW k \in 1..Width(F, i) PROVE F[b][k] = F[i][k]
    <3>1. k \in 1..Width(F, b - 1)
      BY <1>2, <2>2, <2>3
    <3>2. F[b - 1][k] = F[i][k]
      BY <2>2
    <3> QED
      BY <2>3, <3>1, <3>2
  <2> QED
    BY <2>1, <2>4, <2>5
<1>5. 0..(n - i) \subseteq T
  <2> HIDE DEF T
  <2>1. n - i \in Nat
    BY <1>1
  <2> QED
    BY <2>1, <1>3, <1>4, UpTo
<1>6. ASSUME NEW j \in i..n PROVE Fits(j)
  <2>1. j - i \in 0..(n - i) /\ i + (j - i) = j
    BY <1>1
  <2>2. j - i \in T
    <3> HIDE DEF T
    <3> QED
      BY <1>5, <2>1
  <2> QED
    BY <2>1, <2>2
<1> QED
  BY <1>2, <1>6

----------------------------------------------------------------------------
(* Entities and character references *)

Code(e) == <<AMP>> \o e.pattern \o <<SEMI>>

\* The five entities are told apart by their values, and by their first two letters.
LEMMA EntityFacts ==
  /\ \A e \in entities :
       /\ e.value \in {QUOT, AMP, APOS, LT, GT}
       /\ e.pattern \in Seq(97..122) /\ Len(e.pattern) \in 2..4
  /\ \A e, f \in entities :
       e.value = f.value \/ (e.pattern[1] = f.pattern[1] /\ e.pattern[2] = f.pattern[2]) => e = f
<1>a. <<113, 117, 111, 116>> \in Seq(97..122) /\ Len(<<113, 117, 111, 116>>) \in 2..4
  OBVIOUS
<1>b. <<97, 109, 112>> \in Seq(97..122) /\ Len(<<97, 109, 112>>) \in 2..4
  OBVIOUS
<1>c. <<97, 112, 111, 115>> \in Seq(97..122) /\ Len(<<97, 112, 111, 115>>) \in 2..4
  OBVIOUS
<1>d. <<108, 116>> \in Seq(97..122) /\ Len(<<108, 116>>) \in 2..4
  OBVIOUS
<1>e. <<103, 116>> \in Seq(97..122) /\ Len(<<103, 116>>) \in 2..4
  OBVIOUS
<1>1. \A e \in entities :
        /\ e.value \in {QUOT, AMP, APOS, LT, GT}
        /\ e.pattern \in Seq(97..122) /\ Len(e.pattern) \in 2..4
  <2> TAKE e \in entities
  <2>1. /\ e.value \in {QUOT, AMP, APOS, LT, GT}
        /\ e.pattern \in {<<113, 117, 111, 116>>, <<97, 109, 112>>, <<97, 112, 111, 115>>,
                         <<108, 116>>, <<103, 116>>}
    BY DEF entities
  <2>2. CASE e.pattern = <<113, 117, 111, 116>>
    BY <2>1, <2>2, <1>a
  <2>3. CASE e.pattern = <<97, 109, 112>>
    BY <2>1, <2>3, <1>b
  <2>4. CASE e.pattern = <<97, 112, 111, 115>>
    BY <2>1, <2>4, <1>c
  <2>5. CASE e.pattern = <<108, 116>>
    BY <2>1, <2>5, <1>d
  <2>6. CASE e.pattern = <<103, 116>>
    BY <2>1, <2>6, <1>e
  <2> QED
    BY <2>1, <2>2, <2>3, <2>4, <2>5, <2>6
<1>2. \A e, f \in entities : e.value = f.value => e = f
  BY DEF entities, QUOT, AMP, APOS, LT, GT
<1>3. \A e, f \in entities : e.pattern[1] = f.pattern[1] /\ e.pattern[2] = f.pattern[2] => e = f
  BY DEF entities, QUOT, AMP, APOS, LT, GT
<1> QED
  BY <1>1, <1>2, <1>3

\* What is written for a character that is an entity.
LEMMA CodeFacts ==
  ASSUME NEW e \in entities
  PROVE  /\ Code(e) \in Seq({AMP, SEMI} \union 97..122) /\ Len(Code(e)) = Len(e.pattern) + 2
         /\ Len(e.pattern) \in 2..4
         /\ Code(e)[1] = AMP /\ Code(e)[2] = e.pattern[1] /\ Code(e)[3] = e.pattern[2]
         /\ Code(e)[Len(e.pattern) + 2] = SEMI
<1> DEFINE S == {AMP, SEMI} \union 97..122
           s == <<AMP>> \o e.pattern
<1>1. e.pattern \in Seq(97..122) /\ Len(e.pattern) \in 2..4
  BY EntityFacts
<1>2. e.pattern \in Seq(S) /\ <<AMP>> \in Seq(S) /\ <<SEMI>> \in Seq(S)
  BY <1>1
<1> HIDE DEF S
<1>3. /\ s \in Seq(S) /\ Len(s) = Len(e.pattern) + 1
      /\ s[1] = AMP /\ s[2] = e.pattern[1] /\ s[3] = e.pattern[2]
  BY <1>1, <1>2
<1> HIDE DEF s
<1>4. /\ s \o <<SEMI>> \in Seq(S) /\ Len(s \o <<SEMI>>) = Len(e.pattern) + 2
      /\ \A i \in 1..Len(s) : (s \o <<SEMI>>)[i] = s[i]
      /\ (s \o <<SEMI>>)[Len(s) + 1] = SEMI
  <2>1. Len(<<SEMI>>) = 1 /\ <<SEMI>>[1] = SEMI
    OBVIOUS
  <2> QED
    BY <1>1, <1>2, <1>3, <2>1, ConcatProperties
<1>5. Code(e) = s \o <<SEMI>>
  BY DEF Code, s
<1> QED
  BY <1>1, <1>3, <1>4, <1>5 DEF S

\* What stands where an entity is found.
LEMMA EntityFound ==
  ASSUME NEW t, NEW i \in Nat \ {0}, NEW e \in EntityAt(t, i), Len(t) \in Nat,
         DOMAIN t = 1..Len(t)
  PROVE  /\ e \in entities /\ Len(e.pattern) \in 2..4 /\ i + Len(e.pattern) + 1 <= Len(t)
         /\ \A j \in 1..(Len(e.pattern) + 2) : t[i + j - 1] = Code(e)[j]
<1> DEFINE n == Len(e.pattern) + 2
<1>1. e \in entities /\ AtPlace(Code(e), t, i)
  BY DEF EntityAt, Code
<1>2. Len(Code(e)) = n /\ Len(e.pattern) \in 2..4
  BY <1>1, CodeFacts
<1>3. i + n - 1 <= Len(t) /\ SubSeq(t, i, i + n - 1) = Code(e)
  BY <1>1, <1>2 DEF AtPlace
<1>4. ASSUME NEW j \in 1..n PROVE t[i + j - 1] = Code(e)[j]
  <2>1. SubSeq(t, i, i + n - 1)[j] = t[i + j - 1]
    BY <1>2, <1>3
  <2> QED
    BY <1>3, <2>1
<1> QED
  BY <1>1, <1>2, <1>3, <1>4

\* One to four bytes are written for a character.
LEMMA ConvertedLength ==
  ASSUME NEW u
  PROVE  /\ Len(ConvertUTF32ToUTF8(u)) \in 0..4
         /\ DOMAIN ConvertUTF32ToUTF8(u) = 1..Len(ConvertUTF32ToUTF8(u))
         /\ u = 0 => Len(ConvertUTF32ToUTF8(u)) = 1
<1> DEFINE n == IF u < 128 THEN 1 ELSE IF u < 2048 THEN 2 ELSE IF u < 65536 THEN 3
                ELSE IF u < 2097152 THEN 4 ELSE 0
           byte(i) == IF i = 1 THEN <<0, 192, 224, 240>>[n] + (u \div 64 ^ (n - 1))
                      ELSE 128 + ((u \div 64 ^ (n - i)) % 64)
<1>1. ConvertUTF32ToUTF8(u) = [i \in 1..n |-> byte(i)]
  BY DEF ConvertUTF32ToUTF8
<1>2. n \in 0..4 /\ (u = 0 => n = 1)
  OBVIOUS
<1> HIDE DEF n, byte
<1>3. DOMAIN [i \in 1..n |-> byte(i)] = 1..n /\ Len([i \in 1..n |-> byte(i)]) = n
  BY <1>2
<1> QED
  BY <1>1, <1>2, <1>3

\* A set of numbers has a least one.
LEMMA LeastOf ==
  ASSUME NEW S, S \subseteq Nat, S # {}
  PROVE  \E j \in S : \A k \in S : j <= k
<1> DEFINE less == {ss \in Nat \X Nat : ss[1] < ss[2]}
<1>1. IsWellFoundedOn(less, Nat)
  BY NatLessThanWellFounded DEF OpToRel
<1>2. PICK j \in S : \A k \in S : <<k, j>> \notin less
  <2> HIDE DEF less
  <2> QED
    BY <1>1, WFMin
<1>3. ASSUME NEW k \in S PROVE j <= k
  <2>1. <<k, j>> \notin less
    BY <1>2
  <2> QED
    BY <2>1
<1> QED
  BY <1>3

\* No digits write 0.
LEMMA NoDigits ==
  ASSUME NEW d, Len(d) = 0, NEW base
  PROVE  Value(d, base) = 0
<1> DEFINE Rule(f) == f = [n \in 0..Len(d) |-> IF n = 0 THEN 0 ELSE f[n - 1] * base + d[n]]
           sum == CHOOSE f : Rule(f)
<1>1. Rule([n \in 0..0 |-> 0])
  <2>1. 0..Len(d) = 0..0 /\ \A n \in 0..0 : n = 0
    OBVIOUS
  <2> QED
    BY <2>1
<1>2. Rule(sum)
  <2> HIDE DEF Rule
  <2> QED
    BY <1>1
<1>3. sum[0] = 0
  <2> HIDE DEF sum
  <2> QED
    BY <1>2
<1>4. Value(d, base) = sum[Len(d)]
  BY DEF Value
<1> QED
  BY <1>3, <1>4

\* A reference that could be read ends in the buffer, and is no shorter than
\* what is written for it.
LEMMA ReferenceFits ==
  ASSUME NEW b, NEW N \in Nat, Len(b) = N, b[N] = NUL, NEW i \in 1..N, i + 1 <= N, b[i + 1] = HASH,
         GetCharacterRef(b, i).ok
  PROVE  /\ GetCharacterRef(b, i).next \in (i + 1)..N
         /\ Len(GetCharacterRef(b, i).bytes) \in 0..4
         /\ i + Len(GetCharacterRef(b, i).bytes) <= GetCharacterRef(b, i).next
<1> DEFINE hex == b[i + 2] = X
           semis == {j \in (IF hex THEN i + 3 ELSE i + 2) .. Len(b) : b[j] = SEMI}
           semi == CHOOSE j \in semis : \A k \in semis : j <= k
           from == CHOOSE j \in i + 1 .. semi - 1 :
                     /\ b[j] = (IF hex THEN X ELSE HASH)
                     /\ \A k \in j + 1 .. semi - 1 : b[k] # (IF hex THEN X ELSE HASH)
           base == IF hex THEN 16 ELSE 10
           digits == [j \in 1 .. semi - 1 - from |-> Digit(b[from + j])]
           ucs == Value(digits, base)
           fail == [ok |-> FALSE, bytes |-> <<>>, next |-> i]
           r == GetCharacterRef(b, i)
<1>1. r = IF b[i + 2] = NUL THEN [ok |-> TRUE, bytes |-> <<>>, next |-> i + 1]
          ELSE IF semis = {} THEN fail
          ELSE IF \E d \in DOMAIN digits : digits[d] >= base THEN fail
          ELSE [ok |-> TRUE, bytes |-> ConvertUTF32ToUTF8(ucs), next |-> semi + 1]
  BY DEF GetCharacterRef
<1>2. i + 2 <= N
  BY DEF NUL, HASH
<1>3. CASE b[i + 2] = NUL
  <2>1. r.bytes = << >> /\ r.next = i + 1
    BY <1>1, <1>3
  <2> QED
    BY <1>2, <2>1
<1>4. CASE b[i + 2] # NUL
  <2>1. semis # {} /\ r.bytes = ConvertUTF32ToUTF8(ucs) /\ r.next = semi + 1
    <3> HIDE DEF semis, digits, ucs, semi, base
    <3> QED
      BY <1>1, <1>4
  <2>2. semis \subseteq Nat
    BY <1>2
  <2>3. semi \in semis
    <3> HIDE DEF semis
    <3>1. \E j \in semis : \A k \in semis : j <= k
      BY <2>1, <2>2, LeastOf
    <3> QED
      BY <3>1
  <2>4. semi \in (i + 2)..(N - 1) /\ b[semi] = SEMI /\ (semi = i + 2 => ~hex)
    <3> HIDE DEF semi
    <3> QED
      BY <1>2, <2>3 DEF NUL, SEMI
  <2>5. Len(ConvertUTF32ToUTF8(ucs)) \in 0..4 /\ (ucs = 0 => Len(ConvertUTF32ToUTF8(ucs)) = 1)
    BY ConvertedLength
  <2>6. ASSUME semi = i + 2 PROVE ucs = 0
    <3>1. from = i + 1
      <4> HIDE DEF semi
      <4>1. ~hex /\ (i + 1)..(semi - 1) = {i + 1} /\ (i + 2)..(semi - 1) = {}
        BY <2>4, <2>6
      <4>2. \E j \in i + 1 .. semi - 1 : /\ b[j] = (IF hex THEN X ELSE HASH)
                                         /\ \A k \in j + 1 .. semi - 1 : b[k] # (IF hex THEN X ELSE HASH)
        <5>1. (i + 1) + 1 = i + 2
          OBVIOUS
        <5> QED
          BY <4>1, <5>1
      <4>3. from \in i + 1 .. semi - 1
        BY <4>2
      <4> QED
        BY <4>1, <4>3
    <3> HIDE DEF semi, from, base
    <3>2. Len(digits) = 0
      <4> DEFINE m == semi - 1 - from
      <4>1. m = 0
        BY <2>6, <3>1
      <4>2. digits = [j \in 1..m |-> Digit(b[from + j])]
        OBVIOUS
      <4> HIDE DEF m, digits
      <4>3. DOMAIN digits = 1..0
        BY <4>1, <4>2
      <4> QED
        BY <4>1, <4>2, <4>3
    <3> HIDE DEF digits
    <3> QED
      BY <3>2, NoDigits
  <2> HIDE DEF semi, ucs, hex
  <2> DEFINE l == Len(ConvertUTF32ToUTF8(ucs))
  <2>7. l \in 0..4 /\ (semi = i + 2 => l = 1)
    BY <2>5, <2>6
  <2> HIDE DEF l
  <2>8. semi + 1 \in (i + 1)..N /\ i + l <= semi + 1
    BY <2>4, <2>7
  <2> QED
    BY <2>1, <2>7, <2>8 DEF l
<1> QED
  BY <1>3, <1>4

----------------------------------------------------------------------------
(* In place *)

\* The text ends with a NUL; what is behind p is as it was.
BufferInv ==
  /\ text \in Seq(1..255) /\ phase \in {"convert", "collapse", "done"}
  /\ p \in 1..(Len(text) + 1) /\ q \in 1..p
  /\ phase = "convert" =>
       /\ DOMAIN buf = 1..(Len(text) + 1) /\ Len(buf) = Len(text) + 1 /\ buf[Len(text) + 1] = NUL
       /\ \A i \in p..Len(text) : buf[i] = text[i]

\* What stands at p and behind it is not NUL before the end.
LEMMA AtP ==
  ASSUME BufferInv, Reading
  PROVE  /\ Len(text) \in Nat /\ p \in Nat /\ q \in Nat /\ q >= 1 /\ q <= p /\ p <= Len(text)
         /\ \A i \in p..Len(text) : buf[i] = text[i] /\ buf[i] # NUL
         /\ \A i \in p..(Len(text) + 1) : buf[i] # NUL => i <= Len(text)
         /\ DOMAIN buf = 1..(Len(text) + 1) /\ Len(buf) = Len(text) + 1 /\ buf[Len(text) + 1] = NUL
<1>1. Len(text) \in Nat /\ \A i \in 1..Len(text) : text[i] # NUL
  <2>1. text \in Seq(1..255)
    BY DEF BufferInv
  <2>2. \A i \in 1..Len(text) : text[i] \in 1..255
    BY <2>1, ElementOfSeq
  <2>3. Len(text) \in Nat
    BY <2>1, LenProperties
  <2>4. \A c \in 1..255 : c # NUL
    BY DEF NUL
  <2> QED
    BY <2>2, <2>3, <2>4
<1>2. /\ p \in Nat /\ q \in Nat /\ q >= 1 /\ q <= p /\ p <= Len(text)
      /\ \A i \in p..Len(text) : buf[i] = text[i]
      /\ DOMAIN buf = 1..(Len(text) + 1) /\ Len(buf) = Len(text) + 1 /\ buf[Len(text) + 1] = NUL
  BY <1>1 DEF BufferInv, Reading
<1>3. \A i \in p..Len(text) : buf[i] # NUL
  BY <1>1, <1>2
<1>4. \A i \in p..(Len(text) + 1) : buf[i] # NUL => i <= Len(text)
  BY <1>1, <1>2
<1> QED
  BY <1>1, <1>2, <1>3, <1>4

\* Writing no more than was read keeps it so.
LEMMA ToKeeps ==
  ASSUME BufferInv, Reading, NEW cs, Len(cs) \in Nat, NEW after \in (p + 1)..(Len(text) + 1),
         p + Len(cs) <= after, To(cs, after)
  PROVE  BufferInv'
<1> DEFINE l == Len(cs)
<1>1. /\ p' = after /\ q' = q + l /\ text' = text /\ phase' = "convert"
      /\ buf' = [i \in DOMAIN buf |-> IF i \in q .. q + l - 1 THEN cs[i - q + 1] ELSE buf[i]]
  BY DEF To, Put, Reading
<1> HIDE DEF l
<1>2. l \in Nat /\ p + l <= after
  BY DEF l
<1>3. DOMAIN buf' = 1..(Len(text) + 1) /\ Len(buf') = Len(text) + 1
  BY <1>1, AtP
<1>4. ASSUME NEW i \in after..(Len(text) + 1) PROVE buf'[i] = buf[i]
  BY <1>1, <1>2, AtP
<1>5. p' \in 1..(Len(text) + 1) /\ q' \in 1..p'
  BY <1>1, <1>2, AtP
<1>6. buf'[Len(text) + 1] = NUL
  BY <1>4, AtP
<1>7. \A i \in after..Len(text) : buf'[i] = text[i]
  BY <1>4, AtP
<1>8. text \in Seq(1..255)
  BY DEF BufferInv
<1> QED
  BY <1>1, <1>3, <1>5, <1>6, <1>7, <1>8 DEF BufferInv

\* Every step does.
LEMMA BufferKept ==
  ASSUME BufferInv, [Next]_vars
  PROVE  BufferInv'
<1>1. CASE newline
  <2>1. Reading /\ buf[p] \in {CR, LF}
    BY <1>1 DEF newline
  <2> DEFINE after == p + (IF buf[p + 1] \in {CR, LF} \ {buf[p]} THEN 2 ELSE 1)
  <2>2. buf[p + 1] \in {CR, LF} => p + 1 <= Len(text)
    BY <2>1, AtP DEF CR, LF, NUL
  <2>3. after \in (p + 1)..(Len(text) + 1)
    BY <2>1, <2>2, AtP
  <2>4. To(<<LF>>, after)
    BY <1>1 DEF newline, Newline
  <2> HIDE DEF after
  <2>5. Len(<<LF>>) = 1 /\ p + 1 <= after
    BY <2>1, <2>3, AtP
  <2> QED
    BY <2>1, <2>3, <2>4, <2>5, ToKeeps
<1>2. CASE reference
  <2>1. Reading /\ buf[p] = AMP /\ buf[p + 1] = HASH
    BY <1>2 DEF reference
  <2> DEFINE r == GetCharacterRef(buf, p)
  <2>2. IF r.ok THEN To(r.bytes, r.next) ELSE To(<<AMP>>, p + 1)
    BY <1>2 DEF reference
  <2>3. CASE r.ok
    <3> DEFINE N == Len(text) + 1
    <3>1. N \in Nat /\ Len(buf) = N /\ buf[N] = NUL /\ p \in 1..N /\ p + 1 <= N
      BY <2>1, AtP
    <3>2. r.next \in (p + 1)..N /\ Len(r.bytes) \in 0..4 /\ p + Len(r.bytes) <= r.next
      <4> HIDE DEF N
      <4> QED
        BY <2>1, <2>3, <3>1, ReferenceFits
    <3>3. To(r.bytes, r.next) /\ Len(r.bytes) \in Nat
      BY <2>2, <2>3, <3>2
    <3> HIDE DEF r
    <3> QED
      BY <2>1, <3>2, <3>3, ToKeeps
  <2>4. CASE ~r.ok
    <3>1. To(<<AMP>>, p + 1)
      BY <2>2, <2>4
    <3>2. Len(<<AMP>>) \in Nat /\ p + Len(<<AMP>>) <= p + 1 /\ p + 1 \in (p + 1)..(Len(text) + 1)
      BY <2>1, AtP
    <3> QED
      BY <2>1, <3>1, <3>2, ToKeeps
  <2> QED
    BY <2>3, <2>4
<1>3. CASE entity
  <2>1. Reading
    BY <1>3 DEF entity
  <2>2. PICK e \in EntityAt(buf, p) : To(<<e.value>>, AfterEntity(e))
    BY <1>3 DEF entity
  <2>3. Len(buf) \in Nat /\ DOMAIN buf = 1..Len(buf) /\ p \in Nat \ {0}
    BY <2>1, AtP
  <2>4. /\ Len(e.pattern) \in 2..4 /\ p + Len(e.pattern) + 1 <= Len(buf)
        /\ e \in entities /\ \A j \in 1..(Len(e.pattern) + 2) : buf[p + j - 1] = Code(e)[j]
    BY <2>3, EntityFound
  <2> DEFINE m == Len(e.pattern)
  <2>5. Code(e)[m + 2] = SEMI
    BY <2>4, CodeFacts
  <2> HIDE DEF m
  <2>6. m \in 2..4 /\ p + m + 1 <= Len(buf) /\ \A j \in 1..(m + 2) : buf[p + j - 1] = Code(e)[j]
    BY <2>4 DEF m
  <2>7. buf[p + m + 1] = SEMI
    <3>1. m + 2 \in 1..(m + 2) /\ p + (m + 2) - 1 = p + m + 1
      BY <2>3, <2>6
    <3> QED
      BY <2>5, <2>6, <3>1
  <2>8. p + m + 1 <= Len(text)
    BY <2>1, <2>6, <2>7, AtP DEF SEMI, NUL
  <2>9. AfterEntity(e) = p + m + 2
    BY DEF AfterEntity, m
  <2>10. Len(<<e.value>>) = 1 /\ AfterEntity(e) \in (p + 1)..(Len(text) + 1) /\ p + 1 <= AfterEntity(e)
    BY <2>1, <2>6, <2>8, <2>9, AtP
  <2> QED
    BY <2>1, <2>2, <2>10, ToKeeps
<1>4. CASE noEntity
  BY <1>4, AtP DEF noEntity, BufferInv
<1>5. CASE copy
  <2>1. Reading /\ To(<<buf[p]>>, p + 1)
    BY <1>5 DEF copy
  <2>2. Len(<<buf[p]>>) \in Nat /\ p + Len(<<buf[p]>>) <= p + 1 /\ p + 1 \in (p + 1)..(Len(text) + 1)
    BY <2>1, AtP
  <2> QED
    BY <2>1, <2>2, ToKeeps
<1>6. CASE finish
  BY <1>6 DEF finish, BufferInv
<1>7. CASE CollapseWhitespace
  BY <1>7 DEF CollapseWhitespace, BufferInv
<1>8. CASE UNCHANGED vars
  BY <1>8 DEF vars, BufferInv
<1> QED
  BY <1>1, <1>2, <1>3, <1>4, <1>5, <1>6, <1>7, <1>8 DEF Next

----------------------------------------------------------------------------
(* What is printed *)

\* What is written for a character, and for each of a value.
Piece(c, restricted) ==
  IF c \in Flagged(restricted)
  THEN <<AMP>> \o (CHOOSE e \in entities : e.value = c).pattern \o <<SEMI>> ELSE <<c>>
Pieces(s, restricted) == [i \in DOMAIN s |-> Piece(s[i], restricted)]

EndTag(restricted) == IF restricted THEN LT ELSE QUOT

\* A character is written as itself or as its entity, without the end tag.
LEMMA PieceFacts ==
  ASSUME NEW c \in 1..255, NEW restricted \in BOOLEAN
  PROVE  /\ Piece(c, restricted) \in Seq((1..255) \ {EndTag(restricted)})
         /\ \/ \E e \in entities : e.value = c /\ Piece(c, restricted) = Code(e)
            \/ c # AMP /\ Piece(c, restricted) = <<c>>
<1> DEFINE S == (1..255) \ {EndTag(restricted)}
<1>1. CASE c \in Flagged(restricted)
  <2>1. \E e \in entities : e.value = c
    BY <1>1 DEF Flagged, entities, AMP, LT, GT
  <2>2. PICK e \in entities : e = CHOOSE f \in entities : f.value = c
    BY <2>1
  <2>3. e.value = c
    BY <2>1, <2>2
  <2>4. Piece(c, restricted) = Code(e)
    BY <1>1, <2>2 DEF Piece, Code
  <2>5. Code(e) \in Seq({AMP, SEMI} \union 97..122)
    BY CodeFacts
  <2>6. {AMP, SEMI} \union 97..122 \subseteq S
    BY DEF AMP, SEMI, EndTag, LT, QUOT
  <2>7. Code(e) \in Seq(S)
    <3> HIDE DEF S
    <3> QED
      BY <2>5, <2>6, SeqWider
  <2> QED
    BY <2>3, <2>4, <2>7
<1>2. CASE c \notin Flagged(restricted)
  <2>1. Piece(c, restricted) = <<c>>
    BY <1>2 DEF Piece
  <2>2. c # AMP /\ c \in S
    BY <1>2 DEF Flagged, entities, EndTag, AMP, LT, QUOT
  <2>3. <<c>> \in Seq(S)
    <3> HIDE DEF S
    <3> QED
      BY <2>2
  <2> QED
    BY <2>1, <2>2, <2>3
<1> QED
  BY <1>1, <1>2

\* No piece has the end tag in it.
LEMMA PieceTyped ==
  \A c \in 1..255, restricted \in BOOLEAN :
    Piece(c, restricted) \in Seq((1..255) \ {EndTag(restricted)})
  BY PieceFacts

\* Up to the end tag is all of a text that has none.
LEMMA UpToEndTag ==
  ASSUME NEW tag \in 1..255, NEW s \in Seq((1..255) \ {tag})
  PROVE  ParseText(s \o <<tag>>, tag) = s
<1> DEFINE n == Len(s)
           u == s \o <<tag>>
           m == CHOOSE k \in DOMAIN u : u[k] = tag /\ \A j \in 1 .. k - 1 : u[j] # tag
<1>1. n \in Nat /\ s \in Seq(1..255) /\ \A j \in 1..n : s[j] # tag
  OBVIOUS
<1>2. <<tag>> \in Seq(1..255) /\ Len(<<tag>>) = 1 /\ <<tag>>[1] = tag
  OBVIOUS
<1>3. /\ u \in Seq(1..255) /\ Len(u) = n + 1
      /\ \A j \in 1..n : u[j] = s[j]
      /\ u[n + 1] = tag
  <2> DEFINE x == <<tag>>
  <2>1. x \in Seq(1..255) /\ Len(x) = 1 /\ x[1] = tag
    BY <1>2
  <2> HIDE DEF x
  <2> DEFINE B == 1..255
  <2>3. s \in Seq(B) /\ x \in Seq(B)
    BY <1>1, <2>1
  <2> HIDE DEF B
  <2>2. /\ s \o x \in Seq(B) /\ Len(s \o x) = Len(s) + Len(x)
        /\ \A k \in 1..Len(s) : (s \o x)[k] = s[k]
        /\ \A k \in 1..Len(x) : (s \o x)[Len(s) + k] = x[k]
    BY <2>3, ConcatParts
  <2> QED
    BY <1>1, <2>1, <2>2 DEF x, B
<1> HIDE DEF u
<1>4. DOMAIN u = 1..(n + 1)
  BY <1>3
<1>5. m = n + 1
  <2>1. n + 1 \in DOMAIN u /\ u[n + 1] = tag /\ \A j \in 1 .. (n + 1) - 1 : u[j] # tag
    BY <1>1, <1>3, <1>4
  <2>2. m \in DOMAIN u /\ u[m] = tag /\ \A j \in 1 .. m - 1 : u[j] # tag
    BY <2>1
  <2> HIDE DEF m
  <2> QED
    BY <1>1, <1>3, <1>4, <2>2
<1>6. SubSeq(u, 1, n) = s
  <2>1. SubSeq(u, 1, n) \in Seq(1..255) /\ Len(SubSeq(u, 1, n)) = n
    BY <1>1, <1>3
  <2>2. \A j \in 1..n : SubSeq(u, 1, n)[j] = s[j]
    BY <1>1, <1>3
  <2> QED
    BY <1>1, <2>1, <2>2, SeqEqual
<1>7. ParseText(u, tag) = SubSeq(u, 1, m - 1)
  BY DEF ParseText
<1> HIDE DEF m
<1>8. m - 1 = n
  BY <1>1, <1>5
<1> HIDE DEF n
<1> QED
  BY <1>6, <1>7, <1>8 DEF u

\* A text is one of bytes.
LEMMA TextsAreBytes ==
  ASSUME XmlTextAssumption
  PROVE  Texts \subseteq Seq(1..255)
<1> SUFFICES ASSUME NEW n \in 0..MaxTokens, NEW ts \in [1..n -> Token]
             PROVE  FlattenSeq(ts) \in Seq(1..255)
  BY DEF Texts
<1>1. ts \in Seq(Seq(1..255))
  BY DEF XmlTextAssumption
<1>2. PICK F : Heads(F, ts, 1..255)
  BY <1>1, HeadsExist
<1>3. FlattenSeq(ts) = F[Len(ts)]
  BY <1>1, <1>2, FlattenHeads
<1>4. F \in [0..Len(ts) -> Seq(1..255)] /\ Len(ts) \in Nat
  BY <1>1, <1>2 DEF Heads
<1>5. Len(ts) \in 0..Len(ts)
  BY <1>4
<1>6. F[Len(ts)] \in Seq(1..255)
  BY <1>4, <1>5
<1> QED
  BY <1>3, <1>6

\* What is printed is the pieces of the value, up to the end tag.
LEMMA PrintedIsPieces ==
  ASSUME NEW s \in Seq(1..255), NEW restricted \in BOOLEAN
  PROVE  \E F : /\ Heads(F, Pieces(s, restricted), 1..255)
                /\ ParseText(PrintString(s, restricted) \o <<EndTag(restricted)>>, EndTag(restricted)) = F[Len(s)]
<1> DEFINE tag == EndTag(restricted)
           S == (1..255) \ {tag}
           ps == Pieces(s, restricted)
<1>1. Len(s) \in Nat /\ DOMAIN s = 1..Len(s) /\ \A i \in 1..Len(s) : s[i] \in 1..255
  <2>1. Len(s) \in Nat /\ DOMAIN s = 1..Len(s)
    OBVIOUS
  <2>2. \A i \in 1..Len(s) : s[i] \in 1..255
    BY ElementOfSeq
  <2> QED
    BY <2>1, <2>2
<1>2. ps \in Seq(Seq(S)) /\ Len(ps) = Len(s)
  <2>1. \A i \in 1..Len(s) : Piece(s[i], restricted) \in Seq(S)
    <3> TAKE i \in 1..Len(s)
    <3>1. s[i] \in 1..255
      BY <1>1
    <3> QED
      BY <3>1, PieceTyped
  <2>2. ps = [i \in 1..Len(s) |-> Piece(s[i], restricted)]
    BY <1>1 DEF Pieces
  <2> HIDE DEF S, ps
  <2> QED
    BY <1>1, <2>1, <2>2
<1> HIDE DEF ps
<1>3. PICK F : Heads(F, ps, S)
  <2> HIDE DEF S
  <2> QED
    BY <1>2, HeadsExist
<1>4. PrintString(s, restricted) = F[Len(s)]
  <2>1. PrintString(s, restricted) = FlattenSeq(ps)
    BY DEF PrintString, ps, Pieces, Piece
  <2> HIDE DEF S
  <2> QED
    BY <1>2, <1>3, <2>1, FlattenHeads
<1>5. tag \in 1..255
  BY DEF EndTag, LT, QUOT
<1>6. F \in [0..Len(s) -> Seq(S)] /\ F[Len(s)] \in Seq(S)
  BY <1>1, <1>2, <1>3 DEF Heads
<1>7. ParseText(F[Len(s)] \o <<tag>>, tag) = F[Len(s)]
  <2> HIDE DEF tag
  <2> QED
    BY <1>5, <1>6, UpToEndTag
<1>8. Heads(F, ps, 1..255)
  <2>1. Seq(S) \subseteq Seq(1..255)
    BY SeqWider
  <2> HIDE DEF S
  <2>2. F \in [0..Len(s) -> Seq(1..255)]
    BY <1>6, <2>1
  <2> QED
    BY <1>2, <1>3, <2>2 DEF Heads
<1> QED
  BY <1>4, <1>7, <1>8 DEF ps

----------------------------------------------------------------------------
(* Read back *)

\* The text is the pieces of a value without a CR, one behind the other.
Printing(restricted, F) ==
  /\ restricted \in BOOLEAN /\ value \in Seq(1..255) /\ text \in Seq(1..255)
  /\ \A i \in 1..Len(value) : value[i] # CR
  /\ Heads(F, Pieces(value, restricted), 1..255) /\ text = F[Len(value)]

\* Behind the pieces that were read stands what they were printed from.
ReadInv(F) ==
  /\ phase = "convert" => /\ q <= Len(value) + 1 /\ p = Width(F, q - 1) + 1
                          /\ \A j \in 1..(q - 1) : buf[j] = value[j]
  /\ phase = "done" => /\ Len(buf) \in Nat /\ DOMAIN buf = 1..Len(buf) /\ Len(value) + 1 <= Len(buf)
                       /\ \A j \in 1..Len(value) : buf[j] = value[j]
                       /\ buf[Len(value) + 1] = NUL
  /\ phase # "collapse"

\* Where the piece of the k-th character stands.
LEMMA Spot ==
  ASSUME NEW restricted, NEW F, Printing(restricted, F), NEW k \in 1..Len(value)
  PROVE  LET piece == Piece(value[k], restricted) IN
         /\ Width(F, k - 1) \in Nat /\ Len(piece) \in Nat \ {0}
         /\ Width(F, k) = Width(F, k - 1) + Len(piece) /\ Width(F, k) <= Len(text)
         /\ \A j \in 1..Len(piece) : text[Width(F, k - 1) + j] = piece[j]
         /\ piece[1] # CR
         /\ \/ \E e \in entities : e.value = value[k] /\ piece = Code(e)
            \/ value[k] # AMP /\ piece = <<value[k]>>
<1> DEFINE s == Pieces(value, restricted)
           piece == Piece(value[k], restricted)
           n == Len(value)
<1>1. n \in Nat /\ DOMAIN value = 1..n
  BY DEF Printing
<1>2. value[k] \in 1..255 /\ value[k] # CR /\ restricted \in BOOLEAN
  <2>1. value \in Seq(1..255)
    BY DEF Printing
  <2> QED
    BY <2>1, ElementOfSeq DEF Printing
<1>3. /\ \/ \E e \in entities : e.value = value[k] /\ piece = Code(e)
         \/ value[k] # AMP /\ piece = <<value[k]>>
  BY <1>2, PieceFacts
<1>4. Len(piece) \in Nat \ {0} /\ piece[1] # CR
  <2>1. CASE \E e \in entities : e.value = value[k] /\ piece = Code(e)
    <3> HIDE DEF piece
    <3>1. PICK e \in entities : piece = Code(e)
      BY <2>1
    <3>2. Len(Code(e)) = Len(e.pattern) + 2 /\ Len(e.pattern) \in 2..4 /\ Code(e)[1] = AMP
      BY CodeFacts
    <3> QED
      BY <3>1, <3>2 DEF AMP, CR
  <2>2. CASE piece = <<value[k]>>
    <3> HIDE DEF piece
    <3> QED
      BY <1>2, <2>2
  <2> QED
    BY <1>3, <2>1, <2>2
<1>5. s[k] = piece /\ Len(s) = n
  BY <1>1 DEF Pieces
<1>6. s \in Seq(Seq(1..255)) /\ Heads(F, s, 1..255)
  <2>1. \A i \in 1..n : Piece(value[i], restricted) \in Seq(1..255)
    <3> TAKE i \in 1..n
    <3>1. value[i] \in 1..255
      <4>1. value \in Seq(1..255)
        BY DEF Printing
      <4> QED
        BY <4>1, ElementOfSeq
    <3>2. Piece(value[i], restricted) \in Seq((1..255) \ {EndTag(restricted)})
      <4>1. restricted \in BOOLEAN
        BY <1>2
      <4> QED
        BY <3>1, <4>1, PieceTyped
    <3>3. (1..255) \ {EndTag(restricted)} \subseteq 1..255
      OBVIOUS
    <3> QED
      BY <3>2, <3>3, SeqWider
  <2>2. s = [i \in 1..n |-> Piece(value[i], restricted)]
    BY <1>1 DEF Pieces
  <2>3. Heads(F, s, 1..255)
    BY DEF Printing
  <2> HIDE DEF s, n
  <2> QED
    BY <1>1, <2>1, <2>2, <2>3
<1> HIDE DEF s
<1>7. /\ F[k - 1] \in Seq(1..255) /\ F[k] \in Seq(1..255) /\ s[k] \in Seq(1..255)
      /\ Width(F, k - 1) \in Nat /\ Width(s, k) \in Nat
      /\ Width(F, k) = Width(F, k - 1) + Width(s, k)
      /\ \A j \in 1..Width(F, k - 1) : F[k][j] = F[k - 1][j]
      /\ \A j \in 1..Width(s, k) : F[k][Width(F, k - 1) + j] = s[k][j]
  <2> DEFINE B == 1..255
  <2>1. s \in Seq(Seq(B)) /\ Heads(F, s, B) /\ k \in 1..Len(s)
    BY <1>5, <1>6
  <2> HIDE DEF B
  <2>2. /\ F[k - 1] \in Seq(B) /\ F[k] \in Seq(B) /\ s[k] \in Seq(B)
        /\ Width(F, k - 1) \in Nat /\ Width(s, k) \in Nat
        /\ Width(F, k) = Width(F, k - 1) + Width(s, k)
        /\ \A j \in 1..Width(F, k - 1) : F[k][j] = F[k - 1][j]
        /\ \A j \in 1..Width(s, k) : F[k][Width(F, k - 1) + j] = s[k][j]
    BY <2>1, HeadsStep
  <2> QED
    BY <2>2 DEF B
<1>8. /\ Width(F, k) \in Nat /\ Width(F, k) <= Width(F, n)
      /\ \A j \in 1..Width(F, k) : F[n][j] = F[k][j]
  <2>1. k \in 0..Len(s) /\ n \in k..Len(s)
    BY <1>1, <1>5
  <2> HIDE DEF n
  <2> QED
    BY <1>6, <2>1, HeadsGrow
<1>9. F[n] = text
  BY DEF Printing
<1>10. Width(s, k) = Len(piece) /\ Width(F, n) = Len(text)
  BY <1>5, <1>9 DEF Width
<1>11. ASSUME NEW j \in 1..Len(piece) PROVE text[Width(F, k - 1) + j] = piece[j]
  <2> HIDE DEF piece, n
  <2> DEFINE i == Width(F, k - 1) + j
  <2>1. i \in 1..Width(F, k) /\ j \in 1..Width(s, k)
    BY <1>4, <1>7, <1>10
  <2> HIDE DEF i
  <2>2. text[i] = F[k][i]
    BY <1>8, <1>9, <2>1
  <2>3. F[k][Width(F, k - 1) + j] = s[k][j]
    BY <1>7, <2>1
  <2> QED
    BY <1>5, <2>2, <2>3 DEF i
<1> HIDE DEF piece, n
<1>12. Width(F, k) = Width(F, k - 1) + Len(piece) /\ Width(F, k) <= Len(text)
  BY <1>7, <1>8, <1>10
<1> QED
  BY <1>3, <1>4, <1>7, <1>11, <1>12 DEF piece

\* What is read at p is the piece of the after character.
LEMMA Facing ==
  ASSUME NEW restricted, NEW F, Printing(restricted, F), BufferInv, ReadInv(F), Reading
  PROVE  LET piece == Piece(value[q], restricted) IN
         /\ q \in 1..Len(value) /\ q \in 1..Len(text) /\ Len(piece) \in Nat \ {0} /\ p \in Nat
         /\ p + Len(piece) = Width(F, q) + 1 /\ p + Len(piece) <= Len(text) + 1
         /\ \A j \in 1..Len(piece) : buf[p + j - 1] = piece[j]
         /\ buf[p + Len(piece)] # CR
         /\ \/ \E e \in entities : e.value = value[q] /\ piece = Code(e)
            \/ value[q] # AMP /\ piece = <<value[q]>>
<1> DEFINE piece == Piece(value[q], restricted)
           n == Len(value)
           l == Len(piece)
<1>1. n \in Nat
  BY DEF Printing
<1>2. q \in 1..(n + 1) /\ p = Width(F, q - 1) + 1 /\ p \in Nat /\ p <= Len(text) /\ Len(text) \in Nat
  BY <1>1, AtP DEF ReadInv, Reading
<1>3. Width(F, n) = Len(text)
  BY DEF Width, Printing
<1> HIDE DEF n
<1>4. q \in 1..n
  BY <1>1, <1>2, <1>3
<1>5. /\ Width(F, q - 1) \in Nat /\ l \in Nat \ {0}
      /\ Width(F, q) = Width(F, q - 1) + l /\ Width(F, q) <= Len(text)
      /\ \A j \in 1..l : text[Width(F, q - 1) + j] = piece[j]
      /\ \/ \E e \in entities : e.value = value[q] /\ piece = Code(e)
         \/ value[q] # AMP /\ piece = <<value[q]>>
  BY <1>4, Spot DEF n
<1> HIDE DEF l
<1> DEFINE w == Width(F, q - 1)
           v == Width(F, q)
<1>a. /\ w \in Nat /\ v = w + l /\ v <= Len(text) /\ p = w + 1 /\ l \in Nat \ {0}
      /\ p \in Nat /\ Len(text) \in Nat
  BY <1>2, <1>5
<1>6. ASSUME NEW j \in 1..l PROVE buf[p + j - 1] = piece[j]
  <2>1. p + j - 1 = Width(F, q - 1) + j /\ p + j - 1 \in p..Len(text)
    <3> HIDE DEF w, v
    <3>1. p + j - 1 = w + j /\ p + j - 1 \in p..Len(text)
      BY <1>a
    <3> QED
      BY <3>1 DEF w
  <2>2. buf[p + j - 1] = text[p + j - 1]
    BY <2>1, AtP
  <2> QED
    BY <1>5, <2>1, <2>2
<1>7. p + l = Width(F, q) + 1 /\ p + l <= Len(text) + 1
  <2> HIDE DEF w, v
  <2>1. p + l = v + 1 /\ p + l <= Len(text) + 1
    BY <1>a
  <2> QED
    BY <2>1 DEF v
<1>8. buf[p + l] # CR
  <2>1. CASE p + l = Len(text) + 1
    BY <2>1, AtP DEF NUL, CR
  <2>2. CASE p + l <= Len(text)
    <3> DEFINE k == q + 1
    <3>1. k \in 1..n /\ k - 1 = q
      BY <1>1, <1>2, <1>3, <1>4, <1>5, <1>7, <2>2
    <3>2. /\ Len(Piece(value[k], restricted)) \in Nat \ {0}
          /\ \A j \in 1..Len(Piece(value[k], restricted)) :
               text[Width(F, k - 1) + j] = Piece(value[k], restricted)[j]
          /\ Piece(value[k], restricted)[1] # CR
      <4> HIDE DEF k
      <4> QED
        BY <3>1, Spot DEF n
    <3>3. text[Width(F, k - 1) + 1] # CR
      BY <3>2
    <3>4. p + l \in p..Len(text) /\ Width(F, k - 1) + 1 = p + l
      BY <1>2, <1>5, <1>7, <2>2, <3>1
    <3>5. buf[p + l] = text[p + l]
      BY <3>4, AtP
    <3> QED
      BY <3>3, <3>4, <3>5
  <2>3. p + l = Len(text) + 1 \/ p + l <= Len(text)
    <3> HIDE DEF w, v
    <3> QED
      BY <1>a, <1>7
  <2> QED
    BY <2>1, <2>2, <2>3
<1>9. q \in 1..Len(text)
  BY <1>4, AtP
<1> QED
  BY <1>2, <1>4, <1>5, <1>6, <1>7, <1>8, <1>9 DEF n, l

\* A character that is written when its piece is read.
LEMMA CharacterRead ==
  ASSUME NEW restricted, NEW F, Printing(restricted, F), BufferInv, ReadInv(F), Reading,
         To(<<value[q]>>, Width(F, q) + 1)
  PROVE  ReadInv(F)'
<1> DEFINE cs == <<value[q]>>
<1>1. Len(cs) = 1 /\ cs[1] = value[q]
  OBVIOUS
<1>2. /\ p' = Width(F, q) + 1 /\ q' = q + 1 /\ value' = value /\ phase' = "convert"
      /\ buf' = [i \in DOMAIN buf |-> IF i \in q .. q + 1 - 1 THEN cs[i - q + 1] ELSE buf[i]]
  BY <1>1 DEF To, Put, Reading
<1> HIDE DEF cs
<1>3. q \in 1..Len(value) /\ q \in 1..Len(text) /\ Len(value) \in Nat /\ Len(text) \in Nat
  BY Facing, AtP DEF Printing
<1>4. DOMAIN buf = 1..(Len(text) + 1) /\ \A j \in 1..(q - 1) : buf[j] = value[j]
  BY AtP DEF ReadInv, Reading
<1>5. ASSUME NEW j \in 1..q PROVE buf'[j] = value[j]
  <2>1. j \in DOMAIN buf /\ q + 1 - 1 = q /\ q \in Nat
    BY <1>3, <1>4
  <2>2. buf'[j] = IF j \in q..q THEN cs[j - q + 1] ELSE buf[j]
    BY <1>2, <2>1
  <2>3. CASE j = q
    <3>1. j \in q..q /\ j - q + 1 = 1
      BY <2>1, <2>3
    <3> QED
      BY <1>1, <2>2, <2>3, <3>1
  <2>4. CASE j # q
    <3>1. j \in 1..(q - 1) /\ j \notin q..q
      BY <2>1, <2>4
    <3> QED
      BY <1>4, <2>2, <3>1
  <2> QED
    BY <2>3, <2>4
<1>6. q' <= Len(value) + 1 /\ q' - 1 = q
  BY <1>2, <1>3
<1>7. p' = Width(F, q' - 1) + 1
  BY <1>2, <1>6
<1> QED
  BY <1>2, <1>5, <1>6, <1>7 DEF ReadInv

\* Every step reads back what was printed.
LEMMA ReadKept ==
  ASSUME NEW restricted, NEW F, Printing(restricted, F), BufferInv, ReadInv(F), ~Collapse, [Next]_vars
  PROVE  ReadInv(F)'
<1> DEFINE piece == Piece(value[q], restricted)
<1>1. ASSUME Reading
      PROVE  /\ q \in 1..Len(value) /\ q \in 1..Len(text) /\ Len(piece) \in Nat \ {0} /\ p \in Nat
             /\ p + Len(piece) = Width(F, q) + 1 /\ p + Len(piece) <= Len(text) + 1
             /\ \A j \in 1..Len(piece) : buf[p + j - 1] = piece[j]
             /\ buf[p + Len(piece)] # CR
             /\ \/ \E e \in entities : e.value = value[q] /\ piece = Code(e)
                \/ value[q] # AMP /\ piece = <<value[q]>>
  BY <1>1, Facing
<1> HIDE DEF piece
<1>2. ASSUME Reading, buf[p] # AMP
      PROVE  piece = <<value[q]>> /\ buf[p] = value[q] /\ Width(F, q) + 1 = p + 1 /\ buf[p + 1] # CR
  <2>1. buf[p] = piece[1]
    <3>1. 1 \in 1..Len(piece) /\ p + 1 - 1 = p
      BY <1>1, <1>2
    <3> QED
      BY <1>1, <1>2, <3>1
  <2>2. piece = <<value[q]>>
    <3>1. ASSUME NEW e \in entities, piece = Code(e) PROVE FALSE
      BY <1>2, <2>1, <3>1, CodeFacts
    <3> QED
      BY <1>1, <1>2, <3>1
  <2>3. Len(piece) = 1
    BY <2>2
  <2> QED
    BY <1>1, <1>2, <2>1, <2>2, <2>3
<1>3. ASSUME Reading, buf[p] = AMP
      PROVE  \E f \in entities :
               /\ f.value = value[q] /\ piece = Code(f) /\ Len(piece) = Len(f.pattern) + 2
               /\ buf[p + 1] = f.pattern[1] /\ buf[p + 2] = f.pattern[2] /\ buf[p + 1] \in 97..122
  <2>1. buf[p] = piece[1]
    <3>1. 1 \in 1..Len(piece) /\ p + 1 - 1 = p
      BY <1>1, <1>3
    <3> QED
      BY <1>1, <1>3, <3>1
  <2>2. PICK f \in entities : f.value = value[q] /\ piece = Code(f)
    <3>1. ASSUME value[q] # AMP, piece = <<value[q]>> PROVE FALSE
      BY <1>3, <2>1, <3>1
    <3> QED
      BY <1>1, <1>3, <3>1
  <2>3. /\ Len(piece) = Len(f.pattern) + 2 /\ Len(f.pattern) \in 2..4
        /\ piece[2] = f.pattern[1] /\ piece[3] = f.pattern[2]
    BY <2>2, CodeFacts
  <2>4. f.pattern[1] \in 97..122
    <3>1. f.pattern \in Seq(97..122) /\ Len(f.pattern) \in 2..4
      BY EntityFacts
    <3>2. \A l \in 2..4 : 1 \in 1..l
      OBVIOUS
    <3>3. 1 \in 1..Len(f.pattern)
      BY <3>1, <3>2
    <3> QED
      BY <3>1, <3>3, ElementOfSeq
  <2>5. 2 \in 1..Len(piece) /\ 3 \in 1..Len(piece) /\ p + 2 - 1 = p + 1 /\ p + 3 - 1 = p + 2
    BY <1>1, <1>3, <2>3
  <2>6. buf[p + 1] = piece[2] /\ buf[p + 2] = piece[3]
    BY <1>1, <1>3, <2>5
  <2> QED
    BY <2>2, <2>3, <2>4, <2>6
<1>4. CASE newline
  <2>1. Reading /\ buf[p] \in {CR, LF} /\ Newline
    BY <1>4 DEF newline
  <2>2. buf[p] # AMP
    BY <2>1 DEF CR, LF, AMP
  <2>3. buf[p] = LF
    BY <1>1, <1>2, <2>1, <2>2 DEF Printing
  <2>4. To(<<LF>>, p + 1)
    <3>1. buf[p + 1] \notin {CR, LF} \ {buf[p]}
      BY <1>2, <2>1, <2>2, <2>3
    <3> QED
      BY <2>1, <3>1 DEF Newline
  <2> QED
    BY <1>2, <2>1, <2>2, <2>3, <2>4, CharacterRead
<1>5. CASE reference
  BY <1>3, <1>5 DEF reference, HASH
<1>6. CASE entity
  <2>1. Reading /\ p \in Nat \ {0} /\ Len(buf) \in Nat /\ DOMAIN buf = 1..Len(buf)
    BY <1>6, AtP DEF entity
  <2>2. PICK e \in EntityAt(buf, p) : To(<<e.value>>, AfterEntity(e))
    BY <1>6 DEF entity
  <2>3. /\ e \in entities /\ Len(e.pattern) \in 2..4
        /\ \A j \in 1..(Len(e.pattern) + 2) : buf[p + j - 1] = Code(e)[j]
    BY <2>1, EntityFound
  <2>4. /\ Code(e)[1] = AMP /\ Code(e)[2] = e.pattern[1] /\ Code(e)[3] = e.pattern[2]
    BY <2>3, CodeFacts
  <2>5. buf[p] = AMP /\ buf[p + 1] = e.pattern[1] /\ buf[p + 2] = e.pattern[2]
    <3> DEFINE m == Len(e.pattern) + 2
    <3>1. 1 \in 1..m /\ 2 \in 1..m /\ 3 \in 1..m
      BY <2>3
    <3>2. p + 1 - 1 = p /\ p + 2 - 1 = p + 1 /\ p + 3 - 1 = p + 2
      BY <2>1
    <3> HIDE DEF m
    <3>3. \A j \in 1..m : buf[p + j - 1] = Code(e)[j]
      BY <2>3 DEF m
    <3> QED
      BY <2>4, <3>1, <3>2, <3>3
  <2>6. PICK f \in entities :
          /\ f.value = value[q] /\ Len(piece) = Len(f.pattern) + 2
          /\ buf[p + 1] = f.pattern[1] /\ buf[p + 2] = f.pattern[2]
    BY <1>3, <2>1, <2>5
  <2>7. e = f
    <3>1. e.pattern[1] = f.pattern[1] /\ e.pattern[2] = f.pattern[2]
      BY <2>5, <2>6
    <3> QED
      BY <2>3, <3>1, EntityFacts
  <2>8. AfterEntity(e) = p + Len(e.pattern) + 2
    BY DEF AfterEntity
  <2>9. AfterEntity(e) = Width(F, q) + 1
    BY <1>1, <2>1, <2>3, <2>6, <2>7, <2>8
  <2> QED
    BY <2>1, <2>2, <2>6, <2>7, <2>9, CharacterRead
<1>7. CASE noEntity
  <2>1. Reading /\ buf[p] = AMP /\ EntityAt(buf, p) = {}
    BY <1>7 DEF noEntity
  <2>2. PICK f \in entities : piece = Code(f) /\ Len(piece) = Len(f.pattern) + 2
    BY <1>3, <2>1
  <2>3. Len(buf) = Len(text) + 1 /\ Len(text) \in Nat /\ p \in Nat
    BY <2>1, AtP
  <2> DEFINE l == Len(piece)
             sub == SubSeq(buf, p, p + l - 1)
  <2>4. l \in Nat /\ p + l <= Len(text) + 1 /\ \A j \in 1..l : buf[p + j - 1] = piece[j]
    BY <1>1, <2>1
  <2>5. p + l - 1 <= Len(buf)
    BY <2>3, <2>4
  <2>6. piece \in Seq({AMP, SEMI} \union 97..122)
    BY <2>2, CodeFacts
  <2>7. sub = piece
    <3> HIDE DEF l
    <3>1. sub = [j \in 1..l |-> buf[p + j - 1]]
      BY <2>3, <2>4
    <3>2. piece = [j \in 1..l |-> piece[j]]
      BY <2>6 DEF l
    <3> QED
      BY <2>4, <3>1, <3>2
  <2>8. f \in EntityAt(buf, p)
    <3> HIDE DEF sub
    <3>1. piece = <<AMP>> \o f.pattern \o <<SEMI>>
      BY <2>2 DEF Code
    <3>2. AtPlace(piece, buf, p)
      BY <2>5, <2>7 DEF AtPlace, sub
    <3> QED
      BY <3>1, <3>2 DEF EntityAt
  <2> QED
    BY <2>1, <2>8
<1>8. CASE copy
  <2>1. Reading /\ buf[p] # AMP /\ To(<<buf[p]>>, p + 1)
    BY <1>8 DEF copy
  <2> QED
    BY <1>2, <2>1, CharacterRead
<1>9. CASE finish
  <2> DEFINE n == Len(value)
             N == Len(text) + 1
  <2>1. /\ phase = "convert" /\ p > Len(text) /\ phase' = "done" /\ UNCHANGED value
        /\ buf' = Put(<<NUL>>)
    BY <1>9 DEF finish
  <2>2. /\ n \in Nat /\ Len(text) \in Nat /\ q \in 1..p /\ p \in 1..N
        /\ DOMAIN buf = 1..N
    BY <2>1 DEF BufferInv, Printing
  <2>3. q <= n + 1 /\ p = Width(F, q - 1) + 1 /\ \A j \in 1..(q - 1) : buf[j] = value[j]
    BY <2>1 DEF ReadInv
  <2>4. Width(F, n) = Len(text)
    BY DEF Width, Printing
  <2>5. q = n + 1
    <3>1. SUFFICES ASSUME q \in 1..n PROVE FALSE
      BY <2>2, <2>3
    <3>2. /\ Width(F, q - 1) \in Nat /\ Len(Piece(value[q], restricted)) \in Nat \ {0}
          /\ Width(F, q) = Width(F, q - 1) + Len(Piece(value[q], restricted))
          /\ Width(F, q) <= Len(text)
      BY <3>1, Spot
    <3> DEFINE l == Len(Piece(value[q], restricted))
    <3> HIDE DEF n, N
    <3>3. l \in Nat \ {0} /\ Width(F, q) = Width(F, q - 1) + l
      BY <3>2
    <3> HIDE DEF l
    <3> QED
      BY <2>1, <2>2, <2>3, <3>2, <3>3
  <2> DEFINE cs == <<NUL>>
  <2>6. Len(cs) = 1 /\ cs[1] = NUL
    OBVIOUS
  <2>7. buf' = [i \in 1..N |-> IF i \in q .. q + 1 - 1 THEN cs[i - q + 1] ELSE buf[i]]
    BY <2>1, <2>2, <2>6 DEF Put
  <2> HIDE DEF cs, n, N
  <2>8. DOMAIN buf' = 1..N /\ Len(buf') = N /\ N \in Nat /\ n + 1 <= N
    <3>1. N \in Nat
      BY <2>2 DEF N
    <3> QED
      BY <2>2, <2>5, <2>7, <3>1
  <2>9. buf'[n + 1] = NUL /\ \A j \in 1..n : buf'[j] = value[j]
    BY <2>2, <2>3, <2>5, <2>6, <2>7, <2>8
  <2> QED
    BY <2>1, <2>8, <2>9 DEF ReadInv, n
<1>10. CASE CollapseWhitespace
  BY <1>10 DEF CollapseWhitespace, ReadInv
<1>11. CASE UNCHANGED vars
  BY <1>11 DEF vars, ReadInv
<1> QED
  BY <1>4, <1>5, <1>6, <1>7, <1>8, <1>9, <1>10, <1>11 DEF Next

----------------------------------------------------------------------------
(* The theorems *)

\* The first text is one of bytes.
LEMMA TextBegins ==
  ASSUME XmlTextAssumption, Init
  PROVE  /\ value \in Seq(1..255)
         /\ Printed => \E restricted \in BOOLEAN : \E F :
                         /\ Heads(F, Pieces(value, restricted), 1..255) /\ text = F[Len(value)]
         /\ text \in Seq(1..255)
<1>1. value \in Seq(1..255)
  BY TextsAreBytes DEF Init
<1>2. CASE Printed
  <2>1. PICK restricted \in BOOLEAN :
          text = ParseText(PrintString(value, restricted) \o <<EndTag(restricted)>>, EndTag(restricted))
    BY <1>2 DEF Init, EndTag
  <2>2. PICK F : /\ Heads(F, Pieces(value, restricted), 1..255) /\ text = F[Len(value)]
    BY <1>1, <2>1, PrintedIsPieces
  <2>3. F \in [0..Len(value) -> Seq(1..255)]
    <3>1. Len(Pieces(value, restricted)) = Len(value)
      <4>1. DOMAIN value = 1..Len(value) /\ Len(value) \in Nat
        BY <1>1
      <4> QED
        BY <4>1 DEF Pieces
    <3> QED
      BY <2>2, <3>1 DEF Heads
  <2>4. Len(value) \in 0..Len(value)
    BY <1>1
  <2>5. text \in Seq(1..255)
    BY <2>2, <2>3, <2>4
  <2> QED
    BY <1>1, <2>2, <2>5
<1>3. CASE ~Printed
  BY <1>1, <1>3 DEF Init
<1> QED
  BY <1>2, <1>3

\* Before anything is read.
LEMMA BufferBegins ==
  ASSUME XmlTextAssumption, Init
  PROVE  BufferInv
<1>1. text \in Seq(1..255) /\ Len(text) \in Nat
  BY TextBegins
<1>2. buf = Append(text, NUL) /\ p = 1 /\ q = 1 /\ phase = "convert"
  BY DEF Init
<1>3. text \in Seq(0..255) /\ NUL \in 0..255
  <2>1. 1..255 \subseteq 0..255
    OBVIOUS
  <2> QED
    BY <1>1, <2>1, SeqWider DEF NUL
<1>4. /\ buf \in Seq(0..255) /\ Len(buf) = Len(text) + 1 /\ buf[Len(text) + 1] = NUL
      /\ \A i \in 1..Len(text) : buf[i] = text[i]
  BY <1>2, <1>3, AppendProperties
<1>5. DOMAIN buf = 1..(Len(text) + 1)
  BY <1>1, <1>4
<1> QED
  BY <1>1, <1>2, <1>4, <1>5 DEF BufferInv

\* At any time.
LEMMA BufferInvHolds ==
  ASSUME XmlTextAssumption
  PROVE  Spec => []BufferInv
<1>1. Init => BufferInv
  BY BufferBegins
<1>2. BufferInv /\ [Next]_vars => BufferInv'
  BY BufferKept
<1> QED
  BY <1>1, <1>2, PTL DEF Spec

\* The text between two tags is converted where it stands (StrPair::GetStr): what
\* is written never overtakes what is read, whatever references, entities and line
\* ends are in it.
THEOREM TextsInPlace ==
  ASSUME XmlTextAssumption
  PROVE  Spec => []InPlace
<1>1. BufferInv => InPlace
  <2> SUFFICES ASSUME BufferInv PROVE InPlace
    OBVIOUS
  <2>1. q <= p
    <3>1. text \in Seq(1..255)
      BY DEF BufferInv
    <3>2. Len(text) \in Nat
      BY <3>1, LenProperties
    <3> QED
      BY <3>2 DEF BufferInv
  <2> QED
    BY <2>1 DEF BufferInv, InPlace
<1> QED
  BY <1>1, BufferInvHolds, PTL

\* What was printed is there, or a CR in it.
PrintInv ==
  /\ BufferInv /\ value \in Seq(1..255)
  /\ (\A i \in 1..Len(value) : value[i] # CR) =>
       \E restricted \in BOOLEAN : \E F : Printing(restricted, F) /\ ReadInv(F)

\* Before anything is read.
LEMMA PrintBegins ==
  ASSUME XmlTextAssumption, Printed, Init
  PROVE  PrintInv
<1>1. BufferInv /\ value \in Seq(1..255) /\ text \in Seq(1..255)
  BY BufferBegins, TextBegins
<1>2. PICK restricted \in BOOLEAN : \E F :
        /\ Heads(F, Pieces(value, restricted), 1..255) /\ text = F[Len(value)]
  BY TextBegins
<1>3. PICK F : /\ Heads(F, Pieces(value, restricted), 1..255) /\ text = F[Len(value)]
  BY <1>2
<1>4. ReadInv(F)
  <2>1. F[0] = << >>
    BY <1>3 DEF Heads
  <2>2. Width(F, 1 - 1) = 0
    BY <2>1 DEF Width
  <2>3. q = 1 /\ p = 1 /\ phase = "convert" /\ Len(value) \in Nat
    BY <1>1 DEF Init
  <2> QED
    BY <2>2, <2>3 DEF ReadInv
<1> QED
  BY <1>1, <1>2, <1>3, <1>4 DEF PrintInv, Printing

\* After a step.
LEMMA PrintKept ==
  ASSUME ~Collapse, PrintInv, [Next]_vars
  PROVE  PrintInv'
<1>1. BufferInv'
  BY BufferKept DEF PrintInv
<1>2. UNCHANGED <<value, text>>
  BY DEF Next, newline, Newline, reference, entity, noEntity, copy, To, finish, CollapseWhitespace, vars
<1>3. ASSUME \A i \in 1..Len(value) : value[i] # CR
      PROVE  \E restricted \in BOOLEAN : \E F : Printing(restricted, F)' /\ ReadInv(F)'
  <2>1. PICK restricted \in BOOLEAN : \E F : Printing(restricted, F) /\ ReadInv(F)
    BY <1>3 DEF PrintInv
  <2>2. PICK F : Printing(restricted, F) /\ ReadInv(F)
    BY <2>1
  <2>3. ReadInv(F)'
    BY <2>2, ReadKept DEF PrintInv
  <2>4. Printing(restricted, F)'
    BY <1>2, <2>2 DEF Printing, Pieces
  <2> QED
    BY <2>3, <2>4
<1> QED
  BY <1>1, <1>2, <1>3 DEF PrintInv

\* A value printed as the text of an element or as an attribute (PrintString) and read
\* back (StrPair::GetStr) is the same: entities, end tags and quotes in it included, of
\* any length and with any characters but a CR.
THEOREM PrintedIsRead ==
  ASSUME XmlTextAssumption, Printed, ~Collapse
  PROVE  Spec => []RoundTrip
<1>1. Init => PrintInv
  BY PrintBegins
<1>2. PrintInv /\ [Next]_vars => PrintInv'
  BY PrintKept
<1>3. PrintInv => RoundTrip
  <2> SUFFICES ASSUME PrintInv, phase = "done", ~Contains(value, CR)
               PROVE  CString(buf) = value
    BY DEF RoundTrip
  <2> DEFINE n == Len(value)
             m == CHOOSE k \in DOMAIN buf : buf[k] = NUL /\ \A j \in 1 .. k - 1 : buf[j] # NUL
  <2>1. value \in Seq(1..255) /\ n \in Nat
    BY DEF PrintInv
  <2>2. \A i \in 1..n : value[i] # CR /\ value[i] # NUL
    <3>1. \A i \in 1..n : value[i] \in 1..255
      BY <2>1, ElementOfSeq
    <3>2. \A c \in 1..255 : c # NUL
      BY DEF NUL
    <3>3. \A i \in 1..n : value[i] # CR
      BY DEF Contains
    <3> QED
      BY <3>1, <3>2, <3>3
  <2>3. PICK F : ReadInv(F)
    BY <2>2 DEF PrintInv
  <2>4. /\ Len(buf) \in Nat /\ DOMAIN buf = 1..Len(buf) /\ n + 1 <= Len(buf)
        /\ \A j \in 1..n : buf[j] = value[j]
        /\ buf[n + 1] = NUL
    BY <2>3 DEF ReadInv
  <2> HIDE DEF n
  <2>5. m = n + 1
    <3>1. n + 1 \in DOMAIN buf /\ buf[n + 1] = NUL /\ \A j \in 1 .. (n + 1) - 1 : buf[j] # NUL
      BY <2>1, <2>2, <2>4
    <3>2. m \in DOMAIN buf /\ buf[m] = NUL /\ \A j \in 1 .. m - 1 : buf[j] # NUL
      BY <3>1
    <3> HIDE DEF m
    <3> QED
      BY <2>1, <2>2, <2>4, <3>2
  <2>6. CString(buf) = SubSeq(buf, 1, m - 1)
    BY DEF CString
  <2> HIDE DEF m
  <2>7. m - 1 = n
    BY <2>1, <2>5
  <2>8. SubSeq(buf, 1, n) = [j \in 1..n |-> value[j]]
    <3>1. SubSeq(buf, 1, n) = [j \in 1..n |-> buf[j]]
      BY <2>1, <2>4
    <3> QED
      BY <2>4, <3>1
  <2>9. value = [j \in 1..n |-> value[j]]
    BY <2>1 DEF n
  <2> QED
    BY <2>6, <2>7, <2>8, <2>9
<1> QED
  BY <1>1, <1>2, <1>3, PTL DEF Spec

----------------------------------------------------------------------------
(* Packaging tools *)

Line == [pkg : DOMAIN Origin, tool : ToSet(Present), repo : [id : Seq(STRING), url : BOOLEAN]]

ToolsTypeInv ==
  /\ pc \in {"idle", "run", "done", "failed"}
  /\ deps \in Seq(Line) /\ next \in Nat \ {0}
  /\ pc = "run" => deps \in Lists

\* A line of a list that may be worked on.
LEMMA LinesTyped ==
  ASSUME SystemToolsAssumption, ToolsTypeInv, next <= Len(deps)
  PROVE  Dep \in Line /\ next \in DOMAIN deps
  BY DEF ToolsTypeInv, Dep

\* Every step keeps the types.
LEMMA TypesKept ==
  ASSUME SystemToolsAssumption, ToolsTypeInv, [SystemNext]_systemVars
  PROVE  ToolsTypeInv'
<1>1. CASE start
  <2>1. deps' \in Lists /\ next' = 1 /\ pc' = "run"
    BY <1>1 DEF start, machine
  <2>2. deps' \in Seq(Line)
    BY <2>1 DEF SystemToolsAssumption, Line
  <2> QED
    BY <2>1, <2>2 DEF ToolsTypeInv
<1>2. CASE makeRetriever
  BY <1>2 DEF makeRetriever, ToolsTypeInv
<1>3. CASE install
  <2>1. UNCHANGED deps /\ pc = "run" /\ pc' \in {"run", "failed"} /\ next' \in Nat \ {0}
    BY <1>3 DEF install, installBrew, installAdding, installPackage, addFails, Step, Fail, ToolsTypeInv
  <2> QED
    BY <2>1 DEF ToolsTypeInv
<1>4. CASE bundle
  BY <1>4 DEF bundle, bundleScript, bundleLibs, Step, Fail, ToolsTypeInv
<1>5. CASE remoteAdd
  <2>1. UNCHANGED deps /\ pc = "run" /\ pc' \in {"run", "failed"} /\ next' \in {next, next + 1}
    BY <1>5 DEF remoteAdd, addFails, Step, Fail
  <2> QED
    BY <2>1 DEF ToolsTypeInv
<1>6. CASE remoteList \/ search
  <2>1. UNCHANGED deps /\ pc = "run" /\ pc' \in {"run", "failed"} /\ next' \in {next, next + 1}
    BY <1>6 DEF remoteList, search, answered, Step, Fail, machine
  <2> QED
    BY <2>1 DEF ToolsTypeInv
<1>7. CASE finishCommand
  BY <1>7 DEF finishCommand, machine, ToolsTypeInv
<1>8. CASE UNCHANGED systemVars
  BY <1>8 DEF systemVars, ToolsTypeInv
<1> QED
  BY <1>1, <1>2, <1>3, <1>4, <1>5, <1>6, <1>7, <1>8 DEF SystemNext

\* The first state is of these types.
LEMMA TypesBegin ==
  ASSUME SystemToolsAssumption, SystemInit
  PROVE  ToolsTypeInv
  BY DEF SystemInit, ToolsTypeInv

-----------------------------------------------------------------------------
(* The install script *)

\* The lines of the script that the bundle has gone past.
LinesBefore(n) == {i \in ScriptLines : i < n}

\* A script whose tool has been asked holds the commands of the lines so far.
ScriptInv ==
  /\ made \subseteq ToSet(Present) /\ script \in Seq([tool : Tool, pkg : DOMAIN Origin])
  /\ pc \in {"run", "done"} /\ command = "bundle" =>
       IF made \intersect Scripted = {} THEN LinesBefore(next) = {}
       ELSE ScriptOf(LinesBefore(next))
  /\ pc = "done" /\ command = "bundle" => next > Len(deps)

\* One more line of the script.
LEMMA ScriptGrows ==
  ASSUME SystemToolsAssumption, ToolsTypeInv, next <= Len(deps), Dep.tool \in Scripted,
         script \in Seq([tool : Tool, pkg : DOMAIN Origin]), ScriptOf(LinesBefore(next)),
         script' = Append(script, retrieveInstallCommand(Dep)), deps' = deps, next' = next + 1
  PROVE  /\ script' \in Seq([tool : Tool, pkg : DOMAIN Origin])
         /\ ScriptOf(LinesBefore(next))'
<1>1. Dep \in Line /\ next \in DOMAIN deps /\ next \in Nat
  BY LinesTyped DEF ToolsTypeInv
<1>2. PICK line \in [DOMAIN script -> LinesBefore(next)] :
        /\ \A i, j \in DOMAIN script : i < j => line[i] < line[j]
        /\ LinesBefore(next) = {line[i] : i \in DOMAIN script}
        /\ \A i \in DOMAIN script : script[i] = retrieveInstallCommand(deps[line[i]])
  BY DEF ScriptOf
<1> DEFINE K == Len(script)
           onto == [i \in 1..(K+1) |-> IF i = K + 1 THEN next ELSE line[i]]
           After == LinesBefore(next) \union {next}
<1>3. DOMAIN script = 1..K /\ K \in Nat
  OBVIOUS
<1>4. retrieveInstallCommand(Dep) \in [tool : Tool, pkg : DOMAIN Origin]
  BY <1>1 DEF retrieveInstallCommand, Line, SystemToolsAssumption
<1>5. /\ script' \in Seq([tool : Tool, pkg : DOMAIN Origin]) /\ DOMAIN script' = 1..(K+1)
      /\ \A i \in 1..K : script'[i] = script[i]
      /\ script'[K+1] = retrieveInstallCommand(Dep)
  BY <1>4
<1>6. LinesBefore(next)' = After
  <2>1. ScriptLines' = ScriptLines /\ next \in ScriptLines /\ \A i \in ScriptLines : i \in Nat
    BY <1>1 DEF ScriptLines, Dep, ToolsTypeInv
  <2> QED
    BY <1>1, <2>1 DEF LinesBefore
<1>7. \A i \in 1..K : line[i] \in LinesBefore(next) /\ line[i] < next
  BY <1>2, <1>3 DEF LinesBefore
<1>8. onto \in [1..(K+1) -> After]
  BY <1>3, <1>7
<1>9. ASSUME NEW i \in 1..(K+1), NEW j \in 1..(K+1), i < j PROVE onto[i] < onto[j]
  <2>1. i \in 1..K /\ onto[i] = line[i]
    BY <1>3, <1>9
  <2>2. CASE j = K + 1
    BY <1>7, <2>1, <2>2
  <2>3. CASE j # K + 1
    BY <1>2, <1>3, <1>9, <2>1, <2>3
  <2> QED
    BY <2>2, <2>3
<1>10. After = {onto[i] : i \in 1..(K+1)}
  BY <1>2, <1>3, <1>7
<1>11. \A i \in 1..(K+1) : script'[i] = retrieveInstallCommand(deps[onto[i]])
  BY <1>2, <1>3, <1>5 DEF Dep
<1> HIDE DEF onto, After, K
<1> DEFINE Scripts(L) ==
             \E at \in [DOMAIN script' -> L] :
               /\ \A i, j \in DOMAIN script' : i < j => at[i] < at[j]
               /\ L = {at[i] : i \in DOMAIN script'}
               /\ \A i \in DOMAIN script' : script'[i] = [tool |-> deps[at[i]].tool, pkg |-> deps[at[i]].pkg]
<1>12. \A i \in 1..(K+1) : script'[i] = [tool |-> deps[onto[i]].tool, pkg |-> deps[onto[i]].pkg]
  BY <1>11 DEF retrieveInstallCommand
<1>13. Scripts(After)
  <2>1. onto \in [DOMAIN script' -> After]
    BY <1>5, <1>8
  <2>2. \A i, j \in DOMAIN script' : i < j => onto[i] < onto[j]
    BY <1>5, <1>9
  <2>3. After = {onto[i] : i \in DOMAIN script'}
    BY <1>5, <1>10
  <2>4. \A i \in DOMAIN script' : script'[i] = [tool |-> deps[onto[i]].tool, pkg |-> deps[onto[i]].pkg]
    BY <1>5, <1>12
  <2> QED
    BY <2>1, <2>2, <2>3, <2>4
<1>14. ScriptOf(LinesBefore(next))' <=> Scripts(LinesBefore(next)')
  BY DEF ScriptOf, retrieveInstallCommand
<1> HIDE DEF Scripts
<1> QED
  BY <1>5, <1>6, <1>13, <1>14

\* Every step keeps the script so.
LEMMA ScriptKept ==
  ASSUME SystemToolsAssumption, OneScripted, ToolsTypeInv, ScriptInv, [SystemNext]_systemVars
  PROVE  ScriptInv'
<1>1. CASE start
  <2>1. next' = 1 /\ made' = {} /\ pc' = "run" /\ UNCHANGED script /\ deps' \in Seq(Line)
    BY <1>1 DEF start, machine, SystemToolsAssumption, Line
  <2>2. LinesBefore(next)' = {}
    BY <2>1 DEF LinesBefore, ScriptLines
  <2> QED
    BY <2>1, <2>2 DEF ScriptInv
<1>2. CASE makeRetriever
  <2>1. Dep \in Line /\ UNCHANGED <<deps, next, command, pc>> /\ made' = made \union {Dep.tool}
        /\ Dep.tool \notin made /\ pc = "run"
    BY <1>2, LinesTyped DEF makeRetriever
  <2>2. LinesBefore(next)' = LinesBefore(next)
    BY <2>1 DEF LinesBefore, ScriptLines
  <2>3. CASE Dep.tool \in Scripted
    <3>1. script' = <<>> /\ made \intersect Scripted = {}
      BY <1>2, <2>1, <2>3 DEF makeRetriever, OneScripted, ScriptInv, Line
    <3>2. DOMAIN script' = {} /\ script' \in Seq([tool : Tool, pkg : DOMAIN Origin])
      BY <3>1
    <3>3. ASSUME command = "bundle" PROVE ScriptOf(LinesBefore(next))'
      <4>1. LinesBefore(next) = {}
        BY <2>1, <3>1, <3>3 DEF ScriptInv
      <4>2. [i \in {} |-> 0] \in [DOMAIN script' -> {}]
        BY <3>2
      <4> QED
        BY <2>2, <3>2, <4>1, <4>2 DEF ScriptOf
    <3> QED
      BY <2>1, <2>3, <3>2, <3>3 DEF ScriptInv, Line
  <2>4. CASE Dep.tool \notin Scripted
    <3>1. UNCHANGED script
      BY <1>2, <2>4 DEF makeRetriever
    <3>2. ScriptOf(LinesBefore(next))' <=> ScriptOf(LinesBefore(next))
      BY <2>1, <2>2, <3>1 DEF ScriptOf, retrieveInstallCommand
    <3> QED
      BY <2>1, <2>2, <2>4, <3>1, <3>2 DEF ScriptInv, Line
  <2> QED
    BY <2>3, <2>4
<1>3. CASE install \/ remoteAdd \/ remoteList \/ search
  <2>1. command' = command /\ command # "bundle" /\ UNCHANGED <<made, script>>
    BY <1>3 DEF install, remoteAdd, remoteList, search, machine
  <2> QED
    BY <2>1 DEF ScriptInv
<1>4. CASE bundle
  <2>1. Dep \in Line /\ next \in DOMAIN deps /\ UNCHANGED <<deps, command, made>> /\ next' = next + 1
        /\ Dep.tool \in made /\ pc = "run" /\ command = "bundle" /\ pc' \in {"run", "failed"}
    BY <1>4, LinesTyped DEF bundle, Step, bundleScript, bundleLibs, Fail
  <2>2. CASE Dep.tool \in Scripted
    <3>1. script' = Append(script, retrieveInstallCommand(Dep))
      BY <1>4, <2>2 DEF bundle, bundleScript
    <3>2. made \intersect Scripted # {} /\ ScriptOf(LinesBefore(next))
      BY <2>1, <2>2 DEF ScriptInv
    <3>3. script' \in Seq([tool : Tool, pkg : DOMAIN Origin]) /\ ScriptOf(LinesBefore(next))'
      BY <1>4, <2>1, <2>2, <3>1, <3>2, ScriptGrows DEF ScriptInv, bundle
    <3> QED
      BY <2>1, <3>2, <3>3 DEF ScriptInv
  <2>3. CASE Dep.tool \notin Scripted
    <3>1. UNCHANGED script
      BY <1>4, <2>3 DEF bundle, bundleLibs
    <3>2. LinesBefore(next)' = LinesBefore(next)
      BY <2>1, <2>3 DEF LinesBefore, ScriptLines, ToolsTypeInv, Dep
    <3>3. ScriptOf(LinesBefore(next))' <=> ScriptOf(LinesBefore(next))
      BY <2>1, <3>1, <3>2 DEF ScriptOf, retrieveInstallCommand
    <3> QED
      BY <2>1, <3>1, <3>2, <3>3 DEF ScriptInv
  <2> QED
    BY <2>2, <2>3
<1>5. CASE finishCommand
  <2>1. /\ UNCHANGED <<script, deps, next, made, command>> /\ pc = "run" /\ pc' = "done"
        /\ command = "bundle" => next > Len(deps)
    BY <1>5 DEF finishCommand, machine, Rounds
  <2>2. LinesBefore(next)' = LinesBefore(next)
    BY <2>1 DEF LinesBefore, ScriptLines
  <2>3. ScriptOf(LinesBefore(next))' <=> ScriptOf(LinesBefore(next))
    BY <2>1, <2>2 DEF ScriptOf, retrieveInstallCommand
  <2> QED
    BY <2>1, <2>2, <2>3 DEF ScriptInv
<1>6. CASE UNCHANGED systemVars
  <2>1. LinesBefore(next)' = LinesBefore(next)
    BY <1>6 DEF LinesBefore, ScriptLines, systemVars
  <2>2. ScriptOf(LinesBefore(next))' <=> ScriptOf(LinesBefore(next))
    BY <1>6, <2>1 DEF ScriptOf, retrieveInstallCommand, systemVars
  <2> QED
    BY <1>6, <2>1, <2>2 DEF ScriptInv, systemVars
<1> QED
  BY <1>1, <1>2, <1>3, <1>4, <1>5, <1>6 DEF SystemNext

\* The script of a bundle that ends holds the commands that install the packages of this
\* bundle's lines, in their order and once each, whatever commands came before it.
THEOREM ScriptsAreBundles ==
  ASSUME SystemToolsAssumption, OneScripted
  PROVE  SystemSpec => []ScriptIsBundle
<1>1. ASSUME SystemInit PROVE ToolsTypeInv /\ ScriptInv
  <2>1. pc = "idle" /\ made = {} /\ script = <<>>
    BY <1>1 DEF SystemInit
  <2> QED
    BY <1>1, <2>1, TypesBegin DEF ScriptInv
<1>2. ToolsTypeInv /\ ScriptInv /\ [SystemNext]_systemVars => ToolsTypeInv' /\ ScriptInv'
  BY TypesKept, ScriptKept
<1>3. ASSUME ToolsTypeInv, ScriptInv PROVE ScriptIsBundle
  <2> SUFFICES ASSUME pc = "done", command = "bundle", ScriptLines # {} PROVE ScriptOf(ScriptLines)
    BY DEF ScriptIsBundle
  <2>1. LinesBefore(next) = ScriptLines
    BY <1>3 DEF ScriptInv, LinesBefore, ScriptLines, ToolsTypeInv
  <2> QED
    BY <1>3, <2>1 DEF ScriptInv
<1> QED
  BY <1>1, <1>2, <1>3, PTL DEF SystemSpec

----------------------------------------------------------------------------
(* What dependency files need *)

Kinds == {"plain", "static"}

\* The files of an installed world.
LinesOf == {w.lines : w \in Worlds}

\* What is found behind the folders of a world, up to some depth.
Levels(lines) == [DOMAIN lines -> [Kinds -> Seq(Listed(lines))]]

\* The files in which the walk looks for what d needs.
Kind(own, d) == IF own THEN OwnFile(d) ELSE "plain"

\* What is behind the packages ds.
Beyond(lines, own, deeper, ds) ==
  UNION {Range(deeper[Folder(d)][Kind(own, d)]) : d \in {e \in ds : Folder(e) \in DOMAIN lines}}

\* A sequence of elements of a smaller set.
LEMMA SeqNarrower ==
  ASSUME NEW A, NEW B, NEW s \in Seq(A), Range(s) \subseteq B
  PROVE  s \in Seq(B)
<1>1. DOMAIN s = 1..Len(s) /\ Len(s) \in Nat
  OBVIOUS
<1>2. \A i \in 1..Len(s) : s[i] \in B
  BY <1>1 DEF Range
<1>3. s = [i \in 1..Len(s) |-> s[i]]
  OBVIOUS
<1> QED
  BY <1>1, <1>2, <1>3

\* The lines of a file are sequences of packages that the world's files list.
LEMMA LinesTypes ==
  ASSUME NEW lines \in LinesOf, NEW f \in DOMAIN lines, NEW k \in Kinds
  PROVE  /\ lines[f][k] \in Seq(Seq(Listed(lines)))
         /\ ListedIn(lines, f, k) \subseteq Listed(lines)
<1>1. lines[f][k] \in Seq(Seq(Dependency))
  BY EnvironmentAssumption DEF LinesOf, Kinds
<1>2. ListedIn(lines, f, k) \subseteq Listed(lines)
  BY DEF Listed, Kinds
<1>3. \A i \in DOMAIN lines[f][k] : lines[f][k][i] \in Seq(Dependency)
  BY <1>1
<1>4. \A i \in DOMAIN lines[f][k] : Range(lines[f][k][i]) \subseteq Listed(lines)
  BY <1>2 DEF ListedIn
<1>5. \A i \in DOMAIN lines[f][k] : lines[f][k][i] \in Seq(Listed(lines))
  BY <1>3, <1>4, SeqNarrower
<1>6. Range(lines[f][k]) \subseteq Seq(Listed(lines))
  BY <1>5 DEF Range
<1> QED
  BY <1>1, <1>2, <1>6, SeqNarrower

\* What is behind a package of a world.
LEMMA DeeperTypes ==
  ASSUME NEW lines, NEW own \in BOOLEAN, NEW deeper \in Levels(lines), NEW d, Folder(d) \in DOMAIN lines
  PROVE  deeper[Folder(d)][Kind(own, d)] \in Seq(Listed(lines))
<1>1. Kind(own, d) \in Kinds
  BY DEF Kind, Kinds, OwnFile
<1> QED
  BY <1>1 DEF Levels

\* The packages of a file and those behind them.
LEMMA BehindRange ==
  ASSUME NEW lines, NEW own \in BOOLEAN, NEW deeper \in Levels(lines), NEW ds \in Seq(Listed(lines))
  PROVE  /\ Behind(lines, ds, own, deeper) \in Seq(Listed(lines))
         /\ Range(Behind(lines, ds, own, deeper)) = Range(ds) \union Beyond(lines, own, deeper, Range(ds))
<1> DEFINE S == Listed(lines)
           part(d) == IF Folder(d) \in DOMAIN lines THEN deeper[Folder(d)][Kind(own, d)] ELSE << >>
           parts == [j \in DOMAIN ds |-> part(ds[j])]
<1>1. Behind(lines, ds, own, deeper) = ds \o FlattenSeq(parts)
  BY DEF Behind, Kind
<1>2. \A j \in DOMAIN ds : part(ds[j]) \in Seq(S)
  <2>1. << >> \in Seq(S)
    OBVIOUS
  <2> QED
    BY <2>1, DeeperTypes
<1>3. parts \in Seq(Seq(S)) /\ DOMAIN parts = DOMAIN ds
  <2>1. DOMAIN ds = 1..Len(ds) /\ Len(ds) \in Nat
    OBVIOUS
  <2> HIDE DEF part, S
  <2> QED
    BY <1>2, <2>1
<1>4. FlattenSeq(parts) \in Seq(S) /\ Range(FlattenSeq(parts)) = UNION {Range(parts[j]) : j \in DOMAIN parts}
  <2> HIDE DEF parts, S
  <2> QED
    BY <1>3, FlattenRange
<1>5. UNION {Range(parts[j]) : j \in DOMAIN parts} = Beyond(lines, own, deeper, Range(ds))
  <2>1. Range(<< >>) = {}
    BY DEF Range
  <2>2. \A j \in DOMAIN ds : parts[j] = part(ds[j])
    OBVIOUS
  <2>3. UNION {Range(parts[j]) : j \in DOMAIN parts} = UNION {Range(part(ds[j])) : j \in DOMAIN ds}
    BY <1>3, <2>2
  <2>4. UNION {Range(part(ds[j])) : j \in DOMAIN ds} = UNION {Range(part(d)) : d \in Range(ds)}
    BY DEF Range
  <2>5. UNION {Range(part(d)) : d \in Range(ds)} = Beyond(lines, own, deeper, Range(ds))
    BY <2>1 DEF Beyond
  <2> QED
    BY <2>3, <2>4, <2>5
<1> QED
  <2> HIDE DEF parts
  <2> QED
    BY <1>1, <1>4, <1>5, ConcatRange

\* So for all files of a folder of one kind.
LEMMA DeeperRange ==
  ASSUME NEW lines \in LinesOf, NEW own \in BOOLEAN, NEW deeper \in Levels(lines)
  PROVE  /\ OneDeeper(lines, own, deeper) \in Levels(lines)
         /\ \A f \in DOMAIN lines, k \in Kinds :
              Range(OneDeeper(lines, own, deeper)[f][k]) =
                ListedIn(lines, f, k) \union Beyond(lines, own, deeper, ListedIn(lines, f, k))
<1> DEFINE S == Listed(lines)
           parts(f, k) == [i \in DOMAIN lines[f][k] |-> Behind(lines, lines[f][k][i], own, deeper)]
<1>1. ASSUME NEW f \in DOMAIN lines, NEW k \in Kinds
      PROVE  /\ FlattenSeq(parts(f, k)) \in Seq(S)
             /\ Range(FlattenSeq(parts(f, k))) =
                  ListedIn(lines, f, k) \union Beyond(lines, own, deeper, ListedIn(lines, f, k))
  <2> DEFINE ds == lines[f][k]
             ps == parts(f, k)
  <2>1. ds \in Seq(Seq(S))
    BY LinesTypes
  <2>2. \A i \in DOMAIN ds : ds[i] \in Seq(S)
    <3> HIDE DEF ds, S
    <3> QED
      BY <2>1
  <2>3. \A i \in DOMAIN ds : /\ ps[i] \in Seq(S)
                             /\ Range(ps[i]) = Range(ds[i]) \union Beyond(lines, own, deeper, Range(ds[i]))
    BY <2>2, BehindRange
  <2>4. ps \in Seq(Seq(S)) /\ DOMAIN ps = DOMAIN ds
    <3>1. DOMAIN ds = 1..Len(ds) /\ Len(ds) \in Nat
      <4> HIDE DEF ds, S
      <4> QED
        BY <2>1
    <3>2. ps = [i \in DOMAIN ds |-> ps[i]]
      OBVIOUS
    <3> HIDE DEF ps, ds, S
    <3> QED
      BY <2>3, <3>1, <3>2
  <2>5. FlattenSeq(ps) \in Seq(S) /\ Range(FlattenSeq(ps)) = UNION {Range(ps[i]) : i \in DOMAIN ps}
    <3> HIDE DEF ps, S
    <3> QED
      BY <2>4, FlattenRange
  <2>6. UNION {Range(ps[i]) : i \in DOMAIN ps} =
          UNION {Range(ds[i]) \union Beyond(lines, own, deeper, Range(ds[i])) : i \in DOMAIN ds}
    <3> HIDE DEF ps, ds
    <3> QED
      BY <2>3, <2>4
  <2>7. UNION {Range(ds[i]) \union Beyond(lines, own, deeper, Range(ds[i])) : i \in DOMAIN ds} =
          ListedIn(lines, f, k) \union Beyond(lines, own, deeper, ListedIn(lines, f, k))
    BY DEF ListedIn, Beyond
  <2> QED
    BY <2>5, <2>6, <2>7
<1>2. \A f \in DOMAIN lines, k \in Kinds : OneDeeper(lines, own, deeper)[f][k] = FlattenSeq(parts(f, k))
  BY DEF OneDeeper, Kinds
<1>3. OneDeeper(lines, own, deeper) =
        [f \in DOMAIN lines |-> [k \in Kinds |-> FlattenSeq(parts(f, k))]]
  BY DEF OneDeeper, Kinds
<1>4. OneDeeper(lines, own, deeper) \in Levels(lines)
  <2> HIDE DEF parts
  <2> QED
    BY <1>1, <1>3 DEF Levels
<1> QED
  <2> HIDE DEF parts
  <2> QED
    BY <1>1, <1>2, <1>4

\* What the walk finds n files deep.
Nothing(lines) == [f \in DOMAIN lines |-> [k \in Kinds |-> << >>]]
Found(w, lines, own) ==
  /\ w \in [0..Depth -> Levels(lines)] /\ w[0] = Nothing(lines)
  /\ \A n \in 1..Depth : w[n] = OneDeeper(lines, own, w[n - 1])

\* There is such a function.
LEMMA FoundExists ==
  ASSUME NEW lines \in LinesOf, NEW own \in BOOLEAN
  PROVE  \E w : Found(w, lines, own)
<1> DEFINE Good(w, k) == /\ w \in [0..k -> Levels(lines)] /\ w[0] = Nothing(lines)
                         /\ \A n \in 1..k : w[n] = OneDeeper(lines, own, w[n - 1])
           T == {k \in 0..Depth : \E w : Good(w, k)}
<1>1. Depth \in Nat
  BY EnvironmentAssumption
<1>2. 0 \in T
  <2> DEFINE w == [n \in 0..0 |-> Nothing(lines)]
  <2>1. Nothing(lines) \in Levels(lines)
    <3>1. << >> \in Seq(Listed(lines))
      OBVIOUS
    <3> QED
      BY <3>1 DEF Nothing, Levels
  <2>2. Good(w, 0)
    BY <2>1
  <2>3. 0 \in 0..Depth
    BY <1>1
  <2> HIDE DEF Good, w
  <2> QED
    BY <2>2, <2>3
<1>3. ASSUME NEW k \in 0..(Depth - 1), k \in T PROVE k + 1 \in T
  <2>1. PICK w : Good(w, k)
    BY <1>3
  <2>2. k \in Nat /\ k + 1 \in 0..Depth
    BY <1>1
  <2> DEFINE h == [n \in 0..(k + 1) |-> IF n = k + 1 THEN OneDeeper(lines, own, w[k]) ELSE w[n]]
  <2>3. OneDeeper(lines, own, w[k]) \in Levels(lines)
    <3>1. w[k] \in Levels(lines)
      BY <2>1, <2>2
    <3> QED
      BY <3>1, DeeperRange
  <2>4. h \in [0..(k + 1) -> Levels(lines)]
    BY <2>1, <2>2, <2>3
  <2>5. h[0] = Nothing(lines)
    BY <2>1, <2>2
  <2>6. ASSUME NEW n \in 1..(k + 1) PROVE h[n] = OneDeeper(lines, own, h[n - 1])
    <3>1. n - 1 \in 0..k /\ h[n - 1] = w[n - 1]
      BY <2>2
    <3>2. n # k + 1 => n \in 1..k /\ h[n] = w[n]
      BY <2>2
    <3>3. n = k + 1 => h[n] = OneDeeper(lines, own, w[n - 1])
      BY <2>2
    <3> HIDE DEF h
    <3> QED
      BY <2>1, <3>1, <3>2, <3>3
  <2>7. Good(h, k + 1)
    <3> HIDE DEF h
    <3> QED
      BY <2>4, <2>5, <2>6
  <2> HIDE DEF Good, h
  <2> QED
    BY <2>2, <2>7
<1>4. Depth \in T
  <2>1. 0..Depth \subseteq T
    <3> HIDE DEF T
    <3> QED
      BY <1>1, <1>2, <1>3, UpTo
  <2>2. Depth \in 0..Depth
    BY <1>1
  <2> HIDE DEF T
  <2> QED
    BY <2>1, <2>2
<1>5. PICK w : Good(w, Depth)
  BY <1>4
<1>6. Found(w, lines, own)
  BY <1>5 DEF Found
<1> QED
  BY <1>6

\* The walk collects what is found at its full depth.
LEMMA WalkFinds ==
  ASSUME NEW lines \in LinesOf, NEW own \in BOOLEAN, NEW w, Found(w, lines, own), NEW f
  PROVE  Walk(lines, f, own) = IF f \in DOMAIN lines THEN w[Depth][f]["plain"] ELSE << >>
<1> DEFINE Rule(v) == v = [n \in 0..Depth |-> IF n = 0 THEN Nothing(lines) ELSE OneDeeper(lines, own, v[n-1])]
           v == CHOOSE v : Rule(v)
           T == {n \in 0..Depth : v[n] = w[n]}
<1>1. Depth \in Nat
  BY EnvironmentAssumption
<1>2. Rule(w)
  <2>1. \A n \in 0..Depth : w[n] = IF n = 0 THEN Nothing(lines) ELSE OneDeeper(lines, own, w[n-1])
    BY <1>1 DEF Found
  <2>2. w = [n \in 0..Depth |-> w[n]]
    BY DEF Found
  <2> QED
    BY <2>1, <2>2
<1>3. Rule(v)
  <2> HIDE DEF Rule
  <2> QED
    BY <1>2
<1>4. \A n \in 0..Depth : v[n] = IF n = 0 THEN Nothing(lines) ELSE OneDeeper(lines, own, v[n-1])
  <2> HIDE DEF v
  <2> QED
    BY <1>3
<1> HIDE DEF v, Rule
<1>5. 0 \in T
  <2>1. 0 \in 0..Depth
    BY <1>1
  <2> QED
    BY <1>4, <2>1 DEF Found
<1>6. ASSUME NEW n \in 0..(Depth - 1), n \in T PROVE n + 1 \in T
  <2>1. n + 1 \in 0..Depth /\ n + 1 \in 1..Depth /\ (n + 1) - 1 = n /\ n + 1 # 0
    BY <1>1
  <2> DEFINE m == n + 1
  <2>2. v[m] = OneDeeper(lines, own, v[m - 1]) /\ w[m] = OneDeeper(lines, own, w[m - 1])
    <3> HIDE DEF m
    <3> QED
      BY <1>4, <2>1 DEF Found, m
  <2>3. v[m - 1] = w[m - 1]
    BY <1>6, <2>1
  <2>4. v[m] = w[m]
    <3> HIDE DEF m
    <3> QED
      BY <2>2, <2>3
  <2> QED
    BY <2>1, <2>4
<1>7. v[Depth] = w[Depth]
  <2>1. 0..Depth \subseteq T
    <3> HIDE DEF T
    <3> QED
      BY <1>1, <1>5, <1>6, UpTo
  <2>2. Depth \in 0..Depth
    BY <1>1
  <2> QED
    BY <2>1, <2>2
<1>8. Walk(lines, f, own) = IF f \in DOMAIN lines THEN v[Depth][f]["plain"] ELSE << >>
  BY DEF Walk, v, Rule, Nothing, Kinds
<1> QED
  BY <1>7, <1>8

\* The files of d in which run looks list what its plain ones do.
LEMMA OwnFileSuffices ==
  ASSUME StaticFilesSuffice, NEW lines \in LinesOf, NEW d \in Listed(lines), Folder(d) \in DOMAIN lines
  PROVE  /\ OwnFile(d) \in Kinds
         /\ ListedIn(lines, Folder(d), "plain") \subseteq ListedIn(lines, Folder(d), OwnFile(d))
BY DEF StaticFilesSuffice, LinesOf, OwnFile, Kinds

\* What info finds at any depth, run finds.
LEMMA FoundByBoth ==
  ASSUME StaticFilesSuffice, NEW lines \in LinesOf,
         NEW g, Found(g, lines, FALSE), NEW h, Found(h, lines, TRUE)
  PROVE  \A f \in DOMAIN lines : Range(g[Depth][f]["plain"]) \subseteq Range(h[Depth][f]["plain"])
<1> DEFINE Within(n, f, k) == Range(g[n][f]["plain"]) \subseteq Range(h[n][f][k])
           T == {n \in 0..Depth :
                   /\ \A f \in DOMAIN lines : Within(n, f, "plain")
                   /\ \A d \in Listed(lines) : Folder(d) \in DOMAIN lines => Within(n, Folder(d), OwnFile(d))}
<1>1. Depth \in Nat
  BY EnvironmentAssumption
<1>2. 0 \in T
  <2>1. \A f \in DOMAIN lines, k \in Kinds : g[0][f]["plain"] = << >> /\ h[0][f][k] = << >>
    BY DEF Found, Nothing, Kinds
  <2>2. \A f \in DOMAIN lines, k \in Kinds : Within(0, f, k)
    BY <2>1
  <2>3. 0 \in 0..Depth /\ "plain" \in Kinds
    BY <1>1 DEF Kinds
  <2>4. \A d \in Listed(lines) : Folder(d) \in DOMAIN lines => OwnFile(d) \in Kinds
    BY OwnFileSuffices
  <2> HIDE DEF Within
  <2> QED
    BY <2>2, <2>3, <2>4
<1>3. ASSUME NEW n \in 0..(Depth - 1), n \in T PROVE n + 1 \in T
  <2> DEFINE m == n + 1
  <2>1. m \in 0..Depth /\ m \in 1..Depth /\ m - 1 = n /\ n \in 0..Depth
    BY <1>1
  <2>2. /\ g[m] = OneDeeper(lines, FALSE, g[n]) /\ g[n] \in Levels(lines)
        /\ h[m] = OneDeeper(lines, TRUE, h[n]) /\ h[n] \in Levels(lines)
    <3> HIDE DEF m
    <3> QED
      BY <2>1 DEF Found
  <2> HIDE DEF m
  <2>3. ASSUME NEW f \in DOMAIN lines, NEW k \in Kinds,
               ListedIn(lines, f, "plain") \subseteq ListedIn(lines, f, k)
        PROVE  Within(m, f, k)
    <3> DEFINE A == ListedIn(lines, f, "plain")
               B == ListedIn(lines, f, k)
    <3>0. ASSUME NEW own \in BOOLEAN, NEW deeper \in Levels(lines), NEW kind \in Kinds
          PROVE  Range(OneDeeper(lines, own, deeper)[f][kind]) =
                   ListedIn(lines, f, kind) \union Beyond(lines, own, deeper, ListedIn(lines, f, kind))
      BY DeeperRange
    <3>1. Range(g[m][f]["plain"]) = A \union Beyond(lines, FALSE, g[n], A)
      <4>1. "plain" \in Kinds
        BY DEF Kinds
      <4>2. Range(OneDeeper(lines, FALSE, g[n])[f]["plain"]) = A \union Beyond(lines, FALSE, g[n], A)
        BY <2>2, <3>0, <4>1
      <4> QED
        BY <2>2, <4>2
    <3>2. Range(h[m][f][k]) = B \union Beyond(lines, TRUE, h[n], B)
      <4>1. Range(OneDeeper(lines, TRUE, h[n])[f][k]) = B \union Beyond(lines, TRUE, h[n], B)
        BY <2>2, <3>0
      <4> QED
        BY <2>2, <4>1
    <3>3. A \subseteq Listed(lines)
      BY LinesTypes DEF Kinds
    <3>4. ASSUME NEW d \in A, Folder(d) \in DOMAIN lines
          PROVE  Range(g[n][Folder(d)][Kind(FALSE, d)]) \subseteq Range(h[n][Folder(d)][Kind(TRUE, d)])
      <4>1. Within(n, Folder(d), OwnFile(d))
        BY <1>3, <3>3, <3>4
      <4> QED
        BY <4>1 DEF Kind
    <3>5. A \subseteq B
      BY <2>3
    <3>6. Beyond(lines, FALSE, g[n], A) \subseteq Beyond(lines, TRUE, h[n], B)
      <4> HIDE DEF A, B
      <4> QED
        BY <3>4, <3>5 DEF Beyond
    <3> HIDE DEF A, B
    <3> QED
      BY <3>1, <3>2, <3>5, <3>6
  <2>4. \A f \in DOMAIN lines : Within(m, f, "plain")
    BY <2>3 DEF Kinds
  <2>5. \A d \in Listed(lines) : Folder(d) \in DOMAIN lines => Within(m, Folder(d), OwnFile(d))
    BY <2>3, OwnFileSuffices
  <2>6. m \in T
    <3> HIDE DEF Within
    <3> QED
      BY <2>1, <2>4, <2>5
  <2> QED
    BY <2>6 DEF m
<1>4. Depth \in T
  <2>1. 0..Depth \subseteq T
    <3> HIDE DEF T
    <3> QED
      BY <1>1, <1>2, <1>3, UpTo
  <2>2. Depth \in 0..Depth
    BY <1>1
  <2> HIDE DEF T
  <2> QED
    BY <2>1, <2>2
<1> QED
  BY <1>4

\* Run collects packages that the files list, all that info shows among them.
LEMMA RunCollects ==
  ASSUME StaticFilesSuffice, NEW lines \in LinesOf, NEW f
  PROVE  /\ Walk(lines, f, TRUE) \in Seq(Listed(lines))
         /\ Range(Walk(lines, f, FALSE)) \subseteq Range(Walk(lines, f, TRUE))
<1>1. PICK g : Found(g, lines, FALSE)
  BY FoundExists
<1>2. PICK h : Found(h, lines, TRUE)
  BY FoundExists
<1>3. /\ Walk(lines, f, FALSE) = IF f \in DOMAIN lines THEN g[Depth][f]["plain"] ELSE << >>
      /\ Walk(lines, f, TRUE) = IF f \in DOMAIN lines THEN h[Depth][f]["plain"] ELSE << >>
  BY <1>1, <1>2, WalkFinds
<1>4. Depth \in 0..Depth
  BY EnvironmentAssumption
<1>5. f \in DOMAIN lines => h[Depth][f]["plain"] \in Seq(Listed(lines))
  BY <1>2, <1>4 DEF Found, Levels, Kinds
<1>6. << >> \in Seq(Listed(lines))
  OBVIOUS
<1> QED
  BY <1>1, <1>2, <1>3, <1>5, <1>6, FoundByBoth

----------------------------------------------------------------------------
(* The search path *)

\* The last of some places.
LEMMA LastPlace ==
  ASSUME NEW n \in Nat, NEW P, P \subseteq 1..n, P # {}
  PROVE  Max(P) \in P
<1> DEFINE Q == {n - i : i \in P}
<1>1. PICK j \in Q : \A k \in Q : j <= k
  <2>1. \A i \in P : n - i \in Nat
    OBVIOUS
  <2>2. Q \subseteq Nat
    BY <2>1
  <2>3. Q # {}
    OBVIOUS
  <2> HIDE DEF Q
  <2> QED
    BY <2>2, <2>3, LeastOf
<1>2. PICK i \in P : j = n - i
  BY <1>1
<1>3. ASSUME NEW k \in P PROVE i >= k
  <2>1. n - i <= n - k
    BY <1>1, <1>2
  <2>2. i \in 1..n /\ k \in 1..n
    OBVIOUS
  <2> QED
    BY <2>1, <2>2
<1> QED
  BY <1>3 DEF Max

\* A package that was collected, or another one where its libraries are, stays.
LEMMA FilteredKeeps ==
  ASSUME KeysApart, NEW lines \in LinesOf, NEW v \in Seq(Listed(lines)), NEW d \in Range(v)
  PROVE  /\ key(d) \in DOMAIN Filtered(v)
         /\ Folder(Filtered(v)[key(d)]) = Folder(d)
         /\ Filtered(v)[key(d)].type = d.type
<1>1. DOMAIN v = 1..Len(v) /\ Len(v) \in Nat /\ \A i \in 1..Len(v) : v[i] \in Listed(lines)
  OBVIOUS
<1>2. PICK i \in DOMAIN v : v[i] = d
  BY DEF Range
<1> DEFINE P == {j \in DOMAIN v : key(v[j]) = key(d)}
<1>3. Max(P) \in P
  <2>1. P \subseteq 1..Len(v) /\ P # {}
    BY <1>1, <1>2
  <2> HIDE DEF P
  <2> QED
    BY <1>1, <2>1, LastPlace
<1>4. key(d) \in DOMAIN Filtered(v) /\ Filtered(v)[key(d)] = v[Max(P)]
  <2>1. key(d) \in {key(v[j]) : j \in DOMAIN v}
    BY <1>2
  <2> QED
    BY <2>1 DEF Filtered
<1> DEFINE e == v[Max(P)]
<1>5. e \in Listed(lines) /\ d \in Listed(lines) /\ key(e) = key(d)
  <2>1. Max(P) \in DOMAIN v /\ key(e) = key(d)
    BY <1>3
  <2> HIDE DEF P
  <2> QED
    BY <1>1, <1>2, <2>1
<1>6. Folder(e) = Folder(d) /\ e.type = d.type
  <2> HIDE DEF e
  <2> QED
    BY <1>5 DEF KeysApart, LinesOf
<1> QED
  BY <1>4, <1>6

\* The folders of the libraries of what was collected are gathered.
LEMMA LibrariesGathered ==
  ASSUME KeysApart, world \in Worlds, depsVect \in Seq(Listed(world.lines)), depsMap = Filtered(depsVect),
         NEW d \in Range(depsVect), d.type \in {"REMAKEN", "BREW"}
  PROVE  LibraryFolder(d) \in Gathered("lib")
<1> DEFINE e == depsMap[key(d)]
<1>1. world.lines \in LinesOf
  BY DEF LinesOf
<1>2. key(d) \in DOMAIN depsMap /\ Folder(e) = Folder(d) /\ e.type = d.type
  BY <1>1, FilteredKeeps
<1>3. LibraryFolder(d) \in libPaths(e)
  <2> HIDE DEF e
  <2>1. CASE d.type = "REMAKEN"
    BY <1>2, <2>1 DEF libPaths, LibraryFolder
  <2>2. CASE d.type = "BREW"
    BY <1>2, <2>2 DEF libPaths, LibraryFolder
  <2> QED
    BY <2>1, <2>2
<1>4. Gathered("lib") = UNION {libPaths(depsMap[k]) : k \in DOMAIN depsMap}
  BY DEF Gathered
<1> QED
  BY <1>2, <1>3, <1>4

\* What the modules of the configuration need is collected.
ModulesCollected ==
  xml # NoFile => /\ xml \in DOMAIN world.modules
                  /\ Range(ModulesOf(xml)) \subseteq Range(depsVect)

\* What a run has collected at each stage.
CollectedInv ==
  /\ world \in Worlds /\ cmd \in Commands /\ depsVect \in Seq(Listed(world.lines))
  /\ cmd.is = "run" /\ stage \in {"parse", "filter", "env", "launch"} => ModulesCollected
  /\ stage \in {"filter", "env", "launch"} =>
       Range(Walk(world.lines, depsFile, TRUE)) \subseteq Range(depsVect)
  /\ stage \in {"env", "launch"} => cmd.is = "run" /\ depsMap = Filtered(depsVect)
  /\ stage \in {"idle", "binary", "modules"} => depsVect = << >>
  /\ Applied => stage = "done" /\ LibrariesOnPath /\ ModulesOnPath

\* The packages of the modules.
LEMMA ModulesTypes ==
  ASSUME StaticFilesSuffice, world \in Worlds, NEW x \in DOMAIN world.modules
  PROVE  /\ ModulesOf(x) \in Seq(Listed(world.lines))
         /\ \A i \in DOMAIN world.modules[x] : world.modules[x][i] \in world.named =>
              Range(Walk(world.lines, world.modules[x][i], FALSE)) \subseteq Range(ModulesOf(x))
<1> DEFINE ms == world.modules[x]
           S == Listed(world.lines)
           part(f) == IF f \in world.named THEN Walk(world.lines, f, TRUE) ELSE << >>
           parts == [i \in DOMAIN ms |-> part(ms[i])]
<1>1. world.lines \in LinesOf
  BY DEF LinesOf
<1>2. DOMAIN ms = 1..Len(ms) /\ Len(ms) \in Nat
  <2>1. ms \in Seq(Seq(Seq(STRING)))
    BY EnvironmentAssumption
  <2> HIDE DEF ms
  <2> QED
    BY <2>1
<1>3. ModulesOf(x) = FlattenSeq(parts)
  BY DEF ModulesOf, OfModule, parseRecurse
<1>4. \A i \in DOMAIN ms : /\ parts[i] \in Seq(S)
                           /\ ms[i] \in world.named =>
                                Range(Walk(world.lines, ms[i], FALSE)) \subseteq Range(parts[i])
  <2>1. << >> \in Seq(S)
    OBVIOUS
  <2> QED
    BY <1>1, <2>1, RunCollects
<1>5. parts \in Seq(Seq(S)) /\ DOMAIN parts = DOMAIN ms
  <2>1. parts = [i \in DOMAIN ms |-> parts[i]] /\ DOMAIN parts = DOMAIN ms
    OBVIOUS
  <2>2. \A i \in DOMAIN ms : parts[i] \in Seq(S)
    BY <1>4
  <2> HIDE DEF parts, ms, S
  <2> QED
    BY <1>2, <2>1, <2>2
<1>6. FlattenSeq(parts) \in Seq(S) /\ Range(FlattenSeq(parts)) = UNION {Range(parts[i]) : i \in DOMAIN parts}
  <2> HIDE DEF parts, S
  <2> QED
    BY <1>5, FlattenRange
<1> QED
  <2> HIDE DEF parts
  <2> QED
    BY <1>3, <1>4, <1>5, <1>6

\* A path to which everything gathered was added has the libraries.
LEMMA PathHasLibraries ==
  ASSUME KeysApart, StaticFilesSuffice, CollectedInv, stage \in {"env", "launch"},
         UNCHANGED <<world, depsFile, xml>>,
         Gathered("lib") \subseteq UNION Range(environment')
  PROVE  LibrariesOnPath' /\ ModulesOnPath'
<1> DEFINE Path == UNION Range(environment')
<1>1. world.lines \in LinesOf
  BY DEF CollectedInv, LinesOf
<1>2. ASSUME NEW d \in Range(depsVect), d.type \in {"REMAKEN", "BREW"}
      PROVE  LibraryFolder(d) \in Path
  <2>1. LibraryFolder(d) \in Gathered("lib")
    BY <1>2, LibrariesGathered DEF CollectedInv
  <2> QED
    BY <2>1
<1>3. \A d \in Range(Walk(world.lines, depsFile, FALSE)) : d \in Range(depsVect)
  BY <1>1, RunCollects DEF CollectedInv
<1>4. LibrariesOnPath'
  <2>1. Installed(depsFile)' = Range(Walk(world.lines, depsFile, FALSE))
    BY DEF Installed, readInfos
  <2> SUFFICES ASSUME NEW d \in Range(Walk(world.lines, depsFile, FALSE)), d.type \in {"REMAKEN", "BREW"}
               PROVE  LibraryFolder(d) \in Path
    BY <2>1 DEF LibrariesOnPath, LibraryFolder, Folder
  <2> QED
    BY <1>2, <1>3
<1>5. ModulesOnPath'
  <2> SUFFICES ASSUME xml # NoFile, NEW i \in DOMAIN world.modules[xml],
                      world.modules[xml][i] \in world.named,
                      NEW d \in Range(Walk(world.lines, world.modules[xml][i], FALSE)), d.type = "REMAKEN"
               PROVE  LibraryFolder(d) \in Path
    BY DEF ModulesOnPath, Installed, readInfos, LibraryFolder, Folder
  <2>1. xml \in DOMAIN world.modules /\ Range(ModulesOf(xml)) \subseteq Range(depsVect)
    BY DEF CollectedInv, ModulesCollected
  <2>2. d \in Range(ModulesOf(xml))
    BY <2>1, ModulesTypes DEF CollectedInv
  <2> QED
    BY <1>2, <2>1, <2>2
<1> QED
  BY <1>4, <1>5

\* The first state has collected nothing.
LEMMA CollectedBegins ==
  ASSUME EnvironmentInit
  PROVE  CollectedInv
<1>1. << >> \in Seq(Listed(world.lines))
  OBVIOUS
<1> QED
  BY <1>1 DEF EnvironmentInit, CollectedInv, Applied

\* Every step keeps what was collected.
LEMMA CollectedKept ==
  ASSUME KeysApart, StaticFilesSuffice, CollectedInv, [EnvironmentNext]_environmentVars
  PROVE  CollectedInv'
<1>1. world.lines \in LinesOf
  BY DEF CollectedInv, LinesOf
<1>2. CASE run \/ noFolder \/ noBin \/ findBinary
  <2>1. /\ UNCHANGED <<world, cmd, depsVect, environment>> /\ stage \in {"idle", "binary"}
        /\ stage' \in {"binary", "modules", "done"}
    BY <1>2 DEF run, noFolder, noBin, findBinary, Stop
  <2> QED
    BY <2>1 DEF CollectedInv, Applied
<1>3. CASE info
  <2>1. /\ UNCHANGED <<world, cmd, depsVect, environment>> /\ stage = "idle" /\ cmd.is = "info"
        /\ stage' \in {"parse", "done"}
    BY <1>3 DEF info, Stop
  <2> QED
    BY <2>1 DEF CollectedInv, Applied
<1>4. CASE noModules \/ badModules
  <2>1. /\ UNCHANGED <<world, cmd, depsVect, xml, environment>> /\ stage = "modules"
        /\ \/ stage' = "parse" /\ xml = NoFile
           \/ stage' = "done"
    BY <1>4 DEF noModules, badModules, Stop
  <2> QED
    BY <2>1 DEF CollectedInv, ModulesCollected, Applied
<1>5. CASE parseModules
  <2>1. /\ UNCHANGED <<world, cmd, xml, environment>> /\ stage = "modules" /\ stage' = "parse"
        /\ xml \in DOMAIN world.modules /\ depsVect' = ModulesOf(xml)
    BY <1>5 DEF parseModules
  <2>2. ModulesOf(xml) \in Seq(Listed(world.lines))
    BY <2>1, ModulesTypes DEF CollectedInv
  <2>3. ModulesOf(xml)' = ModulesOf(xml)
    BY <2>1 DEF ModulesOf, OfModule, parseRecurse
  <2>4. ModulesCollected'
    BY <2>1, <2>3 DEF ModulesCollected
  <2> QED
    BY <2>1, <2>2, <2>4 DEF CollectedInv, Applied
<1>6. CASE parse
  <2> DEFINE walk == Walk(world.lines, depsFile, TRUE)
  <2>1. /\ UNCHANGED <<world, cmd, xml, depsFile, environment>> /\ stage = "parse"
        /\ \/ stage' = "done" /\ UNCHANGED depsVect
           \/ stage' = "filter" /\ depsVect' = depsVect \o walk
    BY <1>6 DEF parse, parseRecurse, Stop
  <2>2. CASE stage' = "done" /\ UNCHANGED depsVect
    BY <2>1, <2>2 DEF CollectedInv, Applied
  <2>3. CASE stage' = "filter" /\ depsVect' = depsVect \o walk
    <3>1. walk \in Seq(Listed(world.lines)) /\ depsVect \in Seq(Listed(world.lines))
      BY <1>1, RunCollects DEF CollectedInv
    <3>2. depsVect' \in Seq(Listed(world.lines))'
      <4> HIDE DEF walk
      <4> QED
        BY <2>1, <2>3, <3>1, ConcatParts
    <3>3. Range(depsVect') = Range(depsVect) \union Range(walk)
      <4> HIDE DEF walk
      <4> QED
        BY <2>3, <3>1, ConcatRange
    <3>4. ModulesOf(xml)' = ModulesOf(xml)
      BY <2>1 DEF ModulesOf, OfModule, parseRecurse
    <3>5. cmd.is = "run" => ModulesCollected'
      BY <2>1, <3>3, <3>4 DEF CollectedInv, ModulesCollected
    <3>6. Range(Walk(world.lines, depsFile, TRUE))' \subseteq Range(depsVect')
      BY <2>1, <3>3
    <3> QED
      BY <2>1, <2>3, <3>2, <3>5, <3>6 DEF CollectedInv, Applied
  <2> QED
    BY <2>1, <2>2, <2>3
<1>7. CASE filter
  <2>1. /\ UNCHANGED <<world, cmd, xml, depsFile, depsVect, environment>> /\ stage = "filter"
        /\ depsMap' = Filtered(depsVect)
        /\ stage' = IF cmd.is = "info" THEN "include" ELSE IF cmd.env THEN "env" ELSE "launch"
    BY <1>7 DEF filter
  <2>2. ModulesOf(xml)' = ModulesOf(xml)
    BY <2>1 DEF ModulesOf, OfModule, parseRecurse
  <2>3. cmd.is \in {"run", "info"}
    BY EnvironmentAssumption DEF CollectedInv
  <2>4. cmd.is = "run" => ModulesCollected'
    BY <2>1, <2>2 DEF CollectedInv, ModulesCollected
  <2>5. stage' \in {"include", "env", "launch"} /\ (stage' \in {"env", "launch"} => cmd.is = "run")
    BY <2>1, <2>3
  <2>6. depsMap' = Filtered(depsVect)'
    BY <2>1
  <2> QED
    BY <2>1, <2>4, <2>5, <2>6 DEF CollectedInv, Applied
<1>8. CASE printEnvironment \/ launch
  <2>1. /\ UNCHANGED <<world, cmd, xml, depsFile, depsVect>> /\ stage \in {"env", "launch"} /\ stage' = "done"
        /\ \/ environment' \in {<<Gathered("lib"), {<<"inherited">>}>>, <<{<<"inherited">>}, Gathered("lib")>>}
           \/ UNCHANGED environment
    BY <1>8 DEF printEnvironment, launch, Stop
  <2>2. ASSUME environment' \in {<<Gathered("lib"), {<<"inherited">>}>>, <<{<<"inherited">>}, Gathered("lib")>>}
        PROVE  LibrariesOnPath' /\ ModulesOnPath'
    <3>1. Gathered("lib") \in Range(environment')
      BY <2>2 DEF Range
    <3> QED
      BY <2>1, <3>1, PathHasLibraries
  <2> QED
    BY <2>1, <2>2 DEF CollectedInv, Applied
<1>9. CASE displayInclude \/ displayLib \/ displayBin
  <2>1. /\ UNCHANGED <<world, cmd, depsVect, environment>> /\ stage \in {"include", "lib", "bin"}
        /\ stage' \in {"lib", "bin", "done"}
    BY <1>9 DEF displayInclude, displayLib, displayBin, Stop
  <2> QED
    BY <2>1 DEF CollectedInv, Applied
<1>10. CASE UNCHANGED environmentVars
  <2>1. UNCHANGED <<world, cmd, xml, depsFile, depsVect, depsMap, environment, stage>>
    BY <1>10 DEF environmentVars
  <2>2. ModulesOf(xml)' = ModulesOf(xml)
    BY <2>1 DEF ModulesOf, OfModule, parseRecurse
  <2> QED
    BY <2>1, <2>2 DEF CollectedInv, ModulesCollected, Applied, LibrariesOnPath, ModulesOnPath,
                      Installed, readInfos, LibraryFolder, Folder
<1> QED
  BY <1>2, <1>3, <1>4, <1>5, <1>6, <1>7, <1>8, <1>9, <1>10 DEF EnvironmentNext

\* Whatever is installed and however run is called: the libraries of every package that
\* the project or the package of the application needs, at any depth, are on the search
\* path that is printed or handed to the application.
THEOREM LibrariesAreOnPath ==
  ASSUME KeysApart, StaticFilesSuffice
  PROVE  EnvironmentSpec => []LibrariesOnPath
<1>1. CollectedInv => LibrariesOnPath
  BY DEF CollectedInv, LibrariesOnPath
<1> QED
  BY <1>1, CollectedBegins, CollectedKept, PTL DEF EnvironmentSpec

\* So are those that the packages of the modules of the application's configuration need,
\* of each package that has packagedependencies.txt itself.
THEOREM ModulesAreOnPath ==
  ASSUME KeysApart, StaticFilesSuffice
  PROVE  EnvironmentSpec => []ModulesOnPath
<1>1. CollectedInv => ModulesOnPath
  BY DEF CollectedInv, ModulesOnPath
<1> QED
  BY <1>1, CollectedBegins, CollectedKept, PTL DEF EnvironmentSpec
=============================================================================
