------------------------------ MODULE XmlText ------------------------------
(***************************************************************************)
(* Text and attribute values of tinyxml2: StrPair and XMLUtil, which turn  *)
(* what is between two tags into its value in place, one character of the  *)
(* buffer after the other, and XMLPrinter::PrintString, which writes a     *)
(* value.  A character is its code.                                        *)
(***************************************************************************)
EXTENDS Integers, Sequences, FiniteSets, SequencesExt

CONSTANTS
  Token,      \* pieces the texts are made of
  MaxTokens,
  Printed,    \* the text is a value as PrintString writes it, and not any text
  Collapse    \* COLLAPSE_WHITESPACE

XmlTextAssumption ==
  Token \subseteq Seq(1..255) /\ MaxTokens \in Nat /\ Printed \in BOOLEAN /\ Collapse \in BOOLEAN

VARIABLES
  value,       \* ghost: what was printed
  text,        \* what is between the tags
  buf, p, q,   \* the buffer, read at p and written at q
  phase        \* "convert", "collapse", "done"

vars == <<value, text, buf, p, q, phase>>

NUL == 0    LF == 10    CR == 13    SP == 32    QUOT == 34   HASH == 35   AMP == 38
APOS == 39  SEMI == 59  LT == 60    GT == 62    X == 120
White == {9, LF, 11, 12, CR, SP}

entities ==
  {[value |-> QUOT, pattern |-> <<113, 117, 111, 116>>], [value |-> AMP, pattern |-> <<97, 109, 112>>],
   [value |-> APOS, pattern |-> <<97, 112, 111, 115>>], [value |-> LT, pattern |-> <<108, 116>>],
   [value |-> GT, pattern |-> <<103, 116>>]}

\* Where s is found in t.
AtPlace(s, t, i) == i + Len(s) - 1 <= Len(t) /\ SubSeq(t, i, i + Len(s) - 1) = s
EntityAt(t, i) == {e \in entities : AtPlace(<<AMP>> \o e.pattern \o <<SEMI>>, t, i)}

----------------------------------------------------------------------------
\* The printer.

Flagged(restricted) == IF restricted THEN {AMP, LT, GT} ELSE {e.value : e \in entities}

PrintString(s, restricted) ==
  FlattenSeq([i \in DOMAIN s |->
    IF s[i] \in Flagged(restricted)
    THEN <<AMP>> \o (CHOOSE e \in entities : e.value = s[i]).pattern \o <<SEMI>> ELSE <<s[i]>>])

\* The text before the first end tag.
ParseText(s, tag) ==
  SubSeq(s, 1, (CHOOSE n \in DOMAIN s : s[n] = tag /\ \A m \in 1 .. n - 1 : s[m] # tag) - 1)

----------------------------------------------------------------------------
\* Character references.

Digit(c) == IF c \in 48 .. 57 THEN c - 48
            ELSE IF c \in 97 .. 102 THEN c - 87 ELSE IF c \in 65 .. 70 THEN c - 55 ELSE 99

ConvertUTF32ToUTF8(u) ==
  LET n == IF u < 128 THEN 1 ELSE IF u < 2048 THEN 2 ELSE IF u < 65536 THEN 3
           ELSE IF u < 2097152 THEN 4 ELSE 0
      mark == <<0, 192, 224, 240>>
  IN [i \in 1 .. n |-> IF i = 1 THEN mark[n] + (u \div 64 ^ (n - 1))
                       ELSE 128 + ((u \div 64 ^ (n - i)) % 64)]

\* The number that digits write in a base.
Value(digits, base) ==
  LET sum[n \in 0..Len(digits)] == IF n = 0 THEN 0 ELSE sum[n-1] * base + digits[n]
  IN sum[Len(digits)]

\* What the reference at i of b stands for, and where it ends; ok says whether
\* it could be read.  Digits are read from the semicolon back to the last mark.
GetCharacterRef(b, i) ==
  LET hex == b[i + 2] = X
      semis == {j \in (IF hex THEN i + 3 ELSE i + 2) .. Len(b) : b[j] = SEMI}
      semi == CHOOSE j \in semis : \A k \in semis : j <= k
      from == CHOOSE j \in i + 1 .. semi - 1 :
                /\ b[j] = (IF hex THEN X ELSE HASH)
                /\ \A k \in j + 1 .. semi - 1 : b[k] # (IF hex THEN X ELSE HASH)
      base == IF hex THEN 16 ELSE 10
      digits == [j \in 1 .. semi - 1 - from |-> Digit(b[from + j])]
      ucs == Value(digits, base)
      fail == [ok |-> FALSE, bytes |-> <<>>, next |-> i]
  IN IF b[i + 2] = NUL THEN [ok |-> TRUE, bytes |-> <<>>, next |-> i + 1]
     ELSE IF semis = {} THEN fail
     ELSE IF \E d \in DOMAIN digits : digits[d] >= base THEN fail
     ELSE [ok |-> TRUE, bytes |-> ConvertUTF32ToUTF8(ucs), next |-> semi + 1]

----------------------------------------------------------------------------
Texts == {FlattenSeq(ts) : ts \in UNION {[1 .. n -> Token] : n \in 0 .. MaxTokens}}

Init ==
  /\ value \in Texts
  /\ \E restricted \in IF Printed THEN BOOLEAN ELSE {TRUE} :
       LET tag == IF restricted THEN LT ELSE QUOT
       IN text = IF Printed THEN ParseText(PrintString(value, restricted) \o <<tag>>, tag) ELSE value
  /\ buf = Append(text, NUL) /\ p = 1 /\ q = 1 /\ phase = "convert"

Put(cs) == [i \in DOMAIN buf |-> IF i \in q .. q + Len(cs) - 1 THEN cs[i - q + 1] ELSE buf[i]]
To(cs, next) ==
  /\ buf' = Put(cs) /\ q' = q + Len(cs) /\ p' = next
  /\ UNCHANGED <<value, text, phase>>

\* A pair of CR and LF, in any order, is one LF.
Newline == To(<<LF>>, p + (IF buf[p + 1] \in {CR, LF} \ {buf[p]} THEN 2 ELSE 1))

Reading == phase = "convert" /\ p <= Len(text)
newline == Reading /\ buf[p] \in {CR, LF} /\ Newline
reference ==
  /\ Reading /\ buf[p] = AMP /\ buf[p + 1] = HASH
  /\ LET r == GetCharacterRef(buf, p) IN IF r.ok THEN To(r.bytes, r.next) ELSE To(<<AMP>>, p + 1)

\* Mutant: the semicolon of an entity is kept.
AfterEntityShort(e) == p + Len(e.pattern) + 1

AfterEntity(e) == p + Len(e.pattern) + 2
entity == /\ Reading
          /\ \E e \in EntityAt(buf, p) : To(<<e.value>>, AfterEntity(e))
\* The ampersand of any other name is passed over and not copied.
noEntity ==
  /\ Reading /\ buf[p] = AMP /\ buf[p + 1] # HASH /\ EntityAt(buf, p) = {}
  /\ p' = p + 1 /\ q' = q + 1 /\ UNCHANGED <<value, text, buf, phase>>
copy == Reading /\ buf[p] \notin {CR, LF, AMP} /\ To(<<buf[p]>>, p + 1)

finish ==
  /\ phase = "convert" /\ p > Len(text)
  /\ buf' = Put(<<NUL>>)
  /\ phase' = IF Collapse THEN "collapse" ELSE "done"
  /\ UNCHANGED <<value, text, p, q>>

CString(b) == SubSeq(b, 1, (CHOOSE n \in DOMAIN b : b[n] = NUL /\ \A m \in 1 .. n - 1 : b[m] # NUL) - 1)

\* Runs of white space become one space; a space is written only before a
\* character that is not one.
Collapsed(s) ==
  FoldLeft(LAMBDA a, i : IF s[i] \in White THEN a
                         ELSE IF a # <<>> /\ s[i - 1] \in White THEN a \o <<SP, s[i]>>
                         ELSE Append(a, s[i]), <<>>, [i \in DOMAIN s |-> i])

CollapseWhitespace ==
  /\ phase = "collapse" /\ phase' = "done"
  /\ buf' = Append(Collapsed(CString(buf)), NUL)
  /\ UNCHANGED <<value, text, p, q>>

Next == newline \/ reference \/ entity \/ noEntity \/ copy \/ finish \/ CollapseWhitespace
Spec == Init /\ [][Next]_vars

----------------------------------------------------------------------------
\* The meaning of a text, as XML defines it: its characters.

\* The number a reference at i writes, its digits from the left.
Number(t, i, j) ==
  LET hex == t[i + 2] = X
      ds == SubSeq(t, IF hex THEN i + 3 ELSE i + 2, j - 1)
  IN FoldLeft(LAMBDA a, c : (IF hex THEN 16 ELSE 10) * a + Digit(c), 0, ds)
RefEnd(t, i) ==
  LET from == IF i + 2 <= Len(t) /\ t[i + 2] = X THEN i + 3 ELSE i + 2
  IN {j \in from + 1 .. Len(t) : /\ t[j] = SEMI
                                 /\ \A k \in from .. j - 1 : Digit(t[k]) < (IF from = i + 3 THEN 16 ELSE 10)}
WellFormed(t) ==
  \A i \in DOMAIN t : t[i] = AMP =>
    \/ EntityAt(t, i) # {}
    \/ /\ i < Len(t) /\ t[i + 1] = HASH
       /\ \E j \in RefEnd(t, i) : Number(t, i, j) \in 1 .. 1114111

Meaning(t) ==
  LET m[i \in 1 .. Len(t) + 2] ==
        IF i > Len(t) THEN <<>>
        ELSE IF EntityAt(t, i) # {}
          THEN LET e == CHOOSE e \in EntityAt(t, i) : TRUE
               IN <<e.value>> \o m[i + Len(e.pattern) + 2]
        ELSE IF t[i] = AMP
          THEN LET j == CHOOSE j \in RefEnd(t, i) : TRUE IN <<Number(t, i, j)>> \o m[j + 1]
        ELSE IF t[i] \in {CR, LF}
          THEN <<LF>> \o m[IF i < Len(t) /\ t[i + 1] \in {CR, LF} \ {t[i]} THEN i + 2 ELSE i + 1]
        ELSE <<t[i]>> \o m[i + 1]
  IN m[1]

\* The characters a sequence of bytes encodes in UTF-8.
Characters(b) ==
  LET size(c) == IF c < 128 THEN 1 ELSE IF c < 224 THEN 2 ELSE IF c < 240 THEN 3 ELSE 4
      lead(c) == CASE c < 128 -> c [] c \in 192 .. 223 -> c - 192
                   [] c \in 224 .. 239 -> c - 224 [] OTHER -> c - 240
      m[i \in 1 .. Len(b) + 4] ==
        IF i > Len(b) THEN <<>>
        ELSE <<FoldLeft(LAMBDA a, c : a * 64 + c - 128, lead(b[i]), SubSeq(b \o <<0, 0, 0>>, i + 1, i + size(b[i]) - 1))>>
             \o m[i + size(b[i])]
  IN m[1]

\* Types, and in place: nothing is written over what has not been read yet.
InPlace ==
  /\ phase \in {"convert", "collapse", "done"} /\ q <= p
  /\ phase = "convert" => \A i \in p .. Len(text) : buf[i] = text[i]

\* The value of a well-formed text is what it means in XML, in UTF-8.
Decoded ==
  phase = "done" /\ ~Collapse /\ WellFormed(text) => Characters(CString(buf)) = Meaning(text)

\* A value printed as the text of an element or as an attribute is read back as
\* it was, end tags and quotes in it included; bundleXpcf rewrites its file so.
\* A CR is the exception: it is printed as it is.
RoundTrip ==
  phase = "done" /\ Printed /\ ~Contains(value, CR) => CString(buf) = value

\* White space is collapsed to single spaces between words, and the words are
\* those of the value.
Spaces ==
  phase = "done" /\ Collapse /\ WellFormed(text) =>
    LET s == CString(buf) IN
    /\ \A i \in DOMAIN s : s[i] \in White => i \notin {1, Len(s)} /\ s[i] = SP /\ s[i + 1] \notin White
    /\ SelectSeq(Characters(s), LAMBDA c : c \notin White) =
         SelectSeq(Meaning(text), LAMBDA c : c \notin White)
=============================================================================
