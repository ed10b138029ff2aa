------------------------------ MODULE XmlParse ------------------------------
(***************************************************************************)
(* A document read and saved by tinyxml2, as bundleXpcf does with the      *)
(* configuration of an application: XMLDocument::LoadFile and Parse,       *)
(* ParseDeep of the nodes, and XMLPrinter, whose file is read again.       *)
(* A file is a sequence of items: a tag, a comment, a section, or one      *)
(* character of text, blank or not.  A bad item is not ended or not named. *)
(***************************************************************************)
EXTENDS Integers, Sequences, FiniteSets, SequencesExt

CONSTANTS
  Item, MaxItems,  \* what files are made of, and how many of it
  MaxDepth,        \* TINYXML2_MAX_ELEMENT_DEPTH
  Compact          \* SaveFile's argument

XmlParseAssumption ==
  MaxItems \in Nat /\ MaxDepth \in Nat \ {0, 1} /\ Compact \in BOOLEAN

VARIABLES
  file,      \* ghost: what the first file held
  fromFile,  \* LoadFile, not Parse
  input, pos,
  writeBOM,
  stack,     \* the document and the elements that are open, with their children
  error,
  phase,     \* "start", "parse", "unwind", "parsed", "reload", "done"
  saved      \* the children of the document when it was saved

vars == <<file, fromFile, input, pos, writeBOM, stack, error, phase, saved>>

Tag(k, name) == [k |-> k, name |-> name, attrs |-> <<>>, bad |-> "no"]
Mark(k) == Tag(k, "")
Character == {"text", "blank"}
Tags == {"open", "empty", "close"}

Kind(i) == input[i].k
Skip(s, i) == CHOOSE j \in i .. Len(s) + 1 :
                (j > Len(s) \/ s[j].k # "blank") /\ \A l \in i .. j - 1 : s[l].k = "blank"
TextEnd(s, i) == CHOOSE j \in i .. Len(s) + 1 :
                   (j > Len(s) \/ s[j].k \notin Character) /\ \A l \in i .. j - 1 : s[l].k \in Character

Top == stack[Len(stack)]
Node(k, of, kids) == [k |-> k, of |-> of, kids |-> kids]
Frame(tag) == Node("element", tag, <<>>)
Document == <<Node("document", Mark("document"), <<>>)>>
Added(st, n) == [st EXCEPT ![Len(st)].kids = Append(@, n)]

----------------------------------------------------------------------------
\* Files: what is cut is at the end, and a byte order mark at the front.
Files == {s \in UNION {[1 .. n -> Item] : n \in 0 .. MaxItems} :
            \A i \in DOMAIN s : /\ s[i].bad = "cut" => i = Len(s)
                                /\ s[i].k = "bom" => i = 1}

Init ==
  /\ file \in Files /\ fromFile \in BOOLEAN
  /\ input = file /\ pos = 1 /\ writeBOM = FALSE
  /\ stack = Document /\ error = "none" /\ phase = "start" /\ saved = <<>>

\* XMLDocument::Parse, and the tests of a file before it.
start ==
  /\ phase \in {"start", "reload"}
  /\ LET b == Skip(input, 1)
         bom == b <= Len(input) /\ Kind(b) = "bom"
         p == IF bom THEN b + 1 ELSE b
     IN /\ writeBOM' = bom /\ pos' = p
        /\ IF p > Len(input) THEN error' = "empty" /\ phase' = "parsed"
                             ELSE phase' = "parse" /\ UNCHANGED error
  /\ UNCHANGED <<file, fromFile, input, stack, saved>>

Here == Skip(input, pos)
Parses(kinds) == phase = "parse" /\ Here <= Len(input) /\ Kind(Here) \in kinds
item == input[Here]

\* A node is done and becomes the last child; or the error is set and all that
\* is open is deleted.
add(n, next) ==
  /\ stack' = Added(stack, n) /\ pos' = next
  /\ UNCHANGED <<file, fromFile, input, writeBOM, error, phase, saved>>
fail(e) ==
  /\ error' = e /\ phase' = "unwind"
  /\ UNCHANGED <<file, fromFile, input, pos, writeBOM, stack, saved>>

\* What XMLElement::ParseAttributes and ParseName make of a tag.
TagError ==
  CASE item.bad = "name" -> "parsing"
    [] item.bad = "attribute" -> "attribute"
    [] \E i, j \in DOMAIN item.attrs : i < j /\ item.attrs[i] = item.attrs[j] -> "attribute"
    [] item.bad \in {"character", "cut"} -> "element"
    [] OTHER -> "none"

tagFails == Parses(Tags) /\ TagError # "none" /\ fail(TagError)
emptyTag == Parses({"empty"}) /\ TagError = "none" /\ add(Node("element", [item EXCEPT !.k = "open"], <<>>), Here + 1)

\* Mutant: one level more.
DeepMore(levels) == levels = MaxDepth + 1

\* XMLDocument::PushDepth
Deep(levels) == levels = MaxDepth

openTag ==
  /\ Parses({"open"}) /\ TagError = "none"
  /\ IF Here = Len(input) THEN fail("mismatch")
     ELSE IF Deep(Len(stack) + 1) THEN fail("depth")
     ELSE /\ stack' = Append(stack, Frame(item)) /\ pos' = Here + 1
          /\ UNCHANGED <<file, fromFile, input, writeBOM, error, phase, saved>>

Matches(tag, el) == tag.name = el.of.name
closeTag ==
  /\ Parses({"close"}) /\ TagError = "none" /\ Len(stack) > 1
  /\ stack' = IF Matches(item, Top) THEN Added(Front(stack), Top) ELSE Front(stack)
  /\ IF Matches(item, Top) THEN UNCHANGED <<error, phase>> ELSE error' = "mismatch" /\ phase' = "unwind"
  /\ pos' = Here + 1 /\ UNCHANGED <<file, fromFile, input, writeBOM, saved>>

\* An end tag of no element ends the document.
strayTag ==
  /\ Parses({"close"}) /\ TagError = "none" /\ Len(stack) = 1
  /\ phase' = "parsed" /\ pos' = Here + 1
  /\ UNCHANGED <<file, fromFile, input, writeBOM, stack, error, saved>>

section ==
  /\ Parses({"comment", "cdata", "unknown"})
  /\ IF item.bad = "cut" THEN fail(item.k) ELSE add(Node(item.k, item, <<>>), Here + 1)

WellLocated ==
  /\ Len(stack) = 1
  /\ Top.kids # <<>> => Head(Top.kids).k = "declaration" /\ Last(Top.kids).k = "declaration"
declaration ==
  /\ Parses({"declaration"})
  /\ IF item.bad = "cut" \/ ~WellLocated THEN fail("declaration")
     ELSE add(Node("declaration", item, <<>>), Here + 1)

\* Text counts from where the last item ended, blanks included, to the next tag.
text ==
  /\ Parses({"text"})
  /\ LET end == TextEnd(input, pos) IN
       IF end > Len(input) THEN fail("text")
       ELSE IF Kind(end) = "lt" THEN fail("parsing")
       ELSE add(Node("text", SubSeq(input, pos, end - 1), <<>>), end)

\* A < and nothing after it.
loneLess == Parses({"lt"}) /\ fail("parsing")

endOfInput ==
  /\ phase = "parse" /\ Here > Len(input)
  /\ phase' = IF Len(stack) = 1 THEN "parsed" ELSE "unwind"
  /\ UNCHANGED <<file, fromFile, input, pos, writeBOM, stack, error, saved>>

\* Each element that is open is deleted by the ParseDeep of its parent.
unwind ==
  /\ phase = "unwind"
  /\ IF Len(stack) > 1
     THEN stack' = Front(stack) /\ error' = (IF error = "none" THEN "parsing" ELSE error) /\ UNCHANGED phase
     ELSE phase' = "parsed" /\ UNCHANGED <<stack, error>>
  /\ UNCHANGED <<file, fromFile, input, pos, writeBOM, saved>>

----------------------------------------------------------------------------
\* The printer: what it has written, and its _depth, _textDepth, _firstElement
\* and the tag that is just open.
Spaces(n) == [i \in 1 .. n |-> Mark("blank")]

Seal(s) == [s EXCEPT !.out = @ \o s.just, !.just = <<>>]

PrepareForNewNode(s) ==
  LET t == Seal(s)
      gap == CASE t.first -> Spaces(t.depth)
               [] ~t.first /\ t.textDepth < 0 -> Spaces(1 + t.depth)
               [] OTHER -> <<>>
  IN IF Compact THEN t ELSE [t EXCEPT !.out = @ \o gap, !.first = FALSE]

OpenElement(s, n) ==
  [PrepareForNewNode(s) EXCEPT !.just = <<n.of>>, !.depth = @ + 1]

CloseElement(s, n) ==
  LET d == s.depth - 1
      gap == IF s.textDepth < 0 /\ ~Compact THEN Spaces(1 + d) ELSE <<>>
      tags == IF s.just # <<>> THEN <<[n.of EXCEPT !.k = "empty"]>> ELSE Append(gap, Tag("close", n.of.name))
  IN [s EXCEPT !.out = @ \o tags \o (IF d = 0 /\ ~Compact THEN Spaces(1) ELSE <<>>),
               !.just = <<>>, !.depth = d, !.textDepth = IF @ = d THEN -1 ELSE @]

\* Mutant: text is not noted, and line ends are put around it.
PushTextUnnoted(s, items) ==
  LET t == Seal(s) IN [t EXCEPT !.out = @ \o items]

PushText(s, items) ==
  LET t == Seal([s EXCEPT !.textDepth = s.depth - 1]) IN [t EXCEPT !.out = @ \o items]

RECURSIVE Accept(_, _)
Accept(s, n) ==
  IF n.k = "element"
    THEN CloseElement(FoldLeft(LAMBDA t, c : Accept(t, c), OpenElement(s, n), n.kids), n)
  ELSE IF n.k = "text" THEN PushText(s, n.of)
  ELSE IF n.k = "cdata" THEN PushText(s, <<n.of>>)
  ELSE LET t == PrepareForNewNode(s) IN [t EXCEPT !.out = Append(@, n.of)]

Written(kids, bom) ==
  LET s == [out |-> IF bom THEN <<Mark("bom")>> ELSE <<>>, just |-> <<>>, depth |-> 0, textDepth |-> -1, first |-> TRUE]
  IN FoldLeft(LAMBDA t, c : Accept(t, c), s, kids).out

SaveFile ==
  /\ phase = "parsed" /\ error = "none" /\ saved = <<>> /\ stack[1].kids # <<>>
  /\ saved' = stack[1].kids /\ input' = Written(stack[1].kids, writeBOM)
  /\ phase' = "reload" /\ stack' = Document /\ pos' = 1
  /\ UNCHANGED <<file, fromFile, writeBOM, error>>

\* A document that Parse could not read is emptied, one of a file is left.
finish ==
  /\ phase = "parsed" /\ ~(error = "none" /\ saved = <<>> /\ stack[1].kids # <<>>) /\ phase' = "done"
  /\ stack' = IF error # "none" /\ ~fromFile THEN Document ELSE stack
  /\ UNCHANGED <<file, fromFile, input, pos, writeBOM, error, saved>>

Next ==
  \/ start \/ tagFails \/ emptyTag \/ openTag \/ closeTag \/ strayTag \/ section \/ declaration
  \/ text \/ loneLess \/ endOfInput \/ unwind \/ SaveFile \/ finish

Spec == Init /\ [][Next]_vars

----------------------------------------------------------------------------
\* What a file is, whatever reads it.

\* From its first item that is neither blank nor a byte order mark.
Body(s) ==
  LET b == Skip(s, 1) IN SubSeq(s, IF b <= Len(s) /\ s[b].k = "bom" THEN b + 1 ELSE b, Len(s))
Opens(s, i, j) == Cardinality({l \in i .. j : s[l].k = "open"}) - Cardinality({l \in i .. j : s[l].k = "close"})
Pairs(s, i, j) ==
  /\ s[i].k = "open" /\ s[j].k = "close" /\ s[i].name = s[j].name
  /\ Opens(s, i + 1, j - 1) = 0 /\ \A l \in i + 1 .. j - 1 : Opens(s, i + 1, l) >= 0

\* Tags in pairs, nothing bad, no name twice, declarations first, text followed
\* by a tag, and open elements no deeper than the limit.
WellFormed(s) ==
  \A i \in DOMAIN s :
       /\ s[i].bad = "no" /\ s[i].k # "lt" /\ IsInjective(s[i].attrs)
       /\ s[i].k = "open" => \E j \in i + 1 .. Len(s) : Pairs(s, i, j)
       /\ s[i].k = "close" => \E j \in 1 .. i - 1 : Pairs(s, j, i)
       /\ s[i].k = "text" => TextEnd(s, i) <= Len(s)
       /\ s[i].k = "declaration" => \A j \in 1 .. i - 1 : s[j].k \in {"blank", "declaration"}
       /\ Opens(s, 1, i) < MaxDepth - 1

\* A file without its blanks between tags, and <a/> as a pair.
RECURSIVE Meaning(_)
Meaning(s) ==
  IF s = <<>> THEN <<>>
  ELSE IF Skip(s, 1) > Len(s) THEN <<>>
  ELSE LET j == Skip(s, 1) end == TextEnd(s, 1) IN
    CASE s[j].k = "text" -> SubSeq(s, 1, end - 1) \o Meaning(SubSeq(s, end, Len(s)))
      [] s[j].k = "empty" -> <<[s[j] EXCEPT !.k = "open"], Tag("close", s[j].name)>> \o Meaning(SubSeq(s, j + 1, Len(s)))
      [] OTHER -> <<s[j]>> \o Meaning(SubSeq(s, j + 1, Len(s)))

\* A tree as such a file.
RECURSIVE Flat(_)
Flat(kids) ==
  FlattenSeq([i \in DOMAIN kids |->
    CASE kids[i].k = "element" -> <<kids[i].of>> \o Flat(kids[i].kids) \o <<Tag("close", kids[i].of.name)>>
      [] kids[i].k = "text" -> kids[i].of
      [] OTHER -> <<kids[i].of>>])

First == phase = "parsed" /\ saved = <<>>
Stray == \E j \in DOMAIN file : Opens(file, 1, j) < 0

\* A file with something in it is read without an error exactly when it is well
\* formed, end tags of no element aside; and then nothing of it is lost and
\* nothing is added.
Reads ==
  First /\ ~Stray /\ Meaning(Body(file)) # <<>> =>
    /\ error = "none" <=> WellFormed(Body(file))
    /\ error = "none" => Flat(stack[1].kids) = Meaning(Body(file))

\* What is saved is read again as the same document, indented or not.  Text
\* next to no element is the exception: line ends are added to it.
RoundTrip ==
  phase = "done" /\ saved # <<>> /\ (\A i \in DOMAIN saved : saved[i].k # "text") =>
    error = "none" /\ stack[1].kids = saved
=============================================================================
