------------------------------- MODULE MCXml -------------------------------
(***************************************************************************)
(* tinyxml2 on small instances: texts and values (XmlText), the tree of a  *)
(* document in memory (XmlTree), files read and saved (XmlParse).          *)
(*                                                                         *)
(* A behaviour is one of them, the part; the variables of the others are 0.*)
(***************************************************************************)
EXTENDS Integers, Sequences, FiniteSets, SequencesExt

CONSTANTS doc, null

VARIABLES
  part,
  phase,                                             \* XmlText, XmlParse
  value, text, buf, p, q,                            \* XmlText
  h, crashed,                                        \* XmlTree
  file, fromFile, input, pos, writeBOM, stack, error, saved  \* XmlParse

textOnly == <<value, text, buf, p, q>>
treeOnly == <<h, crashed>>
parseOnly == <<file, fromFile, input, pos, writeBOM, stack, error, saved>>
vars == <<part, phase, textOnly, treeOnly, parseOnly>>

NoText == value = 0 /\ text = 0 /\ buf = 0 /\ p = 0 /\ q = 0
NoTree == h = 0 /\ crashed = 0
NoParse ==
  /\ file = 0 /\ fromFile = 0 /\ input = 0 /\ pos = 0 /\ writeBOM = 0 /\ stack = 0
  /\ error = 0 /\ saved = 0

----------------------------------------------------------------------------
(* Texts *)

Amp == 38
Letter == <<97>>                                          \* a
AmpRef == <<Amp, 97, 109, 112, 59>>                       \* &amp;
LtRef == <<Amp, 108, 116, 59>>                            \* &lt;
Eacute == <<Amp, 35, 50, 51, 51, 59>>                     \* &#233;

AnyText ==
  {Letter, AmpRef, LtRef, Eacute,
   <<Amp, 102, 59>>,                                      \* &f;
   <<Amp, 35, 120, 50, 48, 65, 67, 59>>,                  \* &#x20AC;
   <<Amp, 35, 120, 49, 102, 54, 48, 48, 59>>,             \* &#x1f600;
   <<Amp, 35, 97, 59>>}                                   \* &#a;
  \union {<<c>> : c \in {Amp, 35, 59, 13, 10, 32, 120}}
Values == {Letter, AmpRef} \union {<<c>> : c \in {Amp, 60, 62, 34, 39, 59, 10, 35, 13}}
Blanks == {Letter, Eacute, LtRef} \union {<<c>> : c \in {32, 10, 9}}

Texts == INSTANCE XmlText WITH Token <- AnyText, MaxTokens <- 3, Printed <- FALSE, Collapse <- FALSE
Shown == INSTANCE XmlText WITH Token <- Values, MaxTokens <- 3, Printed <- TRUE, Collapse <- FALSE
Spaced == INSTANCE XmlText WITH Token <- Blanks, MaxTokens <- 4, Printed <- FALSE, Collapse <- TRUE

----------------------------------------------------------------------------
(* Trees *)

\* Four elements in two blocks of memory; three elements and a text.
Tree == INSTANCE XmlTree WITH
  Pool <- {"element"}, Holder <- {"element"}, Items <- 2, Blocks <- [pool \in {"element"} |-> 2]
Leafy == INSTANCE XmlTree WITH
  Pool <- {"element", "text"}, Holder <- {"element"}, Items <- 1,
  Blocks <- [pool \in {"element", "text"} |-> IF pool = "element" THEN 3 ELSE 1]

\* The pointers and the pools as a forest of ordered trees.
Nodes == {"element"} \X (1 .. 4) \union {"text"} \X {1}
Live == IF part = "tree" THEN Tree!Live ELSE IF part = "leafy" THEN Leafy!Live ELSE {}
Kids ==
  [n \in Nodes \union {doc} |->
     IF n \notin Live \union {doc} THEN <<>>
     ELSE IF part = "tree" THEN Tree!ChildrenOf(h, n)
     ELSE IF part = "leafy" THEN Leafy!ChildrenOf(h, n) ELSE <<>>]
F == INSTANCE Forest WITH Node <- Nodes, Root <- doc, nodes <- Live, children <- Kids

----------------------------------------------------------------------------
(* Files *)

Tag(k, name) == [k |-> k, name |-> name, attrs |-> <<>>, bad |-> "no"]
Mark(k) == Tag(k, "")
Bad(k, how) == [Mark(k) EXCEPT !.bad = how]
Chars == {Mark("text"), Mark("blank")}
NestedItems == {Mark("text")} \union {Tag(k, n) : k \in {"open", "close"}, n \in {"a", "b"}}
KindItems ==
  Chars \union {Tag("open", "a"), Tag("close", "a"), Bad("close", "cut"), Bad("open", "cut"), Bad("lt", "cut"),
                Bad("open", "name"), Bad("empty", "character"), Bad("open", "attribute"), Mark("bom"),
                [Tag("open", "a") EXCEPT !.attrs = <<"x", "y">>], [Tag("empty", "a") EXCEPT !.attrs = <<"x", "x">>]}
  \union {Mark(k) : k \in {"comment", "cdata", "unknown", "declaration"}}
  \union {Bad(k, "cut") : k \in {"comment", "cdata", "unknown", "declaration"}}
MixedItems == Chars \union {Tag("open", "a"), Tag("close", "a"), Mark("comment")}

\* Elements in elements; every kind of node, whole and cut short; text among elements,
\* saved without line ends.
Nested == INSTANCE XmlParse WITH Item <- NestedItems, MaxItems <- 6, MaxDepth <- 4, Compact <- FALSE
Kinds == INSTANCE XmlParse WITH Item <- KindItems, MaxItems <- 3, MaxDepth <- 4, Compact <- FALSE
Mixed == INSTANCE XmlParse WITH Item <- MixedItems, MaxItems <- 6, MaxDepth <- 4, Compact <- FALSE
MixedCompact == INSTANCE XmlParse WITH Item <- MixedItems, MaxItems <- 5, MaxDepth <- 4, Compact <- TRUE

ASSUME XmlAssumption ==
  /\ Texts!XmlTextAssumption /\ Shown!XmlTextAssumption /\ Spaced!XmlTextAssumption
  /\ Tree!XmlTreeAssumption /\ Leafy!XmlTreeAssumption
  /\ Nested!XmlParseAssumption /\ Kinds!XmlParseAssumption
  /\ Mixed!XmlParseAssumption /\ MixedCompact!XmlParseAssumption

----------------------------------------------------------------------------

XmlInit ==
  \/ /\ NoTree /\ NoParse
     /\ \/ part = "any" /\ Texts!Init
        \/ part = "shown" /\ Shown!Init
        \/ part = "spaced" /\ Spaced!Init
  \/ /\ phase = 0 /\ NoText /\ NoParse
     /\ (part = "tree" /\ Tree!Init) \/ (part = "leafy" /\ Leafy!Init)
  \/ /\ NoText /\ NoTree
     /\ \/ part = "nested" /\ Nested!Init
        \/ part = "kinds" /\ Kinds!Init
        \/ part = "mixed" /\ Mixed!Init
        \/ part = "compact" /\ MixedCompact!Init

XmlNext ==
  /\ part' = part
  /\ \/ /\ \/ part = "any" /\ Texts!Next
           \/ part = "shown" /\ Shown!Next
           \/ part = "spaced" /\ Spaced!Next
        /\ UNCHANGED <<treeOnly, parseOnly>>
     \/ /\ (part = "tree" /\ Tree!Next) \/ (part = "leafy" /\ Leafy!Next)
        /\ UNCHANGED <<phase, textOnly, parseOnly>>
     \/ /\ \/ part = "nested" /\ Nested!Next
           \/ part = "kinds" /\ Kinds!Next
           \/ part = "mixed" /\ Mixed!Next
           \/ part = "compact" /\ MixedCompact!Next
        /\ UNCHANGED <<textOnly, treeOnly>>

XmlSpec == XmlInit /\ [][XmlNext]_vars

\* The trees alone.
TreesSpec == XmlInit /\ part \in {"tree", "leafy"} /\ [][XmlNext]_vars

----------------------------------------------------------------------------

\* The value of a well-formed text is what it means in XML, in UTF-8, converted in place
\* (StrPair::GetStr); collapsed, it is its words with single spaces between them.
Decoded ==
  /\ part = "any" => Texts!InPlace /\ Texts!Decoded
  /\ part = "shown" => Shown!InPlace /\ Shown!Decoded
  /\ part = "spaced" => Spaced!Spaces

\* A value printed as the text of an element or as an attribute is read back as it was,
\* and a document that is saved is read again as the same document: bundleXpcf rewrites
\* the configuration of an application so.
RoundTrip ==
  /\ part = "shown" => Shown!RoundTrip
  /\ part = "mixed" => Mixed!RoundTrip
  /\ part = "compact" => MixedCompact!RoundTrip

\* A file with something in it is read without an error exactly when it is well formed,
\* end tags of no element aside; and then nothing of it is lost and nothing is added.
Reads ==
  /\ part = "nested" => Nested!Reads
  /\ part = "kinds" => Kinds!Reads

\* The siblings of a node are linked in both directions; a node in use is below one
\* parent or, once, in the list of unlinked nodes, so that Clear frees it once; and the
\* counts of the pools are those that Clear asserts (XMLDocument::Clear, l.2225).
MemoryWhole ==
  /\ part = "tree" => Tree!Lists /\ Tree!OnePlace /\ Tree!Counted
  /\ part = "leafy" => Leafy!Lists /\ Leafy!OnePlace /\ Leafy!Counted

\* Whatever the calls that return, the pointers implement a forest: to insert a node
\* moves it with all below it and leaves the order of the others, to delete one takes all
\* below along.  A call that does not return is the subject of InsertsReturn.
ForestRefined == F!FSpec

\* InsertAfterChild: "If the child node is already part of the document, it is moved from
\* its old location to the new location" (tinyxml2.h:858): so the call returns, wherever
\* the node was.
InsertsReturn == part \in {"tree", "leafy"} => ~crashed
=============================================================================
