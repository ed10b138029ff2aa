----------------------------- MODULE MCBundle ------------------------------
(***************************************************************************)
(* Packages for module Bundle.                                             *)
(***************************************************************************)
EXTENDS BundleProps, TLC

LibName == {"a.so", "a.so.1", "a.so.2", "b.so", "c.so", "readme"}
ToFile(c) == [kind |-> "file", to |-> NoName, content |-> c]
ToLink(n) == [kind |-> "link", to |-> n, content |-> NoContent]
Lib(f) == [n \in Name |-> IF n \in DOMAIN f THEN f[n] ELSE Absent]

\* a was a plain file once, then a link to the release's file.
LibA == {Lib("a.so" :> ToFile("y")),
         Lib("a.so.1" :> ToFile("x") @@ "a.so" :> ToLink("a.so.1")),
         Lib("a.so.2" :> ToFile("x") @@ "a.so" :> ToLink("a.so.2") @@ "readme" :> ToFile("x")),
         Lib("a.so.2" :> ToFile("y") @@ "a.so" :> ToLink("a.so.2"))}
LibB == {Lib("b.so" :> ToFile("x")), Lib("b.so" :> ToFile("y"))}

File(deps) == [valid |-> TRUE, deps |-> deps]
Broken == [valid |-> FALSE, deps |-> << >>]
Lists(extra, package) == [t \in FileType |-> IF t = "PACKAGE" THEN package ELSE extra]
None == Lists(<< >>, << >>)

\* The project needs a, which needs b, a static package whose dependency file is not
\* read, although not valid.  In its extra packages a and c list each other, c with
\* headers only or, in another release, a library.  k comes from conan, g from
\* chocolatey, i is ignored.
TreeDep == {"a", "b", "c", "k", "g", "i"}
TreeType == [d \in TreeDep |->
  CASE d = "k" -> "CONAN" [] d = "g" -> "CHOCO" [] OTHER -> "REMAKEN"]
TreeReleases == [d \in TreeDep |->
  CASE d = "a" -> LibA [] d = "b" -> {NoFolder} \union LibB
    [] d = "c" -> {NoFolder, Lib("c.so" :> ToFile("x"))} [] OTHER -> {NoFolder}]
TreeFiles == (Project :> Lists(<<File(<<"k">>)>>, <<File(<<"a", "g", "i">>), File(<<"a">>)>>))
          @@ ("a" :> Lists(<<File(<<"c">>)>>, <<File(<<"b">>)>>))
          @@ ("c" :> Lists(<<File(<<"a">>)>>, << >>))
          @@ ("b" :> Lists(<< >>, <<Broken>>)) @@ [d \in TreeDep |-> None]

\* A module of b, one of c, and one of a that has the name of the first.
TreeModules == <<[name |-> "m", dep |-> "b", rooted |-> FALSE],
                 [name |-> "n", dep |-> "c", rooted |-> TRUE],
                 [name |-> "m", dep |-> "a", rooted |-> TRUE]>>

Plain == [xpcf |-> FALSE, recurse |-> FALSE, override |-> FALSE, ignoreErrors |-> FALSE]
Recursing == [Plain EXCEPT !.recurse = TRUE]
Xpcf == [Plain EXCEPT !.xpcf = TRUE]
AllCommands == {Plain, Recursing, [Recursing EXCEPT !.override = TRUE],
                [Recursing EXCEPT !.ignoreErrors = TRUE],
                Xpcf, [Xpcf EXCEPT !.override = TRUE], [Xpcf EXCEPT !.ignoreErrors = TRUE]}
IgnoredNames == {{"i"}, {"a", "b"}}

\* The releases are as the proofs ask: links lead to higher ranks, within a family.
LibRank == [n \in Name |-> IF n \in {"a.so.1", "a.so.2"} THEN 1 ELSE 0]
Family == [n \in Name |-> IF n \in {"a.so", "a.so.1", "a.so.2"} THEN "a" ELSE n]
ASSUME ReleasesAsBuilt ==
  LibRank \in Rank /\ Ranked(LibRank) /\ LinksLead /\ Families(Family)
============================================================================
