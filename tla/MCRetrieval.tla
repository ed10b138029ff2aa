---------------------------- MODULE MCRetrieval ----------------------------
(***************************************************************************)
(* Dependency files for module Retrieval, on a linux with apt-get, conan   *)
(* and vcpkg but without brew.                                             *)
(***************************************************************************)
EXTENDS Retrieval

L(n, i, r) == [kind |-> "dependency", name |-> n, identifier |-> i, repository |-> r,
               url |-> "other", mode |-> "missing", variant |-> 0]

\* Lines of two names that other lines make redundant or not; two conan lines of which
\* one states its identifier, and two brew lines with different urls.
SystemLines ==
  {L(1, "system", ""), L(1, "brew", "system"), L(1, "choco", "system"), L(1, "conan", ""),
   L(1, "conan", "conan"), L(1, "conan", "system"),
   L(2, "apt-get", ""), [L(2, "brew", "system") EXCEPT !.url = "github"], [L(2, "brew", "system") EXCEPT !.variant = 1], L(2, "brew", "system"),
   [L(2, "brew", "") EXCEPT !.kind = "comment"], [L(2, "", "") EXCEPT !.kind = "short"]}

\* The kinds of lines of the README, and some that are refused; a line "user@vcpkg" is
\* left out.
KindLines ==
  {L(1, i, r) : i \in {"bcomBuild", "user"}, r \in {"artifactory", "conan"}} \union
  {[L(2, "thirdParties", "") EXCEPT !.url = "github"], L(2, "vcpkg", ""),
   L(1, "vcpkg", "system"), L(1, "user", ""), L(2, "system", "conan"),
   [L(2, "github", "") EXCEPT !.mode = "na"], [L(2, "conan", "") EXCEPT !.mode = "na"],
   [L(2, "path", "") EXCEPT !.mode = "other"], [L(2, "nexus", "") EXCEPT !.url = "none"]}

AllLines == SystemLines \union KindLines
FoundTools == {"CONAN", "VCPKG", "SYSTEM"}
============================================================================
