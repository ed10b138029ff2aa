---------------------------- MODULE MCConfigure ----------------------------
(***************************************************************************)
(* A project for module Configure.                                         *)
(***************************************************************************)
EXTENDS ConfigureProps, TLC

To(d) == [dep |-> d, conds |-> {}]
ToIf(d, c) == [dep |-> d, conds |-> {c}]

\* r, a remaken package, needs the system dependency s and q if D, and q needs r
\* again; v comes from vcpkg.
ProjectDep == {"r", "q", "k", "s", "v"}
ProjectKind == [d \in ProjectDep |->
  CASE d \in {"r", "q"} -> "REMAKEN" [] d = "k" -> "CONAN" [] d = "s" -> "SYSTEM" [] d = "v" -> "VCPKG"]
ProjectChildren == [d \in ProjectDep |->
  CASE d = "r" -> {ToIf("s", "D"), ToIf("q", "D")} [] d = "q" -> {To("r")} [] OTHER -> {}]
ProjectDrafts == {{To("r"), ToIf("k", "C")}, {To("k"), To("v")}}

Plain == [force |-> FALSE, override |-> FALSE, on |-> {}, off |-> {}]
PlainOptions == {Plain, [Plain EXCEPT !.off = {"C"}], [Plain EXCEPT !.on = {"C", "D"}]}
AllOptions == PlainOptions \union
  {[Plain EXCEPT !.override = TRUE], [Plain EXCEPT !.force = TRUE, !.override = TRUE]}
============================================================================
