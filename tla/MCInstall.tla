----------------------------- MODULE MCInstall -----------------------------
(***************************************************************************)
(* Small package graphs for module Install.                                *)
(*                                                                         *)
(* In the comments, x -> y (f) is a line for y in file f of x's folder.    *)
(***************************************************************************)
EXTENDS InstallProps, TLC

To(d) == [dep |-> d, conds |-> {}, valid |-> TRUE]
ToIf(d, C) == [dep |-> d, conds |-> C, valid |-> TRUE]
Invalid(d) == [dep |-> d, conds |-> {}, valid |-> FALSE]

NoLists == [f \in FileName |-> << >>]
Pkg(lines) == [NoLists EXCEPT !["packagedependencies"] = lines]

Opt(cache, force, on, off) ==
  [cache |-> cache, force |-> force, invert |-> FALSE, remoteOnly |-> FALSE,
   alternate |-> FALSE, on |-> on, off |-> off]

HeaderOnly == {"pkginfo", ".headers", "interfaces"}

----------------------------------------------------------------------------
(* Chain: app -> a, a -> t (package).  s and t are system packages, as       *)
(* libfoo and libfoo-dev: a line for t that is cut spells s.               *)

ChainProject == {"app"}
ChainDep == {"a", "s", "t"}
ChainOwner == ChainProject \union ChainDep
ChainCond == {"C"}
ChainType == [d \in ChainDep |-> IF d = "a" THEN "REMAKEN" ELSE "SYSTEM"]
ChainMode == [d \in ChainDep |-> "shared"]
ChainArchive ==
  [o \in ChainOwner |->
    CASE o = "app" -> {"packagedependencies"}
      [] o = "a" -> {"lib", "packagedependencies"}
      [] o \in {"s", "t"} -> {}]
ChainLists ==
  [o \in ChainOwner |->
    CASE o = "app" -> Pkg(<<To("a")>>)
      [] o = "a" -> Pkg(<<To("t")>>)
      [] o \in {"s", "t"} -> NoLists]
ChainNoConditions == [o \in ChainOwner |-> {}]
ChainTorn ==
  [u \in ChainDep \X {"primary", "alternate"} |->
    IF u = <<"t", "primary">> THEN {<<"s", "primary">>} ELSE {}]

\* A plain install, and a forced one that neither asks nor fills the cache.
SharedOptions == {Opt(TRUE, FALSE, {}, {}), Opt(FALSE, TRUE, {}, {})}

\* The processes are interchangeable.
ProcSymmetry == Permutations(Proc)

----------------------------------------------------------------------------
(* Tree, the full vocabulary of a single process:                           *)
(*   app -> a, then b if C and D (package); app -> b if D (package, os);     *)
(*   app -> s if D (extra); a -> b, k (package); a -> s if D (extra);            *)
(*   k is a conan package, b is described by .pkginfo as bin only, its        *)
(*   conditions file switches C off for its own lines; b -> k if C (package),*)
(*   and back, b -> a if E (package).                                        *)
(*   ill has an invalid second line; bare has no packagedependencies.        *)

TreeProject == {"app", "ill", "bare"}
TreeDep == {"a", "b", "k", "s"}
TreeOwner == TreeProject \union TreeDep
TreeCond == {"C", "D", "E"}
TreeType == [d \in TreeDep |->
  CASE d \in {"a", "b"} -> "REMAKEN" [] d = "k" -> "CONAN" [] d = "s" -> "SYSTEM"]
TreeMode == [d \in TreeDep |-> IF d = "k" THEN "na" ELSE "shared"]
TreeArchive ==
  [o \in TreeOwner |->
    CASE o = "app" -> {"packagedependencies", "packagedependencies-os", "extra-packages"}
      [] o = "ill" -> {"packagedependencies"}
      [] o = "bare" -> {"extra-packages"}
      [] o = "a" -> {"lib", "packagedependencies", "extra-packages"}
      [] o = "b" -> {"pkginfo", ".bin", "bin", "packagedependencies"}
      [] o \in {"k", "s"} -> {}]
TreeLists ==
  [o \in TreeOwner |->
    CASE o = "app" -> [NoLists EXCEPT
                         !["packagedependencies"] = <<To("a"), ToIf("b", {"C", "D"})>>,
                         !["packagedependencies-os"] = <<ToIf("b", {"D"})>>,
                         !["extra-packages"] = <<ToIf("s", {"D"})>>]
      [] o = "ill" -> Pkg(<<To("a"), Invalid("k")>>)
      [] o = "bare" -> [NoLists EXCEPT !["extra-packages"] = <<To("s")>>]
      [] o = "a" -> [Pkg(<<To("b"), To("k")>>) EXCEPT !["extra-packages"] = <<ToIf("s", {"D"})>>]
      [] o = "b" -> Pkg(<<ToIf("k", {"C"}), ToIf("a", {"E"})>>)
      [] o \in {"k", "s"} -> NoLists]
TreeOn == [o \in TreeOwner |-> {}]
TreeTorn == [u \in TreeDep \X {"primary", "alternate"} |-> {}]
TreeOff == [o \in TreeOwner |-> IF o = "b" THEN {"C"} ELSE {}]

\* Plain; forced with D on and E off; without cache and with E on, D off; alternate repository,
\* searched last or first; inverted without one; remotes only.
TreeOptions ==
  {Opt(TRUE, FALSE, {}, {}), Opt(TRUE, TRUE, {"D"}, {"E"}), Opt(FALSE, FALSE, {"E"}, {"D"}),
   [Opt(TRUE, FALSE, {"C", "D"}, {}) EXCEPT !.alternate = TRUE],
   [Opt(TRUE, FALSE, {"D"}, {}) EXCEPT !.alternate = TRUE, !.invert = TRUE],
   [Opt(TRUE, FALSE, {}, {}) EXCEPT !.invert = TRUE],
   [Opt(TRUE, FALSE, {}, {}) EXCEPT !.remoteOnly = TRUE]}

----------------------------------------------------------------------------
(* Extra: app -> a (package), s if C (extra).                                *)

ExtraProject == {"app"}
ExtraDep == {"a", "s"}
ExtraOwner == ExtraProject \union ExtraDep
ExtraCond == {"C"}
ExtraType == [d \in ExtraDep |-> IF d = "s" THEN "SYSTEM" ELSE "REMAKEN"]
ExtraMode == [d \in ExtraDep |-> "shared"]
ExtraArchive ==
  [o \in ExtraOwner |->
    CASE o = "app" -> {"packagedependencies", "extra-packages"}
      [] o = "a" -> {"lib"}
      [] o = "s" -> {}]
ExtraLists ==
  [o \in ExtraOwner |->
    CASE o = "app" -> [Pkg(<<To("a")>>) EXCEPT !["extra-packages"] = <<ToIf("s", {"C"})>>]
      [] o \in {"a", "s"} -> NoLists]
ExtraNoConditions == [o \in ExtraOwner |-> {}]
ExtraTorn == [u \in ExtraDep \X {"primary", "alternate"} |-> {}]
ExtraOptions == {Opt(TRUE, FALSE, {"C"}, {})}
============================================================================
