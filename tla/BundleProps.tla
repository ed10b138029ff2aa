---------------------------- MODULE BundleProps ----------------------------
(***************************************************************************)
(* What bundle and bundleXpcf guarantee: properties of module Bundle.      *)
(***************************************************************************)
EXTENDS Bundle

Item ==
  [is : {"call"}, at : Dep \union {Project}, type : FileType, next : Nat \ {0},
   depth : 1..MaxDepth]
  \union [is : {"dependency"}, at : Dep, type : FileType, next : {0}, depth : 1..MaxDepth]
  \union [is : {"module"}, at : Dep, type : FileType, next : DOMAIN Modules, depth : {0}]

\* Every variable stays in its domain.
TypeOK ==
  /\ \A d \in Dep : lib[d] \in Releases[d]
  /\ dest \in Folder
  /\ paths \in {"none", "old", "new"}
  /\ pc \in {"idle", "bundle", "config", "modules", "done"}
  /\ cmd \in Command /\ config \in Config
  /\ agenda \in Seq(Item)
  /\ left \subseteq Name /\ copying \in BOOLEAN
  /\ outcome \in {"none", "ok", "failed", "killed"}
  /\ bundled \subseteq Dep \X Name

(* What is to be bundled *)

LinesOf(o, t) == UNION {Range(file.deps) : file \in Range(Files[o][t])}

\* The calls a command is to make, as a closure: stops(d) packages have none.
Closure(stops) ==
  LET of(c) == {d \in LinesOf(c[1], c[2]) \ (Ignored \union stops) : Type[d] = "REMAKEN"}
      step(cs) == cs \union
        UNION {{<<d, "EXTRA_DEPS">> : d \in of(c)} \union
               {<<d, c[2]>> : d \in IF c[2] = "PACKAGE" THEN of(c) \ Static ELSE {}} : c \in cs}
      start == {<<Project, "EXTRA_DEPS">>, <<Project, "PACKAGE">>}
      at[n \in 0..(2 * Cardinality(Dep))] ==
        IF n = 0 \/ ~cmd.recurse THEN start ELSE step(at[n-1])
  IN at[2 * Cardinality(Dep)]

Required(stops) ==
  {d \in (UNION {LinesOf(c[1], c[2]) : c \in Closure(stops)}) \ Ignored : Type[d] = "REMAKEN"}

Libraries(d) == {n \in Name : lib[d][n] # Absent /\ n \in Suffixed}
HasAll(d) == \A n \in Libraries(d) : Exists(dest, n)
Succeeds == outcome = "ok"

\* A bundle that succeeds has put every library of every package it reaches into
\* the destination, and each leads to a file, whatever earlier bundles, killed
\* half-way or of other releases, left there.
BundleComplete ==
  Succeeds /\ ~cmd.xpcf => \A d \in Required({x \in Dep : lib[x] = NoFolder}) : HasAll(d)

Whole(d) == \A n \in Libraries(d) : <<d, n>> \in bundled

\* A name that no other package has stands in the destination for what this command
\* found in its package: a link is that of the installed release, and with --override
\* what it leads to is too, whatever file or link had the name before.  bundleXpcf goes
\* on after a bundle that failed: then only of a package that was copied whole.
DestinationCurrent ==
  Succeeds => \A b \in bundled :
    (\A c \in bundled : c[2] = b[2] => c = b) =>
      /\ lib[b[1]][b[2]].kind = "link" => dest[b[2]] = lib[b[1]][b[2]]
      /\ cmd.override /\ (cmd.xpcf => Whole(b[1])) =>
           dest[End(dest, b[2])].content = lib[b[1]][End(lib[b[1]], b[2])].content

\* A bundleXpcf that succeeds with a readable configuration has copied every module
\* the file declares, the first of a name, and made the copy's paths new.
XpcfComplete ==
  Succeeds /\ cmd.xpcf /\ config = "good" =>
    /\ paths = "new"
    /\ \A i \in DOMAIN Modules :
         (\A j \in 1..(i-1) : Modules[j].name # Modules[i].name) => HasAll(Modules[i].dep)

----------------------------------------------------------------------------
(* Releases as they are built: what the proofs ask of the library folders. *)

Rank == [Name -> 0..Cardinality(Name)]

\* Links lead to names of a higher rank, so that none leads back.
Rising(f, r) == \A n \in LinksOf(f) : f[n].to \in Name /\ r[n] < r[f[n].to]

\* No link of a release leads back, not through the links of another release either.
Ranked(r) == \A d \in Dep : \A f \in Releases[d] : Rising(f, r)

\* The links among the libraries of a release lead to libraries of it.
LinksLead ==
  \A d \in Dep : \A f \in Releases[d] : \A n \in LinksOf(f) \intersect Suffixed :
    f[n].to \in Suffixed /\ f[f[n].to] # Absent

\* The libraries of a family, a library file and the links that lead to it, belong to one
\* package, whose releases have one file of the family each.
Families(h) ==
  /\ \A d \in Dep : \A f \in Releases[d] :
       /\ \A n \in LinksOf(f) \intersect Suffixed : h[f[n].to] = h[n]
       /\ \A m, n \in FilesOf(f) \intersect Suffixed : h[m] = h[n] => m = n
  /\ \A d, e \in Dep : \A f \in Releases[d], g \in Releases[e] : \A m, n \in Suffixed :
       f[m] # Absent /\ g[n] # Absent /\ h[m] = h[n] => d = e

=============================================================================
