------------------------------- MODULE Forest -------------------------------
(***************************************************************************)
(* What the tree of a document promises: nodes in order below their        *)
(* parents, or in no tree; to insert a node moves it with all below it and *)
(* leaves the order of the others; to delete one takes all below it along. *)
(***************************************************************************)
EXTENDS Integers, SequencesExt

CONSTANTS Node, Root

VARIABLES nodes, children

fvars == <<nodes, children>>

Kids(c, n) == ToSet(c[n])
RECURSIVE SubtreeOf(_, _)
SubtreeOf(c, n) == {n} \union UNION {SubtreeOf(c, k) : k \in Kids(c, n)}

FInit == nodes = {} /\ children = [n \in Node \union {Root} |-> <<>>]

\* A new node in no tree.
New == \E n \in Node \ nodes : nodes' = nodes \union {n} /\ UNCHANGED children

\* n becomes a child of p, at any place, wherever it was before.
Place ==
  \E n \in nodes, p \in nodes \union {Root} :
    LET w == [m \in DOMAIN children |-> Remove(children[m], n)]
    IN /\ p \notin SubtreeOf(children, n)
       /\ \E i \in 1 .. Len(w[p]) + 1 : children' = [w EXCEPT ![p] = InsertAt(@, i, n)]
       /\ UNCHANGED nodes

\* The subtrees of ns are deleted.
Prune(ns) ==
  LET gone == UNION {SubtreeOf(children, n) : n \in ns}
  IN /\ nodes' = nodes \ gone
     /\ children' = [m \in DOMAIN children |->
          IF m \in gone THEN <<>> ELSE SelectSeq(children[m], LAMBDA n : n \notin gone)]

Delete == \E n \in nodes : Prune({n})
Empty == \E p \in nodes \union {Root} : Prune(Kids(children, p))
Clear == Prune(nodes)

\* A copy of what is below n, of new nodes, in no tree.
Copy ==
  \E n \in nodes : LET s == SubtreeOf(children, n) IN
    \E f \in [s -> Node \ nodes] :
      /\ \A a, b \in s : f[a] = f[b] => a = b
      /\ nodes' = nodes \union {f[a] : a \in s}
      /\ children' = [m \in DOMAIN children |->
           IF \E a \in s : f[a] = m
           THEN LET a == CHOOSE a \in s : f[a] = m IN [i \in DOMAIN children[a] |-> f[children[a][i]]]
           ELSE children[m]]

FNext == New \/ Place \/ Delete \/ Empty \/ Clear \/ Copy
FSpec == FInit /\ [][FNext]_fvars
=============================================================================
