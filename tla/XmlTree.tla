------------------------------ MODULE XmlTree ------------------------------
(***************************************************************************)
(* The nodes of a tinyxml2 document: memory pools with free lists, the     *)
(* pointers between parents, children and siblings, and the list of nodes  *)
(* that are in no tree yet.  The memory is one record, h; an address is a  *)
(* pool and a number.  One action is one call of the library.              *)
(***************************************************************************)
EXTENDS Integers, Sequences, FiniteSets, SequencesExt, FiniteSetsExt

CONSTANTS
  Pool,       \* the pools of nodes
  Holder,     \* pools of nodes that callers insert nodes in
  Items,      \* ITEMS_PER_BLOCK
  Blocks,     \* bound: blocks of each pool
  doc, null

XmlTreeAssumption ==
  Holder \subseteq Pool /\ Items \in Nat \ {0} /\ Blocks \in [Pool -> Nat]

VARIABLES
  h,         \* the memory of the document
  crashed    \* the process has written through a null pointer

vars == <<h, crashed>>

Address == UNION {{pool} \X (1 .. Items * Blocks[pool]) : pool \in Pool}
Node == Address \union {doc}
PoolOf(n) == n[1]

----------------------------------------------------------------------------
\* Memory pools and the array of unlinked nodes.

AddBlock(m, pool) ==
  [m EXCEPT !.blocks[pool] = @ + 1,
            !.root[pool] = [i \in 1 .. Items |-> <<pool, m.blocks[pool] * Items + i>>]]

Alloc(m, pool) ==
  LET b == IF m.root[pool] = <<>> THEN AddBlock(m, pool) ELSE m
  IN [mem |-> [b EXCEPT !.root[pool] = Tail(@), !.current[pool] = @ + 1, !.untracked[pool] = @ + 1],
      item |-> Head(b.root[pool])]

Free(m, n) == [m EXCEPT !.root[PoolOf(n)] = <<n>> \o @, !.current[PoolOf(n)] = @ - 1]
SetTracked(m, n) == [m EXCEPT !.untracked[PoolOf(n)] = @ - 1]

CreateUnlinkedNode(m, pool) ==
  LET a == Alloc(m, pool) n == a.item
  IN [mem |-> [a.mem EXCEPT !.parent[n] = null, !.prev[n] = null, !.next[n] = null,
                            !.first[n] = null, !.last[n] = null, !.unlinked = Append(@, n)],
      node |-> n]

SwapRemove(s, i) == [j \in 1 .. Len(s) - 1 |-> IF j = i THEN s[Len(s)] ELSE s[j]]
MarkInUse(m, n) ==
  LET at == {i \in DOMAIN m.unlinked : m.unlinked[i] = n}
  IN IF at = {} THEN m ELSE [m EXCEPT !.unlinked = SwapRemove(@, Min(at))]

----------------------------------------------------------------------------
\* Links.

Unlink(m, n) ==
  LET p == m.parent[n]  before == m.prev[n]  after == m.next[n]
  IN [m EXCEPT !.first[p] = IF @ = n THEN after ELSE @,
               !.last[p] = IF @ = n THEN before ELSE @,
               !.next = [x \in Node |-> IF x = n THEN null ELSE IF x = before THEN after ELSE @[x]],
               !.prev = [x \in Node |-> IF x = n THEN null ELSE IF x = after THEN before ELSE @[x]],
               !.parent[n] = null]

\* Mutant: a node that gets its place stays in the list of the others.
PreambleUnmarked(m, n) ==
  IF m.parent[n] # null THEN Unlink(m, n) ELSE SetTracked(m, n)

InsertChildPreamble(m, n) ==
  IF m.parent[n] # null THEN Unlink(m, n) ELSE SetTracked(MarkInUse(m, n), n)

InsertEndChild(m, p, n) ==
  LET r == InsertChildPreamble(m, n)
      end == r.last[p]
  IN IF end # null
     THEN [r EXCEPT !.next = [@ EXCEPT ![end] = n, ![n] = null], !.prev[n] = end,
                    !.last[p] = n, !.parent[n] = p]
     ELSE [r EXCEPT !.first[p] = n, !.last[p] = n, !.prev[n] = null, !.next[n] = null, !.parent[n] = p]

InsertFirstChild(m, p, n) ==
  LET r == InsertChildPreamble(m, n)
      start == r.first[p]
  IN IF start # null
     THEN [r EXCEPT !.prev = [@ EXCEPT ![start] = n, ![n] = null], !.next[n] = start,
                    !.first[p] = n, !.parent[n] = p]
     ELSE [r EXCEPT !.first[p] = n, !.last[p] = n, !.prev[n] = null, !.next[n] = null, !.parent[n] = p]

\* The next child is looked for before the preamble, which may take it away.
NextGone(m, after, n) ==
  after # n /\ m.next[after] # null /\ InsertChildPreamble(m, n).next[after] = null

InsertAfterChild(m, p, after, n) ==
  IF after = n THEN m
  ELSE IF m.next[after] = null THEN InsertEndChild(m, p, n)
  ELSE LET r == InsertChildPreamble(m, n)
           behind == r.next[after]
       IN [r EXCEPT !.prev = [@ EXCEPT ![n] = after, ![behind] = n],
                    !.next = [@ EXCEPT ![n] = behind, ![after] = n],
                    !.parent[n] = p]

\* Mutant: children are unlinked and not deleted.
RECURSIVE DeleteChildrenUnlinking(_, _)
DeleteChildrenUnlinking(m, n) ==
  LET c == m.first[n]
  IN IF c = null THEN m
     ELSE DeleteChildrenUnlinking([Unlink(m, c) EXCEPT !.unlinked = Append(@, c),
                                                       !.untracked[PoolOf(c)] = @ + 1], n)

RECURSIVE DeleteNode(_, _), DeleteChildren(_, _), DeleteUnlinked(_)
DeleteNode(m, n) == Free(DeleteChildren(MarkInUse(m, n), n), n)
DeleteChildren(m, n) ==
  LET c == m.first[n]
  IN IF c = null THEN m ELSE DeleteChildren(DeleteNode(Unlink(m, c), c), n)

\* XMLDocument::DeleteNode, for a node with a place and for one without.
DocumentDelete(m, n) ==
  IF m.parent[n] # null THEN DeleteNode(Unlink(m, n), n) ELSE DeleteNode(SetTracked(m, n), n)

DeleteUnlinked(m) ==
  IF m.unlinked = <<>> THEN m ELSE DeleteUnlinked(DocumentDelete(m, Head(m.unlinked)))

\* The children of p, from its first to its last.
ChildrenOf(m, p) ==
  LET from[n \in Node \union {null}, fuel \in 0 .. Cardinality(Address) + 1] ==
        IF n = null \/ fuel = 0 THEN <<>> ELSE <<n>> \o from[m.next[n], fuel - 1]
  IN from[m.first[p], Cardinality(Address) + 1]

RECURSIVE DeepClone(_, _)
DeepClone(m, n) ==
  FoldLeft(LAMBDA made, c : LET copy == DeepClone(made.mem, c)
                            IN [mem |-> InsertEndChild(copy.mem, made.node, copy.node), node |-> made.node],
           CreateUnlinkedNode(m, PoolOf(n)), ChildrenOf(m, n))

----------------------------------------------------------------------------
\* Calls.

Init ==
  /\ crashed = FALSE
  /\ h = [parent |-> [n \in Node |-> null], prev |-> [n \in Node |-> null], next |-> [n \in Node |-> null],
          first |-> [n \in Node |-> null], last |-> [n \in Node |-> null],
          unlinked |-> <<>>, root |-> [p \in Pool |-> <<>>], blocks |-> [p \in Pool |-> 0],
          current |-> [p \in Pool |-> 0], untracked |-> [p \in Pool |-> 0]]

Live == {n \in Address : n[2] <= h.blocks[PoolOf(n)] * Items /\ n \notin ToSet(h.root[PoolOf(n)])}
Parents == {doc} \union {n \in Live : PoolOf(n) \in Holder}

RECURSIVE Above(_)
Above(n) == {n} \union (IF n = doc \/ h.parent[n] = null THEN {} ELSE Above(h.parent[n]))
Below(n, pool) == Cardinality({x \in Live : PoolOf(x) = pool /\ n \in Above(x)})

\* Room within the bound for k nodes of a pool.
Room(pool, k) == Len(h.root[pool]) + Items * (Blocks[pool] - h.blocks[pool]) >= k

Returns(m) == ~crashed /\ h' = m /\ UNCHANGED crashed

newNode == \E pool \in Pool : Room(pool, 1) /\ Returns(CreateUnlinkedNode(h, pool).mem)
insertEndChild == \E p \in Parents : \E n \in Live \ Above(p) : Returns(InsertEndChild(h, p, n))
insertFirstChild == \E p \in Parents : \E n \in Live \ Above(p) : Returns(InsertFirstChild(h, p, n))
insertAfterChild ==
  \E p \in Parents : \E n \in Live \ Above(p), after \in {c \in Live : h.parent[c] = p} :
    ~NextGone(h, after, n) /\ Returns(InsertAfterChild(h, p, after, n))
insertAfterNull ==
  /\ ~crashed /\ crashed' = TRUE /\ UNCHANGED h
  /\ \E p \in Parents : \E n \in Live \ Above(p), after \in {c \in Live : h.parent[c] = p} : NextGone(h, after, n)
deleteNode == \E n \in Live : Returns(DocumentDelete(h, n))
deleteChildren == \E p \in Parents : h.first[p] # null /\ Returns(DeleteChildren(h, p))
clear == Live # {} /\ Returns(DeleteUnlinked(DeleteChildren(h, doc)))
deepClone ==
  \E n \in Live : (\A pool \in Pool : Room(pool, Below(n, pool))) /\ Returns(DeepClone(h, n).mem)

Next ==
  \/ newNode \/ insertEndChild \/ insertFirstChild \/ insertAfterChild \/ insertAfterNull
  \/ deleteNode \/ deleteChildren \/ clear \/ deepClone

Spec == Init /\ [][Next]_vars

----------------------------------------------------------------------------
\* The siblings of a node are linked in both directions, from the first child
\* of its parent to the last.
Lists ==
  \A p \in Parents : LET c == ChildrenOf(h, p) IN
    /\ IsInjective(c) /\ h.last[p] = (IF c = <<>> THEN null ELSE Last(c))
    /\ \A i \in DOMAIN c : h.parent[c[i]] = p /\ h.prev[c[i]] = (IF i = 1 THEN null ELSE c[i - 1])

\* A node in use is below one parent or in the list of unlinked nodes, once:
\* so that Clear frees it once.
OnePlace ==
  /\ IsInjective(h.unlinked)
  /\ ToSet(h.unlinked) = {n \in Live : h.parent[n] = null}
  /\ \A n \in Live : h.parent[n] # null => n \in ToSet(ChildrenOf(h, h.parent[n]))

\* The counts of the pools, which Clear asserts to be equal.
Counted ==
  \A pool \in Pool :
    /\ IsInjective(h.root[pool])
    /\ h.current[pool] = Cardinality({n \in Live : PoolOf(n) = pool})
    /\ h.untracked[pool] = Len(SelectSeq(h.unlinked, LAMBDA n : PoolOf(n) = pool))
=============================================================================
