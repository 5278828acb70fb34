----------------------------- MODULE MerkleTree -----------------------------
(***************************************************************************)
(* The tree of a package (src/project/src/tree/merkletree.c) as functions  *)
(* of n, its number of inner nodes (nhashes). insert_node numbers the nodes *)
(* as in a heap: 0 .. n - 1 are inner ones, n .. 2n are leaves, and leaf i  *)
(* belongs to chunk i - n.                                                 *)
(***************************************************************************)
EXTENDS Integers, Sequences, FiniteSets

Nodes(n) == 0 .. 2 * n
IsLeaf(n, i) == i >= n
Leaves(n) == n .. 2 * n
LeafOf(n, chunk) == n + chunk

Left(i) == 2 * i + 1

\* Mutant of Right: the second child is the first one.
RightIsLeft(i) == 2 * i + 1

Right(i) == 2 * i + 2

\* Mutant of InOrder: the right subtree is visited before the left one.
Backwards(n, root, wanted) ==
  LET visit[i \in Nodes(n)] ==
        LET here == IF i \in wanted THEN <<i>> ELSE <<>>
        IN IF IsLeaf(n, i) THEN here ELSE visit[Right(i)] \o here \o visit[Left(i)]
  IN visit[root]

\* inorder_search: the nodes below root in the order of the visits, those that
\* the function passed to it takes.
InOrder(n, root, wanted) ==
  LET visit[i \in Nodes(n)] ==
        LET here == IF i \in wanted THEN <<i>> ELSE <<>>
        IN IF IsLeaf(n, i) THEN here ELSE visit[Left(i)] \o here \o visit[Right(i)]
  IN visit[root]

\* inorder_find_node: the first visited node of that value, if there is one.
FindNode(n, value, hash) ==
  LET order == InOrder(n, 0, Nodes(n))
      hits == {k \in DOMAIN order : value[order[k]] = hash}
  IN {order[k] : k \in {k \in hits : \A l \in hits : k <= l}}

\* Mutant of MinHashFind: the root is emitted, and the complete halves too.
MinHashWithHalves(n, done) ==
  LET find[i \in Nodes(n)] ==
        IF IsLeaf(n, i) THEN [complete |-> i \in done, hashes |-> <<>>]
        ELSE LET l == find[Left(i)]
                 r == find[Right(i)]
             IN [complete |-> l.complete /\ r.complete,
                 hashes |-> l.hashes \o r.hashes
                   \o (IF l.complete /\ r.complete /\ i = 0 THEN <<i>> ELSE <<>>)
                   \o (IF l.complete THEN <<Left(i)>> ELSE <<>>)
                   \o (IF r.complete THEN <<Right(i)>> ELSE <<>>)]
  IN find[0].hashes

\* min_hash_find, when the leaves in done have the right hash: a node with one
\* complete child emits that child; only the root emits itself.
MinHashFind(n, done) ==
  LET find[i \in Nodes(n)] ==
        IF IsLeaf(n, i) THEN [complete |-> i \in done, hashes |-> <<>>]
        ELSE LET l == find[Left(i)]
                 r == find[Right(i)]
             IN [complete |-> l.complete /\ r.complete,
                 hashes |-> l.hashes \o r.hashes \o
                   CASE l.complete /\ r.complete /\ i = 0 -> <<i>>
                     [] l.complete /\ ~r.complete -> <<Left(i)>>
                     [] r.complete /\ ~l.complete -> <<Right(i)>>
                     [] OTHER -> <<>>]
  IN find[0].hashes

-----------------------------------------------------------------------------
(* Reference definitions, by the arithmetic of the numbering alone.        *)

Parent(i) == (i - 1) \div 2

\* The node i and the nodes it is below.
Ancestors(n, i) ==
  LET up[j \in Nodes(n)] == IF j = 0 THEN {0} ELSE {j} \cup up[Parent(j)]
  IN up[i]
LeavesBelow(n, k) == {i \in Leaves(n) : k \in Ancestors(n, i)}

\* The nodes that are complete and not below another complete one.
Maximal(n, done) ==
  {k \in Nodes(n) : /\ LeavesBelow(n, k) \subseteq done
                    /\ k = 0 \/ ~ LeavesBelow(n, Parent(k)) \subseteq done}

\* Every leaf has the same depth.
Perfect(n) ==
  \A i, j \in Leaves(n) : Cardinality(Ancestors(n, i)) = Cardinality(Ancestors(n, j))
=============================================================================
