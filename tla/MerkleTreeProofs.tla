-------------------------- MODULE MerkleTreeProofs --------------------------
(***************************************************************************)
(* Proofs about the tree of a package, for any number n of inner nodes:    *)
(* what its recursive walks return. An induction over the nodes is a proof *)
(* that the set of nodes for which a claim fails has no least or no        *)
(* greatest element. A node is above another one if it is among its        *)
(* Ancestors.                                                              *)
(***************************************************************************)
EXTENDS MerkleTree, SequenceTheorems, FiniteSetTheorems, WellFoundedInduction, TLAPS

\* A set of numbers has a least element.
LEMMA LeastElement ==
  ASSUME NEW T \in SUBSET Nat, T # {}
  PROVE  \E x \in T : \A y \in T : x <= y
<1>1. IsWellFoundedOn(OpToRel(<, Nat), Nat)
  BY NatLessThanWellFounded
<1>2. PICK x \in T : \A y \in T : ~ (<<y, x>> \in OpToRel(<, Nat))
  BY <1>1, WFMin
<1>3. ASSUME NEW y \in T
      PROVE  x <= y
  <2>1. x \in Nat /\ y \in Nat
    OBVIOUS
  <2>2. <<y, x>> \in Nat \X Nat /\ <<y, x>>[1] = y /\ <<y, x>>[2] = x
    BY <2>1
  <2>3. ~ (y < x)
    BY <1>2, <2>2, Zenon DEF OpToRel
  <2> QED  BY <2>1, <2>3
<1> QED  BY <1>3

\* A set of numbers that are bounded has a greatest one.
LEMMA GreatestElement ==
  ASSUME NEW m \in Nat, NEW T \in SUBSET (0 .. m), T # {}
  PROVE  \E x \in T : \A y \in T : y <= x
<1> DEFINE U == {m - x : x \in T}
<1>1. U \in SUBSET Nat /\ U # {}
  <2>1. \A x \in T : x \in 0 .. m /\ m - x \in Nat
    OBVIOUS
  <2> QED  BY <2>1
<1>2. PICK u \in U : \A v \in U : u <= v
  <2> HIDE DEF U
  <2> QED  BY <1>1, LeastElement
<1>3. PICK x \in T : u = m - x
  OBVIOUS
<1>4. ASSUME NEW y \in T
      PROVE  y <= x
  <2>1. m - y \in U
    OBVIOUS
  <2>2. m - x <= m - y
    BY <1>2, <1>3, <2>1
  <2>3. x \in 0 .. m /\ y \in 0 .. m
    OBVIOUS
  <2> QED  BY <2>2, <2>3
<1> QED  BY <1>4

-----------------------------------------------------------------------------
(* The numbering.                                                          *)

LEMMA Numbering ==
  ASSUME NEW n \in Nat, NEW i \in Nodes(n)
  PROVE  /\ i \in Nat /\ 0 \in Nodes(n)
         /\ i < n => /\ Left(i) \in Nodes(n) /\ Right(i) \in Nodes(n)
                     /\ i < Left(i) /\ Left(i) < Right(i)
                     /\ Parent(Left(i)) = i /\ Parent(Right(i)) = i
         /\ i # 0 => /\ Parent(i) \in Nodes(n) /\ Parent(i) < n /\ Parent(i) < i
                     /\ i = Left(Parent(i)) \/ i = Right(Parent(i))
BY DEF Nodes, Left, Right, Parent

UpFrom(f, j) == IF j = 0 THEN {0} ELSE {j} \cup f[Parent(j)]
Up(n) == CHOOSE f : f = [j \in Nodes(n) |-> UpFrom(f, j)]

\* The recursive function that Ancestors is made from exists.
LEMMA UpExists == ASSUME NEW n \in Nat PROVE \E f : f = [j \in Nodes(n) |-> UpFrom(f, j)]
<1> DEFINE Def(k) == \E f : f = [j \in 0 .. k |-> UpFrom(f, j)]
           Bad == {k \in Nat : ~Def(k)}
<1>1. Bad = {}
  <2> SUFFICES ASSUME Bad # {} PROVE FALSE
    OBVIOUS
  <2>1. PICK k \in Bad : \A j \in Bad : k <= j
    <3>1. Bad \in SUBSET Nat
      <4> HIDE DEF Def
      <4> QED  OBVIOUS
    <3> HIDE DEF Bad
    <3> QED  BY <3>1, LeastElement
  <2>2. Def(0)
    <3> DEFINE f == [j \in 0 .. 0 |-> {0}]
    <3>1. f = [j \in 0 .. 0 |-> UpFrom(f, j)]
      BY DEF UpFrom
    <3> HIDE DEF f
    <3> QED  BY <3>1
  <2>3. k \in Nat /\ k # 0 /\ ~Def(k)
    <3> HIDE DEF Def
    <3> QED  BY <2>2
  <2>4. Def(k - 1)
    <3> HIDE DEF Def
    <3> SUFFICES ASSUME ~Def(k - 1) PROVE FALSE
      OBVIOUS
    <3>1. k - 1 \in Bad
      BY <2>3
    <3> HIDE DEF Bad
    <3> QED  BY <2>1, <2>3, <3>1
  <2>5. PICK f : f = [j \in 0 .. k - 1 |-> UpFrom(f, j)]
    BY <2>4
  <2> DEFINE g == [j \in 0 .. k |-> UpFrom(f, j)]
  <2>6. ASSUME NEW j \in 0 .. k
        PROVE  UpFrom(f, j) = UpFrom(g, j)
    <3>1. CASE j = 0
      BY <3>1 DEF UpFrom
    <3>2. CASE j # 0
      <4>1. Parent(j) \in 0 .. k - 1 /\ Parent(j) \in 0 .. k
        BY <2>3, <3>2 DEF Parent
      <4>2. g[Parent(j)] = UpFrom(f, Parent(j))
        BY <4>1
      <4>3. f[Parent(j)] = UpFrom(f, Parent(j))
        BY <2>5, <4>1
      <4> HIDE DEF g
      <4> QED  BY <3>2, <4>2, <4>3 DEF UpFrom
    <3> QED  BY <3>1, <3>2
  <2>7. g = [j \in 0 .. k |-> UpFrom(g, j)]
    BY <2>6, Zenon
  <2>8. Def(k)
    <3> HIDE DEF g
    <3> QED  BY <2>7
  <2> HIDE DEF Def
  <2> QED  BY <2>3, <2>8
<1>2. Def(2 * n)
  <2> HIDE DEF Def
  <2>1. 2 * n \in Nat
    OBVIOUS
  <2> QED  BY <1>1, <2>1
<1> QED  BY <1>2 DEF Nodes

LEMMA AncestorsOf ==
  ASSUME NEW n \in Nat, NEW j \in Nodes(n)
  PROVE  Ancestors(n, j) = IF j = 0 THEN {0} ELSE {j} \cup Ancestors(n, Parent(j))
<1>1. Up(n) = [i \in Nodes(n) |-> UpFrom(Up(n), i)]
  BY UpExists, Zenon DEF Up
<1>2. \A i \in Nodes(n) : Ancestors(n, i) = Up(n)[i]
  BY Zenon DEF Ancestors, Up, UpFrom
<1>3. Up(n)[j] = UpFrom(Up(n), j)
  BY <1>1, Zenon
<1>4. CASE j = 0
  BY <1>2, <1>3, <1>4, Zenon DEF UpFrom
<1>5. CASE j # 0
  <2>1. Parent(j) \in Nodes(n)
    BY <1>5, Numbering
  <2> QED  BY <1>2, <1>3, <1>5, <2>1, Zenon DEF UpFrom
<1> QED  BY <1>4, <1>5

LEMMA AncestorBounds ==
  ASSUME NEW n \in Nat, NEW j \in Nodes(n)
  PROVE  Ancestors(n, j) \subseteq 0 .. j /\ j \in Ancestors(n, j) /\ 0 \in Ancestors(n, j)
<1> DEFINE Holds(i) == Ancestors(n, i) \subseteq 0 .. i /\ i \in Ancestors(n, i) /\ 0 \in Ancestors(n, i)
           Bad == {i \in Nodes(n) : ~Holds(i)}
<1> SUFFICES ASSUME Bad # {} PROVE FALSE
  OBVIOUS
<1>1. PICK i \in Bad : \A k \in Bad : i <= k
  <2>1. Bad \in SUBSET Nat
    BY Numbering
  <2> HIDE DEF Bad
  <2> QED  BY <2>1, LeastElement
<1>2. i \in Nodes(n) /\ i \in Nat /\ ~Holds(i)
  BY Numbering
<1>3. CASE i = 0
  <2>1. Ancestors(n, 0) = {0}
    BY <1>2, <1>3, AncestorsOf
  <2> QED  BY <1>2, <1>3, <2>1
<1>4. CASE i # 0
  <2>1. Parent(i) \in Nodes(n) /\ Parent(i) < i /\ Parent(i) \in Nat
    BY <1>2, <1>4, Numbering
  <2>2. Holds(Parent(i))
    <3> SUFFICES ASSUME ~Holds(Parent(i)) PROVE FALSE
      OBVIOUS
    <3>1. Parent(i) \in Bad
      BY <2>1
    <3> HIDE DEF Bad, Holds
    <3> QED  BY <1>1, <1>2, <2>1, <3>1
  <2>3. Ancestors(n, i) = {i} \cup Ancestors(n, Parent(i))
    BY <1>2, <1>4, AncestorsOf
  <2>4. 0 .. Parent(i) \subseteq 0 .. i
    BY <1>2, <2>1
  <2> QED  BY <1>2, <2>2, <2>3, <2>4
<1> QED  BY <1>3, <1>4

\* The nodes above a node are closed under Parent.
LEMMA ParentIsAbove ==
  ASSUME NEW n \in Nat, NEW j \in Nodes(n), NEW k \in Ancestors(n, j), k # 0
  PROVE  Parent(k) \in Ancestors(n, j)
<1> DEFINE Bad == {i \in Nodes(n) : k \in Ancestors(n, i) /\ Parent(k) \notin Ancestors(n, i)}
<1> SUFFICES ASSUME Bad # {} PROVE FALSE
  OBVIOUS
<1>1. PICK i \in Bad : \A l \in Bad : i <= l
  <2>1. Bad \in SUBSET Nat
    BY Numbering
  <2> HIDE DEF Bad
  <2> QED  BY <2>1, LeastElement
<1>2. i \in Nodes(n) /\ i \in Nat /\ k \in Ancestors(n, i) /\ Parent(k) \notin Ancestors(n, i)
  BY Numbering
<1>3. i # 0
  BY <1>2, AncestorsOf
<1>4. /\ Ancestors(n, i) = {i} \cup Ancestors(n, Parent(i))
      /\ Parent(i) \in Nodes(n) /\ Parent(i) < i /\ Parent(i) \in Nat
      /\ Parent(i) \in Ancestors(n, Parent(i))
  BY <1>2, <1>3, AncestorsOf, Numbering, AncestorBounds
<1>5. k # i /\ k \in Ancestors(n, Parent(i)) /\ Parent(k) \notin Ancestors(n, Parent(i))
  BY <1>2, <1>4
<1>6. Parent(i) \in Bad
  BY <1>4, <1>5
<1> HIDE DEF Bad
<1> QED  BY <1>1, <1>2, <1>4, <1>6

\* A node that is above another one has a child above it, and only one.
LEMMA ChildIsAbove ==
  ASSUME NEW n \in Nat, NEW j \in Nodes(n), NEW k \in Ancestors(n, j), k # j
  PROVE  k < n /\ (Left(k) \in Ancestors(n, j) <=> Right(k) \notin Ancestors(n, j))
<1> DEFINE One(i) == k < n /\ (Left(k) \in Ancestors(n, i) <=> Right(k) \notin Ancestors(n, i))
           Bad == {i \in Nodes(n) : k \in Ancestors(n, i) /\ k # i /\ ~One(i)}
<1> SUFFICES ASSUME Bad # {} PROVE FALSE
  OBVIOUS
<1>1. PICK i \in Bad : \A l \in Bad : i <= l
  <2>1. Bad \in SUBSET Nat
    BY Numbering
  <2> HIDE DEF Bad
  <2> QED  BY <2>1, LeastElement
<1>2. i \in Nodes(n) /\ i \in Nat /\ k \in Ancestors(n, i) /\ k # i /\ ~One(i)
  BY Numbering
<1>3. i # 0
  BY <1>2, AncestorsOf
<1>4. /\ Ancestors(n, i) = {i} \cup Ancestors(n, Parent(i))
      /\ Parent(i) \in Nodes(n) /\ Parent(i) < i /\ Parent(i) \in Nat /\ Parent(i) < n
      /\ i = Left(Parent(i)) \/ i = Right(Parent(i))
      /\ Ancestors(n, Parent(i)) \subseteq 0 .. Parent(i)
  BY <1>2, <1>3, AncestorsOf, Numbering, AncestorBounds
<1>5. k \in Ancestors(n, Parent(i)) /\ k \in 0 .. Parent(i)
  BY <1>2, <1>4
<1>6. Parent(i) < Left(Parent(i)) /\ Left(Parent(i)) < Right(Parent(i))
      /\ Left(Parent(i)) \in Nat /\ Right(Parent(i)) \in Nat
  BY <1>4, Numbering
<1>7. CASE k = Parent(i)
  <2>1. Left(k) \notin Ancestors(n, Parent(i)) /\ Right(k) \notin Ancestors(n, Parent(i))
    BY <1>4, <1>6, <1>7
  <2> QED  BY <1>2, <1>4, <1>6, <1>7, <2>1
<1>8. CASE k # Parent(i)
  <2>1. One(Parent(i))
    <3> SUFFICES ASSUME ~One(Parent(i)) PROVE FALSE
      OBVIOUS
    <3>1. Parent(i) \in Bad
      BY <1>4, <1>5, <1>8
    <3> HIDE DEF Bad, One
    <3> QED  BY <1>1, <1>2, <1>4, <3>1
  <2>2. Left(k) # i /\ Right(k) # i
    <3>1. k \in Nodes(n) /\ k < n
      BY <1>4, <1>5 DEF Nodes
    <3>2. Parent(Left(k)) = k /\ Parent(Right(k)) = k
      BY <3>1, Numbering
    <3> QED  BY <1>8, <3>2
  <2> QED  BY <1>2, <1>4, <2>1, <2>2
<1> QED  BY <1>7, <1>8

\* A node and the nodes below it.
Below(n, i) == {j \in Nodes(n) : i \in Ancestors(n, j)}

LEMMA BelowOf ==
  ASSUME NEW n \in Nat, NEW i \in Nodes(n)
  PROVE  /\ Below(n, i) \subseteq Nodes(n) /\ i \in Below(n, i)
         /\ \A j \in Below(n, i) : i <= j
         /\ i >= n => Below(n, i) = {i}
         /\ i < n => /\ Below(n, i) = {i} \cup Below(n, Left(i)) \cup Below(n, Right(i))
                     /\ Below(n, Left(i)) \cap Below(n, Right(i)) = {}
                     /\ i \notin Below(n, Left(i)) /\ i \notin Below(n, Right(i))
<1>1. \A j \in Nodes(n) : Ancestors(n, j) \subseteq 0 .. j /\ j \in Ancestors(n, j) /\ j \in Nat
  BY AncestorBounds, Numbering
<1>2. \A j \in Below(n, i) : j # i => i < n
  BY ChildIsAbove DEF Below
<1>3. ASSUME i < n
      PROVE  /\ Below(n, i) = {i} \cup Below(n, Left(i)) \cup Below(n, Right(i))
             /\ Below(n, Left(i)) \cap Below(n, Right(i)) = {}
             /\ i \notin Below(n, Left(i)) /\ i \notin Below(n, Right(i))
  <2>1. /\ Parent(Left(i)) = i /\ Parent(Right(i)) = i
        /\ i < Left(i) /\ Left(i) < Right(i) /\ i \in Nat /\ Left(i) \in Nat /\ Right(i) \in Nat
    BY <1>3, Numbering
  <2>2. \A j \in Nodes(n) : Left(i) \in Ancestors(n, j) \/ Right(i) \in Ancestors(n, j)
                              => i \in Ancestors(n, j)
    BY <2>1, ParentIsAbove
  <2>3. \A j \in Nodes(n) : i \in Ancestors(n, j) /\ i # j =>
          (Left(i) \in Ancestors(n, j) <=> Right(i) \notin Ancestors(n, j))
    BY ChildIsAbove
  <2>4. Left(i) \notin Ancestors(n, i) /\ Right(i) \notin Ancestors(n, i)
    BY <1>1, <2>1
  <2> QED  BY <1>1, <2>2, <2>3, <2>4 DEF Below
<1> QED  BY <1>1, <1>2, <1>3 DEF Below

LEMMA AllBelowRoot == ASSUME NEW n \in Nat PROVE Below(n, 0) = Nodes(n)
BY AncestorBounds DEF Below

-----------------------------------------------------------------------------
(* Sequences without repetitions.                                          *)

Elems(s) == {s[k] : k \in DOMAIN s}
NoRepeats(s) == \A j, k \in DOMAIN s : s[j] = s[k] => j = k

LEMMA Concatenated ==
  ASSUME NEW S, NEW s \in Seq(S), NEW t \in Seq(S)
  PROVE  /\ s \o t \in Seq(S)
         /\ Elems(s \o t) = Elems(s) \cup Elems(t)
         /\ NoRepeats(s) /\ NoRepeats(t) /\ Elems(s) \cap Elems(t) = {} => NoRepeats(s \o t)
<1> DEFINE a == Len(s)
           b == Len(t)
           u == s \o t
<1>1. /\ u \in Seq(S) /\ Len(u) = a + b /\ a \in Nat /\ b \in Nat
      /\ DOMAIN u = 1 .. a + b /\ DOMAIN s = 1 .. a /\ DOMAIN t = 1 .. b
  BY ConcatProperties, LenProperties
<1>2. \A k \in 1 .. a + b : u[k] = IF k <= a THEN s[k] ELSE t[k - a]
  BY ConcatProperties
<1>3. \A k \in 1 .. a : k \in 1 .. a + b /\ u[k] = s[k]
  BY <1>1, <1>2
<1>4. \A k \in 1 .. b : a + k \in 1 .. a + b /\ u[a + k] = t[k]
  <2> TAKE k \in 1 .. b
  <2>1. a + k \in 1 .. a + b /\ ~(a + k <= a) /\ (a + k) - a = k
    BY <1>1
  <2> QED  BY <1>2, <2>1
<1>5. \A k \in 1 .. a + b : k \in 1 .. a \/ k - a \in 1 .. b
  BY <1>1
<1> HIDE DEF u, a, b
<1>6. Elems(u) = Elems(s) \cup Elems(t)
  <2>1. Elems(u) \subseteq Elems(s) \cup Elems(t)
    <3> SUFFICES ASSUME NEW k \in 1 .. a + b PROVE u[k] \in Elems(s) \cup Elems(t)
      BY <1>1 DEF Elems
    <3>1. CASE k <= a
      <4>1. k \in 1 .. a /\ u[k] = s[k]
        BY <1>1, <1>2, <3>1
      <4> QED  BY <1>1, <4>1 DEF Elems
    <3>2. CASE ~(k <= a)
      <4>1. k - a \in 1 .. b /\ u[k] = t[k - a]
        BY <1>1, <1>2, <3>2
      <4> QED  BY <1>1, <4>1 DEF Elems
    <3> QED  BY <3>1, <3>2
  <2>2. Elems(s) \subseteq Elems(u) /\ Elems(t) \subseteq Elems(u)
    BY <1>1, <1>3, <1>4 DEF Elems
  <2> QED  BY <2>1, <2>2
<1>7. ASSUME NoRepeats(s), NoRepeats(t), Elems(s) \cap Elems(t) = {}
      PROVE  NoRepeats(u)
  <2> SUFFICES ASSUME NEW j \in 1 .. a + b, NEW k \in 1 .. a + b, u[j] = u[k], j <= k
               PROVE  j = k
    BY <1>1 DEF NoRepeats
  <2>1. CASE k <= a
    BY <1>1, <1>2, <1>7, <2>1 DEF NoRepeats
  <2>2. CASE j > a
    <3>1. u[j] = t[j - a] /\ u[k] = t[k - a] /\ j - a \in 1 .. b /\ k - a \in 1 .. b
      BY <1>1, <1>2, <2>2
    <3>2. j - a = k - a
      BY <1>1, <1>7, <3>1 DEF NoRepeats
    <3> QED  BY <1>1, <3>2
  <2>3. CASE j <= a /\ k > a
    <3>1. u[j] = s[j] /\ u[k] = t[k - a] /\ j \in 1 .. a /\ k - a \in 1 .. b
      BY <1>1, <1>2, <2>3
    <3>2. s[j] \in Elems(s) /\ t[k - a] \in Elems(t)
      BY <1>1, <3>1 DEF Elems
    <3> QED  BY <1>7, <3>1, <3>2
  <2> QED  BY <1>1, <2>1, <2>2, <2>3
<1> QED  BY <1>1, <1>6, <1>7 DEF u

\* Such a sequence is as long as the set of its elements is large.
LEMMA LengthIsCardinality ==
  ASSUME NEW S, NEW s \in Seq(S), NoRepeats(s)
  PROVE  IsFiniteSet(Elems(s)) /\ Cardinality(Elems(s)) = Len(s)
<1>1. Len(s) \in Nat /\ DOMAIN s = 1 .. Len(s) /\ s \in [1 .. Len(s) -> S]
  BY LenProperties
<1>2. s \in [1 .. Len(s) -> Elems(s)]
  BY <1>1 DEF Elems
<1>3. s \in Bijection(1 .. Len(s), Elems(s))
  <2>1. s \in Injection(1 .. Len(s), Elems(s))
    <3>1. \A j, k \in 1 .. Len(s) : s[j] = s[k] => j = k
      BY <1>1 DEF NoRepeats
    <3> QED  BY <1>1, <1>2, <3>1, Zenon DEF Injection, IsInjective
  <2>2. s \in Surjection(1 .. Len(s), Elems(s))
    BY <1>1, <1>2 DEF Surjection, Elems
  <2> QED  BY <2>1, <2>2 DEF Bijection
<1>4. ExistsBijection(1 .. Len(s), Elems(s))
  BY <1>3 DEF ExistsBijection
<1>5. IsFiniteSet(1 .. Len(s)) /\ Cardinality(1 .. Len(s)) = Len(s)
  BY <1>1, FS_Interval
<1> QED  BY <1>4, <1>5, FS_Bijection

-----------------------------------------------------------------------------
(* The walk in order.                                                      *)

Here(wanted, i) == IF i \in wanted THEN <<i>> ELSE <<>>
VisitFrom(n, wanted, f, i) ==
  IF IsLeaf(n, i) THEN Here(wanted, i) ELSE f[Left(i)] \o Here(wanted, i) \o f[Right(i)]
Visit(n, wanted) == CHOOSE f : f = [i \in Nodes(n) |-> VisitFrom(n, wanted, f, i)]

\* The recursive function that InOrder is made from exists.
LEMMA VisitExists ==
  ASSUME NEW n \in Nat, NEW wanted
  PROVE  \E f : f = [i \in Nodes(n) |-> VisitFrom(n, wanted, f, i)]
<1> DEFINE Def(k) == \E f : f = [i \in k .. 2 * n |-> VisitFrom(n, wanted, f, i)]
           Bad == {k \in 0 .. 2 * n : ~Def(k)}
<1>1. Bad = {}
  <2> SUFFICES ASSUME Bad # {} PROVE FALSE
    OBVIOUS
  <2>1. PICK k \in Bad : \A j \in Bad : j <= k
    <3>1. Bad \in SUBSET (0 .. 2 * n) /\ 2 * n \in Nat
      <4> HIDE DEF Def
      <4> QED  OBVIOUS
    <3> HIDE DEF Bad
    <3> QED  BY <3>1, GreatestElement
  <2>2. k \in 0 .. 2 * n /\ ~Def(k)
    <3> HIDE DEF Def
    <3> QED  OBVIOUS
  <2>3. Def(k + 1)
    <3>1. CASE k + 1 \in 0 .. 2 * n
      <4> HIDE DEF Def
      <4> SUFFICES ASSUME ~Def(k + 1) PROVE FALSE
        OBVIOUS
      <4>1. k + 1 \in Bad
        BY <3>1
      <4> HIDE DEF Bad
      <4> QED  BY <2>1, <2>2, <4>1
    <3>2. CASE ~(k + 1 \in 0 .. 2 * n)
      <4> DEFINE f == [i \in k + 1 .. 2 * n |-> <<>>]
      <4>1. k + 1 .. 2 * n = {}
        <5> HIDE DEF Def
        <5> QED  BY <2>2, <3>2
      <4>2. f = [i \in k + 1 .. 2 * n |-> VisitFrom(n, wanted, f, i)]
        BY <4>1, Zenon
      <4> HIDE DEF f
      <4> QED  BY <4>2
    <3> QED  BY <3>1, <3>2
  <2>4. PICK f : f = [i \in k + 1 .. 2 * n |-> VisitFrom(n, wanted, f, i)]
    BY <2>3
  <2> DEFINE g == [i \in k .. 2 * n |-> VisitFrom(n, wanted, f, i)]
  <2>5. ASSUME NEW i \in k .. 2 * n
        PROVE  VisitFrom(n, wanted, f, i) = VisitFrom(n, wanted, g, i)
    <3>1. CASE IsLeaf(n, i)
      BY <3>1, Zenon DEF VisitFrom
    <3>2. CASE ~IsLeaf(n, i)
      <4>1. /\ Left(i) \in k + 1 .. 2 * n /\ Right(i) \in k + 1 .. 2 * n
            /\ Left(i) \in k .. 2 * n /\ Right(i) \in k .. 2 * n
        <5> HIDE DEF Def, Bad, g
        <5> QED  BY <2>2, <3>2 DEF Left, Right, IsLeaf
      <4>2. \A j \in k + 1 .. 2 * n : f[j] = VisitFrom(n, wanted, f, j)
        BY <2>4, Zenon
      <4>3. \A j \in k .. 2 * n : g[j] = VisitFrom(n, wanted, f, j)
        BY Zenon
      <4> HIDE DEF g
      <4> QED  BY <3>2, <4>1, <4>2, <4>3, Zenon DEF VisitFrom
    <3> QED  BY <3>1, <3>2, Zenon
  <2>6. g = [i \in k .. 2 * n |-> VisitFrom(n, wanted, g, i)]
    BY <2>5, Zenon
  <2>7. Def(k)
    <3> HIDE DEF g
    <3> QED  BY <2>6
  <2> HIDE DEF Def
  <2> QED  BY <2>2, <2>7
<1>2. Def(0)
  <2> HIDE DEF Def
  <2>1. 0 \in 0 .. 2 * n
    OBVIOUS
  <2> QED  BY <1>1, <2>1
<1> QED  BY <1>2 DEF Nodes

LEMMA InOrderOf ==
  ASSUME NEW n \in Nat, NEW wanted, NEW i \in Nodes(n)
  PROVE  InOrder(n, i, wanted) =
           IF IsLeaf(n, i) THEN Here(wanted, i)
           ELSE InOrder(n, Left(i), wanted) \o Here(wanted, i) \o InOrder(n, Right(i), wanted)
<1> DEFINE v == Visit(n, wanted)
<1>1. v = [j \in Nodes(n) |-> VisitFrom(n, wanted, v, j)]
  BY VisitExists, Zenon DEF Visit
<1>2. \A j \in Nodes(n) : InOrder(n, j, wanted) = v[j]
  BY Zenon DEF InOrder, Visit, VisitFrom, Here
<1> HIDE DEF v
<1>3. v[i] = VisitFrom(n, wanted, v, i)
  BY <1>1, Zenon
<1>4. ~IsLeaf(n, i) => Left(i) \in Nodes(n) /\ Right(i) \in Nodes(n)
  BY Numbering DEF IsLeaf
<1> QED  BY <1>2, <1>3, <1>4, Zenon DEF VisitFrom

\* inorder_search comes to each node below the one it starts from, and to each
\* only once: the hashes a query reports are those of the wanted nodes.
THEOREM WalkVisitsEachOnce ==
  ASSUME NEW n \in Nat, NEW wanted, NEW i \in Nodes(n)
  PROVE  /\ InOrder(n, i, wanted) \in Seq(Nodes(n))
         /\ Elems(InOrder(n, i, wanted)) = Below(n, i) \cap wanted
         /\ NoRepeats(InOrder(n, i, wanted))
<1> DEFINE Holds(j) == /\ InOrder(n, j, wanted) \in Seq(Nodes(n))
                       /\ Elems(InOrder(n, j, wanted)) = Below(n, j) \cap wanted
                       /\ NoRepeats(InOrder(n, j, wanted))
           Bad == {j \in Nodes(n) : ~Holds(j)}
<1> SUFFICES ASSUME Bad # {} PROVE FALSE
  BY Zenon
<1>1. PICK j \in Bad : \A k \in Bad : k <= j
  <2>1. Bad \in SUBSET (0 .. 2 * n) /\ 2 * n \in Nat
    <3> HIDE DEF Holds
    <3> QED  BY DEF Nodes
  <2> HIDE DEF Bad
  <2> QED  BY <2>1, GreatestElement
<1>2. j \in Nodes(n) /\ j \in Nat /\ ~Holds(j)
  <2> HIDE DEF Holds
  <2> QED  BY Numbering
<1>3. \A k \in Nodes(n) : k > j => Holds(k)
  <2> HIDE DEF Holds
  <2> TAKE k \in Nodes(n)
  <2>1. k \in Nat
    BY Numbering
  <2> SUFFICES ASSUME k > j, ~Holds(k) PROVE FALSE
    OBVIOUS
  <2>2. k \in Bad
    OBVIOUS
  <2> HIDE DEF Bad
  <2> QED  BY <1>1, <1>2, <2>1, <2>2
<1> DEFINE h == Here(wanted, j)
<1>4. h \in Seq(Nodes(n)) /\ Elems(h) = {j} \cap wanted /\ NoRepeats(h)
  <2>1. CASE j \in wanted
    <3>1. h = <<j>>
      BY <2>1 DEF Here
    <3> QED  BY <1>2, <2>1, <3>1 DEF Elems, NoRepeats
  <2>2. CASE j \notin wanted
    <3>1. h = <<>>
      BY <2>2 DEF Here
    <3> QED  BY <2>2, <3>1 DEF Elems, NoRepeats
  <2> QED  BY <2>1, <2>2
<1>5. CASE IsLeaf(n, j)
  <2>1. InOrder(n, j, wanted) = h /\ Below(n, j) = {j}
    BY <1>2, <1>5, InOrderOf, BelowOf DEF IsLeaf
  <2> HIDE DEF h
  <2> QED  BY <1>2, <1>4, <2>1
<1>6. CASE ~IsLeaf(n, j)
  <2> DEFINE l == InOrder(n, Left(j), wanted)
             r == InOrder(n, Right(j), wanted)
  <2>1. /\ Left(j) \in Nodes(n) /\ Right(j) \in Nodes(n) /\ j < Left(j) /\ j < Right(j)
        /\ InOrder(n, j, wanted) = l \o h \o r
        /\ Below(n, j) = {j} \cup Below(n, Left(j)) \cup Below(n, Right(j))
        /\ Below(n, Left(j)) \cap Below(n, Right(j)) = {}
        /\ j \notin Below(n, Left(j)) /\ j \notin Below(n, Right(j))
    <3>1. j < n
      BY <1>2, <1>6 DEF IsLeaf, Nodes
    <3>2. /\ Left(j) \in Nodes(n) /\ Right(j) \in Nodes(n) /\ j < Left(j) /\ Left(j) < Right(j)
          /\ Left(j) \in Nat /\ Right(j) \in Nat
      BY <1>2, <3>1, Numbering
    <3>3. j < Right(j)
      BY <1>2, <3>2
    <3>4. InOrder(n, j, wanted) = l \o h \o r
      BY <1>2, <1>6, InOrderOf, Zenon
    <3> HIDE DEF l, r, h
    <3> QED  BY <1>2, <3>1, <3>2, <3>3, <3>4, BelowOf, Zenon
  <2>2. /\ l \in Seq(Nodes(n)) /\ Elems(l) = Below(n, Left(j)) \cap wanted /\ NoRepeats(l)
        /\ r \in Seq(Nodes(n)) /\ Elems(r) = Below(n, Right(j)) \cap wanted /\ NoRepeats(r)
    <3>1. Left(j) > j /\ Right(j) > j
      BY <2>1
    <3> QED  BY <1>3, <2>1, <3>1
  <2> HIDE DEF Holds, Bad, l, r, h
  <2>3. /\ l \o h \in Seq(Nodes(n)) /\ Elems(l \o h) = Elems(l) \cup Elems(h)
        /\ NoRepeats(l \o h)
    <3>1. Elems(l) \cap Elems(h) = {}
      BY <1>4, <2>1, <2>2
    <3> QED  BY <1>4, <2>2, <3>1, Concatenated
  <2>4. /\ (l \o h) \o r \in Seq(Nodes(n))
        /\ Elems((l \o h) \o r) = Elems(l \o h) \cup Elems(r)
        /\ NoRepeats((l \o h) \o r)
    <3>1. Elems(l \o h) \cap Elems(r) = {}
      BY <1>4, <2>1, <2>2, <2>3
    <3> DEFINE lh == l \o h
    <3>2. lh \in Seq(Nodes(n)) /\ NoRepeats(lh) /\ Elems(lh) \cap Elems(r) = {}
      BY <2>3, <3>1
    <3> HIDE DEF lh
    <3>3. /\ lh \o r \in Seq(Nodes(n)) /\ Elems(lh \o r) = Elems(lh) \cup Elems(r)
          /\ NoRepeats(lh \o r)
      BY <2>2, <3>2, Concatenated
    <3> QED  BY <3>3 DEF lh
  <2>5. Elems((l \o h) \o r) = Below(n, j) \cap wanted
    BY <1>4, <2>1, <2>2, <2>3, <2>4
  <2>6. Holds(j)
    BY <2>1, <2>4, <2>5 DEF Holds
  <2> QED  BY <1>2, <2>6
<1> QED  BY <1>5, <1>6

-----------------------------------------------------------------------------
(* The minimal hashes.                                                     *)

Emitted(i, l, r) ==
  CASE l /\ r /\ i = 0 -> <<i>>
    [] l /\ ~r -> <<Left(i)>>
    [] r /\ ~l -> <<Right(i)>>
    [] OTHER -> <<>>
FindFrom(n, done, f, i) ==
  IF IsLeaf(n, i) THEN [complete |-> i \in done, hashes |-> <<>>]
  ELSE [complete |-> f[Left(i)].complete /\ f[Right(i)].complete,
        hashes |-> f[Left(i)].hashes \o f[Right(i)].hashes \o
                     Emitted(i, f[Left(i)].complete, f[Right(i)].complete)]
Find(n, done) == CHOOSE f : f = [i \in Nodes(n) |-> FindFrom(n, done, f, i)]

\* The recursive function that MinHashFind is made from exists.
LEMMA FindExists ==
  ASSUME NEW n \in Nat, NEW done
  PROVE  \E f : f = [i \in Nodes(n) |-> FindFrom(n, done, f, i)]
<1> DEFINE Def(k) == \E f : f = [i \in k .. 2 * n |-> FindFrom(n, done, f, i)]
           Bad == {k \in 0 .. 2 * n : ~Def(k)}
<1>1. Bad = {}
  <2> SUFFICES ASSUME Bad # {} PROVE FALSE
    OBVIOUS
  <2>1. PICK k \in Bad : \A j \in Bad : j <= k
    <3>1. Bad \in SUBSET (0 .. 2 * n) /\ 2 * n \in Nat
      <4> HIDE DEF Def
      <4> QED  OBVIOUS
    <3> HIDE DEF Bad
    <3> QED  BY <3>1, GreatestElement
  <2>2. k \in 0 .. 2 * n /\ ~Def(k)
    <3> HIDE DEF Def
    <3> QED  OBVIOUS
  <2>3. Def(k + 1)
    <3>1. CASE k + 1 \in 0 .. 2 * n
      <4> HIDE DEF Def
      <4> SUFFICES ASSUME ~Def(k + 1) PROVE FALSE
        OBVIOUS
      <4>1. k + 1 \in Bad
        BY <3>1
      <4> HIDE DEF Bad
      <4> QED  BY <2>1, <2>2, <4>1
    <3>2. CASE ~(k + 1 \in 0 .. 2 * n)
      <4> DEFINE f == [i \in k + 1 .. 2 * n |-> <<>>]
      <4>1. k + 1 .. 2 * n = {}
        <5> HIDE DEF Def
        <5> QED  BY <2>2, <3>2
      <4>2. f = [i \in k + 1 .. 2 * n |-> FindFrom(n, done, f, i)]
        BY <4>1, Zenon
      <4> HIDE DEF f
      <4> QED  BY <4>2
    <3> QED  BY <3>1, <3>2
  <2>4. PICK f : f = [i \in k + 1 .. 2 * n |-> FindFrom(n, done, f, i)]
    BY <2>3
  <2> DEFINE g == [i \in k .. 2 * n |-> FindFrom(n, done, f, i)]
  <2>5. ASSUME NEW i \in k .. 2 * n
        PROVE  FindFrom(n, done, f, i) = FindFrom(n, done, g, i)
    <3>1. CASE IsLeaf(n, i)
      BY <3>1, Zenon DEF FindFrom
    <3>2. CASE ~IsLeaf(n, i)
      <4>1. /\ Left(i) \in k + 1 .. 2 * n /\ Right(i) \in k + 1 .. 2 * n
            /\ Left(i) \in k .. 2 * n /\ Right(i) \in k .. 2 * n
        <5> HIDE DEF Def, Bad, g
        <5> QED  BY <2>2, <3>2 DEF Left, Right, IsLeaf
      <4>2. \A j \in k + 1 .. 2 * n : f[j] = FindFrom(n, done, f, j)
        BY <2>4, Zenon
      <4>3. \A j \in k .. 2 * n : g[j] = FindFrom(n, done, f, j)
        BY Zenon
      <4> HIDE DEF g
      <4>4. g[Left(i)] = f[Left(i)] /\ g[Right(i)] = f[Right(i)]
        BY <4>1, <4>2, <4>3, Zenon
      <4> QED  BY <3>2, <4>4, Zenon DEF FindFrom
    <3> QED  BY <3>1, <3>2, Zenon
  <2>6. g = [i \in k .. 2 * n |-> FindFrom(n, done, g, i)]
    BY <2>5, Zenon
  <2>7. Def(k)
    <3> HIDE DEF g
    <3> QED  BY <2>6
  <2> HIDE DEF Def
  <2> QED  BY <2>2, <2>7
<1>2. Def(0)
  <2> HIDE DEF Def
  <2>1. 0 \in 0 .. 2 * n
    OBVIOUS
  <2> QED  BY <1>1, <2>1
<1> QED  BY <1>2 DEF Nodes

LEMMA MinHashFindOf ==
  ASSUME NEW n \in Nat, NEW done
  PROVE  /\ \A i \in Nodes(n) : Find(n, done)[i] = FindFrom(n, done, Find(n, done), i)
         /\ MinHashFind(n, done) = Find(n, done)[0].hashes
<1> DEFINE v == Find(n, done)
<1>1. v = [j \in Nodes(n) |-> FindFrom(n, done, v, j)]
  BY FindExists, Zenon DEF Find
<1>2. MinHashFind(n, done) = v[0].hashes
  BY Zenon DEF MinHashFind, Find, FindFrom, Emitted
<1> HIDE DEF v
<1>3. \A i \in Nodes(n) : v[i] = FindFrom(n, done, v, i)
  BY <1>1, Zenon
<1> QED  BY <1>2, <1>3 DEF v

\* All the leaves below a node are done.
Full(n, done, k) == LeavesBelow(n, k) \subseteq done

LEMMA FullOf ==
  ASSUME NEW n \in Nat, NEW done, NEW i \in Nodes(n)
  PROVE  /\ i >= n => (Full(n, done, i) <=> i \in done)
         /\ i < n => (Full(n, done, i) <=> Full(n, done, Left(i)) /\ Full(n, done, Right(i)))
<1>1. \A k \in Nodes(n) : LeavesBelow(n, k) = Below(n, k) \cap Leaves(n)
  BY DEF LeavesBelow, Below, Leaves, Nodes
<1>2. i \in Nat /\ i \in 0 .. 2 * n
  BY Numbering DEF Nodes
<1>3. CASE i >= n
  <2>1. Below(n, i) = {i} /\ i \in Leaves(n)
    BY <1>2, <1>3, BelowOf DEF Leaves
  <2> QED  BY <1>1, <1>2, <1>3, <2>1 DEF Full
<1>4. CASE i < n
  <2>1. Below(n, i) = {i} \cup Below(n, Left(i)) \cup Below(n, Right(i)) /\ i \notin Leaves(n)
        /\ Left(i) \in Nodes(n) /\ Right(i) \in Nodes(n)
    BY <1>2, <1>4, BelowOf, Numbering DEF Leaves
  <2>2. LeavesBelow(n, i) = LeavesBelow(n, Left(i)) \cup LeavesBelow(n, Right(i))
    BY <1>1, <2>1
  <2> QED  BY <1>2, <1>4, <2>2 DEF Full
<1> QED  BY <1>2, <1>3, <1>4

\* The nodes below i, other than i, that are full and have a parent that is not;
\* and the root, if it is full and no leaf.
Tops(n, done, i) ==
  {k \in Below(n, i) : /\ Full(n, done, k)
                       /\ IF k = i THEN i = 0 /\ n > 0 ELSE ~Full(n, done, Parent(k))}

\* What the recursion adds at an inner node.
LEMMA TopsOf ==
  ASSUME NEW n \in Nat, NEW done, NEW i \in Nodes(n), i < n
  PROVE  LET new == Elems(Emitted(i, Full(n, done, Left(i)), Full(n, done, Right(i))))
             l == Tops(n, done, Left(i))
             r == Tops(n, done, Right(i))
         IN Tops(n, done, i) = l \cup r \cup new /\ l \cap r = {} /\ (l \cup r) \cap new = {}
<1> DEFINE L == Left(i)
           R == Right(i)
           new == Elems(Emitted(i, Full(n, done, L), Full(n, done, R)))
<1>1. /\ L \in Nodes(n) /\ R \in Nodes(n) /\ i < L /\ L < R /\ i \in Nat /\ L \in Nat /\ R \in Nat
      /\ Parent(L) = i /\ Parent(R) = i
  BY Numbering
<1>2. /\ Below(n, i) = {i} \cup Below(n, L) \cup Below(n, R)
      /\ Below(n, L) \cap Below(n, R) = {} /\ i \notin Below(n, L) /\ i \notin Below(n, R)
      /\ L \in Below(n, L) /\ R \in Below(n, R)
  BY <1>1, BelowOf
<1>3. Full(n, done, i) <=> Full(n, done, L) /\ Full(n, done, R)
  BY FullOf
<1>4. new = {k \in {i, L, R} : /\ Full(n, done, k)
                               /\ IF k = i THEN i = 0 ELSE ~Full(n, done, i)}
  <2>1. \A x : Elems(<<x>>) = {x}
    BY DEF Elems
  <2>2. Elems(<<>>) = {}
    BY DEF Elems
  <2>3. CASE Full(n, done, L) /\ Full(n, done, R) /\ i = 0
    <3>1. Emitted(i, Full(n, done, L), Full(n, done, R)) = <<i>>
      BY <2>3 DEF Emitted
    <3>2. new = {i}
      BY <2>1, <3>1
    <3> QED  BY <1>1, <1>3, <2>3, <3>2
  <2>4. CASE Full(n, done, L) /\ Full(n, done, R) /\ i # 0
    <3>1. Emitted(i, Full(n, done, L), Full(n, done, R)) = <<>>
      BY <2>4 DEF Emitted
    <3> QED  BY <1>1, <1>3, <2>2, <2>4, <3>1
  <2>5. CASE Full(n, done, L) /\ ~Full(n, done, R)
    <3>1. Emitted(i, Full(n, done, L), Full(n, done, R)) = <<L>>
      BY <2>5 DEF Emitted
    <3>2. new = {L}
      BY <2>1, <3>1
    <3> QED  BY <1>1, <1>3, <2>5, <3>2
  <2>6. CASE ~Full(n, done, L) /\ Full(n, done, R)
    <3>1. Emitted(i, Full(n, done, L), Full(n, done, R)) = <<R>>
      BY <2>6 DEF Emitted
    <3>2. new = {R}
      BY <2>1, <3>1
    <3> QED  BY <1>1, <1>3, <2>6, <3>2
  <2>7. CASE ~Full(n, done, L) /\ ~Full(n, done, R)
    <3>1. Emitted(i, Full(n, done, L), Full(n, done, R)) = <<>>
      BY <2>7 DEF Emitted
    <3> QED  BY <1>1, <1>3, <2>2, <2>7, <3>1
  <2> QED  BY <2>3, <2>4, <2>5, <2>6, <2>7
<1> HIDE DEF new, L, R
<1>5. ASSUME NEW c \in {L, R}
      PROVE  Tops(n, done, c) = {k \in Below(n, c) \ {c} : Full(n, done, k) /\ ~Full(n, done, Parent(k))}
  <2>1. c # 0
    BY <1>1
  <2> QED  BY <2>1 DEF Tops
<1>6. Tops(n, done, L) \cap Tops(n, done, R) = {}
  BY <1>2 DEF Tops
<1>7. (Tops(n, done, L) \cup Tops(n, done, R)) \cap new = {}
  BY <1>2, <1>4, <1>5
<1>8. Tops(n, done, i) = Tops(n, done, L) \cup Tops(n, done, R) \cup new
  <2> SUFFICES ASSUME NEW k
               PROVE  k \in Tops(n, done, i) <=> k \in Tops(n, done, L) \cup Tops(n, done, R) \cup new
    OBVIOUS
  <2>1. CASE k \in {i, L, R}
    BY <1>1, <1>2, <1>4, <1>5, <2>1 DEF Tops
  <2>2. CASE k \notin {i, L, R}
    BY <1>1, <1>2, <1>4, <1>5, <2>2 DEF Tops
  <2> QED  BY <2>1, <2>2
<1> QED  BY <1>6, <1>7, <1>8 DEF new, L, R

\* min_hash_find emits each such node once.
LEMMA FindEmits ==
  ASSUME NEW n \in Nat, NEW done, NEW i \in Nodes(n)
  PROVE  LET f == Find(n, done)[i]
         IN /\ f.complete <=> Full(n, done, i)
            /\ f.hashes \in Seq(Nodes(n)) /\ NoRepeats(f.hashes)
            /\ Elems(f.hashes) = Tops(n, done, i)
<1> DEFINE F == Find(n, done)
           Holds(j) == /\ F[j].complete <=> Full(n, done, j)
                       /\ F[j].hashes \in Seq(Nodes(n)) /\ NoRepeats(F[j].hashes)
                       /\ Elems(F[j].hashes) = Tops(n, done, j)
           Bad == {j \in Nodes(n) : ~Holds(j)}
<1> SUFFICES ASSUME Bad # {} PROVE FALSE
  BY Zenon
<1>1. PICK j \in Bad : \A k \in Bad : k <= j
  <2>1. Bad \in SUBSET (0 .. 2 * n) /\ 2 * n \in Nat
    <3> HIDE DEF Holds
    <3> QED  BY DEF Nodes
  <2> HIDE DEF Bad
  <2> QED  BY <2>1, GreatestElement
<1>2. j \in Nodes(n) /\ j \in Nat /\ j \in 0 .. 2 * n /\ ~Holds(j)
  <2> HIDE DEF Holds
  <2> QED  BY Numbering DEF Nodes
<1>3. \A k \in Nodes(n) : k > j => Holds(k)
  <2> HIDE DEF Holds
  <2> TAKE k \in Nodes(n)
  <2>1. k \in Nat
    BY Numbering
  <2> SUFFICES ASSUME k > j, ~Holds(k) PROVE FALSE
    OBVIOUS
  <2>2. k \in Bad
    OBVIOUS
  <2> HIDE DEF Bad
  <2> QED  BY <1>1, <1>2, <2>1, <2>2
<1>4. F[j] = FindFrom(n, done, F, j)
  BY <1>2, MinHashFindOf
<1> HIDE DEF F
<1>5. CASE IsLeaf(n, j)
  <2>1. F[j].complete = (j \in done) /\ F[j].hashes = <<>> /\ j >= n
    BY <1>4, <1>5 DEF FindFrom, IsLeaf
  <2>2. Full(n, done, j) <=> j \in done
    BY <1>2, <2>1, FullOf
  <2>3. Tops(n, done, j) = {}
    <3>1. Below(n, j) = {j} /\ ~(j = 0 /\ n > 0)
      BY <1>2, <2>1, BelowOf
    <3> QED  BY <3>1 DEF Tops
  <2>4. Elems(<<>>) = {} /\ NoRepeats(<<>>) /\ <<>> \in Seq(Nodes(n))
    BY DEF Elems, NoRepeats
  <2>5. Holds(j)
    BY <2>1, <2>2, <2>3, <2>4, Zenon
  <2> QED  BY <1>2, <2>5
<1>6. CASE ~IsLeaf(n, j)
  <2>1. j < n
    BY <1>2, <1>6 DEF IsLeaf
  <2>2. /\ Left(j) \in Nodes(n) /\ Right(j) \in Nodes(n) /\ Left(j) > j /\ Right(j) > j
    <3> HIDE DEF Holds, Bad
    <3>1. /\ Left(j) \in Nodes(n) /\ Right(j) \in Nodes(n) /\ j < Left(j) /\ Left(j) < Right(j)
      BY <1>2, <2>1, Numbering
    <3>2. Left(j) \in Nat /\ Right(j) \in Nat
      BY <3>1, Numbering
    <3> QED  BY <1>2, <3>1, <3>2
  <2>3. Holds(Left(j)) /\ Holds(Right(j))
    <3> HIDE DEF Holds, Bad
    <3> QED  BY <1>3, <2>2
  <2> DEFINE l == F[Left(j)].hashes
             r == F[Right(j)].hashes
             e == Emitted(j, Full(n, done, Left(j)), Full(n, done, Right(j)))
  <2>4. /\ F[j].complete = (F[Left(j)].complete /\ F[Right(j)].complete)
        /\ F[j].hashes = l \o r \o Emitted(j, F[Left(j)].complete, F[Right(j)].complete)
    <3> HIDE DEF Holds, Bad
    <3>1. FindFrom(n, done, F, j) =
            [complete |-> F[Left(j)].complete /\ F[Right(j)].complete,
             hashes |-> l \o r \o Emitted(j, F[Left(j)].complete, F[Right(j)].complete)]
      BY <1>6, Zenon DEF FindFrom
    <3> HIDE DEF l, r
    <3> QED  BY <1>4, <3>1
  <2>5. F[j].complete <=> Full(n, done, j)
    BY <1>2, <2>1, <2>3, <2>4, FullOf, Zenon
  <2>6. F[j].hashes = l \o r \o e
    <3> HIDE DEF l, r
    <3>1. /\ F[Left(j)].complete <=> Full(n, done, Left(j))
          /\ F[Right(j)].complete <=> Full(n, done, Right(j))
      BY <2>3
    <3>2. Emitted(j, F[Left(j)].complete, F[Right(j)].complete) = e
      BY <3>1, Zenon DEF Emitted
    <3> QED  BY <2>4, <3>2
  <2>7. /\ Tops(n, done, j) = Tops(n, done, Left(j)) \cup Tops(n, done, Right(j)) \cup Elems(e)
        /\ Tops(n, done, Left(j)) \cap Tops(n, done, Right(j)) = {}
        /\ (Tops(n, done, Left(j)) \cup Tops(n, done, Right(j))) \cap Elems(e) = {}
    BY <1>2, <2>1, TopsOf, Zenon
  <2>8. e \in Seq(Nodes(n)) /\ NoRepeats(e)
    <3>1. e \in {<<>>, <<j>>, <<Left(j)>>, <<Right(j)>>}
      BY DEF Emitted
    <3> HIDE DEF e
    <3>2. \A x \in Nodes(n) : <<x>> \in Seq(Nodes(n)) /\ NoRepeats(<<x>>)
      BY DEF NoRepeats
    <3>3. <<>> \in Seq(Nodes(n)) /\ NoRepeats(<<>>)
      BY DEF NoRepeats
    <3> QED  BY <1>2, <2>2, <3>1, <3>2, <3>3
  <2>9. /\ l \in Seq(Nodes(n)) /\ NoRepeats(l) /\ Elems(l) = Tops(n, done, Left(j))
        /\ r \in Seq(Nodes(n)) /\ NoRepeats(r) /\ Elems(r) = Tops(n, done, Right(j))
    BY <2>3
  <2> HIDE DEF Holds, Bad, l, r, e
  <2> DEFINE lr == l \o r
  <2>10. lr \in Seq(Nodes(n)) /\ NoRepeats(lr) /\ Elems(lr) = Elems(l) \cup Elems(r)
    BY <2>7, <2>9, Concatenated
  <2> HIDE DEF lr
  <2>11. lr \o e \in Seq(Nodes(n)) /\ NoRepeats(lr \o e) /\ Elems(lr \o e) = Elems(lr) \cup Elems(e)
    <3>1. Elems(lr) \cap Elems(e) = {}
      BY <2>7, <2>9, <2>10
    <3> QED  BY <2>8, <2>10, <3>1, Concatenated
  <2>12. F[j].hashes = lr \o e
    BY <2>6 DEF lr
  <2>13. Elems(lr \o e) = Tops(n, done, j)
    BY <2>7, <2>9, <2>10, <2>11
  <2>14. Holds(j)
    BY <2>5, <2>11, <2>12, <2>13 DEF Holds
  <2> QED  BY <1>2, <2>14
<1> QED  BY <1>5, <1>6

\* min_hash_find returns, of a tree that is more than a leaf, the complete nodes
\* that are below no other complete node, each once.
THEOREM MinHashFindIsMaximal ==
  ASSUME NEW n \in Nat, NEW done
  PROVE  LET nodes == MinHashFind(n, done)
         IN /\ nodes \in Seq(Nodes(n)) /\ NoRepeats(nodes)
            /\ n > 0 => Elems(nodes) = Maximal(n, done)
<1>1. 0 \in Nodes(n)
  BY DEF Nodes
<1>2. Tops(n, done, 0) = {k \in Nodes(n) : /\ Full(n, done, k)
                                            /\ IF k = 0 THEN n > 0 ELSE ~Full(n, done, Parent(k))}
  BY AllBelowRoot DEF Tops
<1>3. n > 0 => Tops(n, done, 0) = Maximal(n, done)
  BY <1>2 DEF Maximal, Full
<1> QED  BY <1>1, <1>3, FindEmits, MinHashFindOf

-----------------------------------------------------------------------------
(* Searching a hash, and the order of the leaves.                          *)

\* inorder_find_node finds the node of a hash that no other node has.
LEMMA FindNodeIs ==
  ASSUME NEW n \in Nat, NEW value, NEW i \in Nodes(n),
         \A j \in Nodes(n) : value[j] = value[i] => j = i
  PROVE  FindNode(n, value, value[i]) = {i}
<1> DEFINE order == InOrder(n, 0, Nodes(n))
           hits == {k \in DOMAIN order : value[order[k]] = value[i]}
<1>1. Elems(order) = Nodes(n) /\ NoRepeats(order)
  <2>1. 0 \in Nodes(n) /\ Below(n, 0) = Nodes(n)
    BY AllBelowRoot DEF Nodes
  <2>2. Elems(order) = Below(n, 0) \cap Nodes(n) /\ NoRepeats(order)
    BY <2>1, WalkVisitsEachOnce
  <2> HIDE DEF order
  <2> QED  BY <2>1, <2>2
<1>2. order \in Seq(Nodes(n)) /\ DOMAIN order \subseteq Nat
  <2>1. 0 \in Nodes(n)
    BY DEF Nodes
  <2>2. order \in Seq(Nodes(n))
    BY <2>1, WalkVisitsEachOnce
  <2> HIDE DEF order
  <2> QED  BY <2>2, LenProperties
<1>3. FindNode(n, value, value[i]) = {order[k] : k \in {k \in hits : \A l \in hits : k <= l}}
  BY DEF FindNode
<1> HIDE DEF order
<1>4. PICK k \in DOMAIN order : order[k] = i
  BY <1>1 DEF Elems
<1>5. hits = {k}
  <2>1. \A l \in DOMAIN order : order[l] \in Nodes(n)
    BY <1>1 DEF Elems
  <2>2. \A l \in DOMAIN order : value[order[l]] = value[i] => l = k
    BY <1>1, <1>4, <2>1 DEF NoRepeats
  <2> QED  BY <1>4, <2>2
<1>6. k <= k
  BY <1>2
<1> QED  BY <1>3, <1>4, <1>5, <1>6

Depth(n, j) == Cardinality(Ancestors(n, j))

LEMMA DepthOf ==
  ASSUME NEW n \in Nat, NEW j \in Nodes(n)
  PROVE  Depth(n, j) \in Nat /\ (j # 0 => Depth(n, j) = Depth(n, Parent(j)) + 1)
<1>1. ASSUME NEW i \in Nodes(n)
      PROVE  IsFiniteSet(Ancestors(n, i)) /\ Depth(n, i) \in Nat
  <2>1. IsFiniteSet(0 .. i)
    <3>1. 0 \in Int /\ i \in Int
      BY Numbering
    <3> QED  BY <3>1, FS_Interval
  <2>2. IsFiniteSet(Ancestors(n, i))
    BY <2>1, AncestorBounds, FS_Subset
  <2> QED  BY <2>2, FS_CardinalityType DEF Depth
<1>2. ASSUME j # 0
      PROVE  Depth(n, j) = Depth(n, Parent(j)) + 1
  <2>1. /\ Parent(j) \in Nodes(n) /\ Parent(j) < j /\ Parent(j) \in Nat /\ j \in Nat
        /\ Ancestors(n, j) = Ancestors(n, Parent(j)) \cup {j}
    BY <1>2, Numbering, AncestorsOf
  <2>2. j \notin Ancestors(n, Parent(j))
    BY <2>1, AncestorBounds
  <2> QED  BY <1>1, <2>1, <2>2, FS_AddElement DEF Depth
<1> QED  BY <1>1, <1>2

\* Below a node everything is deeper.
LEMMA BelowIsDeeper ==
  ASSUME NEW n \in Nat, NEW i \in Nodes(n), NEW j \in Below(n, i), j # i
  PROVE  Depth(n, i) < Depth(n, j)
<1> DEFINE Bad == {k \in Below(n, i) : k # i /\ ~(Depth(n, i) < Depth(n, k))}
<1> SUFFICES ASSUME Bad # {} PROVE FALSE
  OBVIOUS
<1>1. PICK k \in Bad : \A l \in Bad : k <= l
  <2>1. Bad \in SUBSET Nat
    BY Numbering DEF Below
  <2> HIDE DEF Bad
  <2> QED  BY <2>1, LeastElement
<1>2. k \in Nodes(n) /\ i \in Ancestors(n, k) /\ k # i /\ ~(Depth(n, i) < Depth(n, k))
  BY DEF Below
<1>3. k # 0
  BY <1>2, AncestorsOf
<1>4. /\ Parent(k) \in Nodes(n) /\ Parent(k) < k /\ Parent(k) \in Nat /\ k \in Nat
      /\ i \in Ancestors(n, Parent(k))
  BY <1>2, <1>3, Numbering, AncestorsOf
<1>5. Depth(n, k) = Depth(n, Parent(k)) + 1 /\ Depth(n, Parent(k)) \in Nat /\ Depth(n, i) \in Nat
  BY <1>2, <1>3, <1>4, DepthOf
<1>6. Parent(k) # i /\ ~(Depth(n, i) < Depth(n, Parent(k)))
  BY <1>2, <1>5
<1>7. Parent(k) \in Bad
  BY <1>4, <1>6 DEF Below
<1> HIDE DEF Bad
<1> QED  BY <1>1, <1>4, <1>7

\* At one depth, what is below the left child is before what is below the right.
LEMMA LeftBeforeRight ==
  ASSUME NEW n \in Nat, NEW i \in Nodes(n), i < n,
         NEW u \in Below(n, Left(i)), NEW v \in Below(n, Right(i)), Depth(n, u) = Depth(n, v)
  PROVE  u < v
<1> DEFINE L == Left(i)
           R == Right(i)
           Bad == {x \in Below(n, L) : \E y \in Below(n, R) : Depth(n, x) = Depth(n, y) /\ ~(x < y)}
<1>1. /\ L \in Nodes(n) /\ R \in Nodes(n) /\ L < R /\ i < L /\ i \in Nat /\ L \in Nat /\ R \in Nat
      /\ Parent(L) = i /\ Parent(R) = i
  BY Numbering
<1>2. Depth(n, L) = Depth(n, R) /\ Depth(n, L) \in Nat
  BY <1>1, DepthOf
<1> SUFFICES ASSUME Bad # {} PROVE FALSE
  OBVIOUS
<1> HIDE DEF L, R
<1>3. PICK x \in Bad : \A z \in Bad : x <= z
  <2>1. Bad \in SUBSET Nat
    BY Numbering DEF Below
  <2> HIDE DEF Bad
  <2> QED  BY <2>1, LeastElement
<1>4. PICK y \in Below(n, R) : Depth(n, x) = Depth(n, y) /\ ~(x < y)
  OBVIOUS
<1>5. x \in Below(n, L) /\ x \in Nodes(n) /\ y \in Nodes(n)
      /\ L \in Ancestors(n, x) /\ R \in Ancestors(n, y)
  BY DEF Below
<1>6. x # L
  <2> SUFFICES ASSUME x = L PROVE FALSE
    OBVIOUS
  <2>1. y = R
    <3>1. ~(Depth(n, R) < Depth(n, y))
      BY <1>2, <1>4
    <3> QED  BY <1>1, <3>1, BelowIsDeeper
  <2> QED  BY <1>1, <1>4, <2>1
<1>7. y # R
  <2> SUFFICES ASSUME y = R PROVE FALSE
    OBVIOUS
  <2>1. Depth(n, L) < Depth(n, x)
    BY <1>1, <1>5, <1>6, BelowIsDeeper
  <2> QED  BY <1>2, <1>4, <2>1
<1>8. x # 0 /\ y # 0
  BY <1>1, <1>5, <1>6, <1>7, AncestorsOf
<1>9. /\ Parent(x) \in Nodes(n) /\ Parent(x) < x /\ Parent(x) \in Nat /\ x \in Nat
      /\ Parent(y) \in Nodes(n) /\ Parent(y) \in Nat /\ y \in Nat
      /\ x = Left(Parent(x)) \/ x = Right(Parent(x))
      /\ y = Left(Parent(y)) \/ y = Right(Parent(y))
  BY <1>5, <1>8, Numbering
<1>10. Parent(x) \in Below(n, L) /\ Parent(y) \in Below(n, R)
  BY <1>5, <1>6, <1>7, <1>8, <1>9, AncestorsOf DEF Below
<1>11. Depth(n, Parent(x)) = Depth(n, Parent(y))
  <2>1. Depth(n, x) = Depth(n, Parent(x)) + 1 /\ Depth(n, y) = Depth(n, Parent(y)) + 1
        /\ Depth(n, Parent(x)) \in Nat /\ Depth(n, Parent(y)) \in Nat
    BY <1>5, <1>8, <1>9, DepthOf
  <2>2. \A k, l \in Nat : k + 1 = l + 1 => k = l
    OBVIOUS
  <2> QED  BY <1>4, <2>1, <2>2, Zenon
<1>12. ~(Parent(x) < Parent(y))
  BY <1>4, <1>9 DEF Left, Right
<1>13. Parent(x) \in Bad
  BY <1>10, <1>11, <1>12
<1> HIDE DEF Bad
<1> QED  BY <1>3, <1>9, <1>13

Ascending(s) == \A j, k \in DOMAIN s : j < k => s[j] < s[k]

LEMMA AscendingJoined ==
  ASSUME NEW s \in Seq(Nat), NEW t \in Seq(Nat), Ascending(s), Ascending(t),
         \A x \in Elems(s), y \in Elems(t) : x < y
  PROVE  Ascending(s \o t)
<1> DEFINE a == Len(s)
           b == Len(t)
           w == s \o t
<1>1. /\ a \in Nat /\ b \in Nat
      /\ DOMAIN w = 1 .. a + b /\ DOMAIN s = 1 .. a /\ DOMAIN t = 1 .. b
      /\ \A k \in 1 .. a + b : w[k] = IF k <= a THEN s[k] ELSE t[k - a]
  BY ConcatProperties, LenProperties
<1> HIDE DEF w, a, b
<1> SUFFICES ASSUME NEW j \in 1 .. a + b, NEW k \in 1 .. a + b, j < k
             PROVE  w[j] < w[k]
  BY <1>1 DEF Ascending, w
<1>2. CASE k <= a
  <2>1. j \in 1 .. a /\ k \in 1 .. a /\ w[j] = s[j] /\ w[k] = s[k]
    BY <1>1, <1>2
  <2> QED  BY <1>1, <2>1 DEF Ascending
<1>3. CASE j > a
  <2>1. w[j] = t[j - a] /\ w[k] = t[k - a] /\ j - a \in 1 .. b /\ k - a \in 1 .. b /\ j - a < k - a
    BY <1>1, <1>3
  <2> QED  BY <1>1, <2>1 DEF Ascending
<1>4. CASE j <= a /\ k > a
  <2>1. w[j] = s[j] /\ w[k] = t[k - a] /\ j \in 1 .. a /\ k - a \in 1 .. b
    BY <1>1, <1>4
  <2>2. s[j] \in Elems(s) /\ t[k - a] \in Elems(t)
    BY <1>1, <2>1 DEF Elems
  <2> QED  BY <2>1, <2>2
<1> QED  BY <1>1, <1>2, <1>3, <1>4

\* In a perfect tree the leaves come in their order.
LEMMA LeavesInOrder ==
  ASSUME NEW n \in Nat, Perfect(n), NEW i \in Nodes(n)
  PROVE  Ascending(InOrder(n, i, Leaves(n)))
<1> DEFINE W(j) == InOrder(n, j, Leaves(n))
           Bad == {j \in Nodes(n) : ~Ascending(W(j))}
<1> SUFFICES ASSUME Bad # {} PROVE FALSE
  OBVIOUS
<1>1. PICK j \in Bad : \A k \in Bad : k <= j
  <2>1. Bad \in SUBSET (0 .. 2 * n) /\ 2 * n \in Nat
    BY DEF Nodes
  <2> HIDE DEF Bad
  <2> QED  BY <2>1, GreatestElement
<1>2. j \in Nodes(n) /\ j \in Nat /\ ~Ascending(W(j))
  BY Numbering
<1>3. ASSUME NEW k \in Nodes(n)
      PROVE  W(k) \in Seq(Nat) /\ Elems(W(k)) = Below(n, k) \cap Leaves(n)
  <2>1. W(k) \in Seq(Nodes(n)) /\ Elems(W(k)) = Below(n, k) \cap Leaves(n)
    BY WalkVisitsEachOnce
  <2>2. Nodes(n) \subseteq Nat
    BY Numbering
  <2> HIDE DEF W
  <2> QED  BY <2>1, <2>2, SeqMonotonic
<1>4. CASE IsLeaf(n, j)
  <2>1. W(j) = Here(Leaves(n), j)
    BY <1>2, <1>4, InOrderOf
  <2>2. Ascending(Here(Leaves(n), j))
    <3>1. CASE j \in Leaves(n)
      <4>1. Here(Leaves(n), j) = <<j>>
        BY <3>1 DEF Here
      <4> QED  BY <4>1 DEF Ascending
    <3>2. CASE j \notin Leaves(n)
      <4>1. Here(Leaves(n), j) = <<>>
        BY <3>2 DEF Here
      <4> QED  BY <4>1 DEF Ascending
    <3> QED  BY <3>1, <3>2
  <2> QED  BY <1>2, <2>1, <2>2
<1>5. CASE ~IsLeaf(n, j)
  <2>1. j < n
    BY <1>2, <1>5 DEF IsLeaf
  <2>2. /\ Left(j) \in Nodes(n) /\ Right(j) \in Nodes(n) /\ Left(j) \in Nat /\ Right(j) \in Nat
        /\ j < Left(j) /\ j < Right(j)
    <3>1. /\ Left(j) \in Nodes(n) /\ Right(j) \in Nodes(n) /\ j < Left(j) /\ Left(j) < Right(j)
      BY <1>2, <2>1, Numbering
    <3>2. Left(j) \in Nat /\ Right(j) \in Nat
      BY <3>1, Numbering
    <3> QED  BY <1>2, <3>1, <3>2
  <2>3. Ascending(W(Left(j))) /\ Ascending(W(Right(j)))
    <3>1. Left(j) \notin Bad /\ Right(j) \notin Bad
      <4> HIDE DEF Bad
      <4> QED  BY <1>1, <1>2, <2>2
    <3> QED  BY <2>2, <3>1
  <2>4. W(j) = W(Left(j)) \o W(Right(j))
    <3>1. W(j) = W(Left(j)) \o Here(Leaves(n), j) \o W(Right(j))
      BY <1>2, <1>5, InOrderOf
    <3>2. Here(Leaves(n), j) = <<>>
      BY <1>2, <2>1 DEF Here, Leaves
    <3>3. W(Left(j)) \o <<>> = W(Left(j))
      BY <1>3, <2>2, ConcatEmptySeq
    <3> HIDE DEF W
    <3> QED  BY <3>1, <3>2, <3>3
  <2>5. \A x \in Elems(W(Left(j))), y \in Elems(W(Right(j))) : x < y
    <3> TAKE x \in Elems(W(Left(j))), y \in Elems(W(Right(j)))
    <3>1. x \in Below(n, Left(j)) /\ y \in Below(n, Right(j)) /\ x \in Leaves(n) /\ y \in Leaves(n)
      BY <1>3, <2>2
    <3>2. Depth(n, x) = Depth(n, y)
      BY <3>1 DEF Perfect, Depth
    <3> QED  BY <1>2, <2>1, <3>1, <3>2, LeftBeforeRight
  <2>6. W(Left(j)) \in Seq(Nat) /\ W(Right(j)) \in Seq(Nat)
    BY <1>3, <2>2
  <2> HIDE DEF W, Bad
  <2>7. Ascending(W(Left(j)) \o W(Right(j)))
    BY <2>3, <2>5, <2>6, AscendingJoined
  <2> QED  BY <1>2, <2>4, <2>7
<1> QED  BY <1>4, <1>5
=============================================================================
