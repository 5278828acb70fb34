------------------------- MODULE MCManagedPackages -------------------------
(* Instances of ManagedPackages for TLC.                                   *)
EXTENDS ManagedPackages, TLC

CONSTANTS p1, p2, p3

\* p1 and p2 agree on the first 20 characters of the ident, p3 does not; each
\* has a chunk of its own, and one chunk is in all of them.
MCPackages == {p1, p2, p3}
MCPrefix == [p \in MCPackages |-> IF p = p2 THEN p1 ELSE p]
MCChunksOf == [p \in MCPackages |-> {"h", p}]

\* Blocks are interchangeable: malloc may return any free one.
BlockSymmetry == Permutations(Blocks)
=============================================================================
