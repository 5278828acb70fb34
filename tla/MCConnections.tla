--------------------------- MODULE MCConnections ---------------------------
(* Instances of Connections for TLC.                                       *)
EXTENDS Connections, TLC

\* Descriptors are interchangeable: the kernel may hand out any free one.
DescriptorSymmetry == Permutations(Fds)

\* Bound of the larger runs: nothing is explored past the step that closes
\* descriptor 0. The run conn_faults goes on from there; the liveness properties
\* of conn_live claim nothing of a behaviour with that step (InputLost).
InputKept == sock[0] = Stdin
=============================================================================
