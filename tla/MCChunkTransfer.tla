-------------------------- MODULE MCChunkTransfer --------------------------
(* Instances of ChunkTransfer for TLC.                                     *)
EXTENDS ChunkTransfer, TLC

CONSTANTS a, b

Pair == {a, b}

\* b asks a; a and b ask each other.
OneWay == {<<b, a>>}
BothWays == {<<a, b>>, <<b, a>>}

\* Every unit of the file different.
Distinct == [u \in Units |-> u]

\* What the files hold: a the whole file and b nothing; a the last chunk
\* and a unit of the first, b a unit of the last.
AFull == [p \in Procs |-> IF p = a THEN Units ELSE {}]
Partial == [p \in Procs |-> IF p = a THEN UnitsOf(1) \cup {0} ELSE {Start(1)}]
=============================================================================
