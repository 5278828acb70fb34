---------------------------- MODULE Distribution ----------------------------
(***************************************************************************)
(* What FETCH, REQ and RES promise together: a process gets parts of the   *)
(* packaged file, each from another process that has the whole chunk, and  *)
(* never loses a part it has.                                              *)
(***************************************************************************)
CONSTANTS
  Procs,    \* the btide processes that manage the package
  Pieces,   \* the chunks of the package: a set of sets of units of the file
  Holds     \* Procs -> the units that are right when it starts

VARIABLE have   \* Procs -> the units of the file that are right

Init == have = Holds

\* p writes what q has sent it, a part of one chunk.
Copy(p, q) ==
  \E c \in Pieces : \E S \in SUBSET c :
    /\ c \subseteq have[q]
    /\ have' = [have EXCEPT ![p] = @ \cup S]

Next == \E p \in Procs : \E q \in Procs \ {p} : Copy(p, q)

Spec == Init /\ [][Next]_have
=============================================================================
