------------------------------ MODULE MCSha256 ------------------------------
(* An instance of Sha256 for TLC.                                          *)
EXTENDS Sha256

\* Sizes on both sides of what the padding and the blocks turn on.
MCSizes == {0, 1, 55, 64, 73}
=============================================================================
