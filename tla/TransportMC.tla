------------------------------ MODULE TransportMC ------------------------------
(***************************************************************************)
(* An instance of Transport for TLC.                                       *)
(***************************************************************************)
EXTENDS Transport, TLC

CONSTANTS c1, c2, r1, b1, b2, a1, a2   \* model values

\* Two calls of the same command.
Opcodes == [c \in {c1, c2} |-> 1]

\* The calls, the buffers and the chains are each alike.
Symmetry ==
  Permutations({c1, c2}) \cup Permutations({b1, b2}) \cup Permutations({a1, a2})
================================================================================
