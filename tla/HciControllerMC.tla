---------------------------- MODULE HciControllerMC ----------------------------
(***************************************************************************)
(* Instances of HciController for TLC.                                     *)
(***************************************************************************)
EXTENDS HciController

CONSTANTS c1, c2, c3, r1, b1, b2   \* model values

TwoCalls == {c1, c2}
ThreeCalls == {c1, c2, c3}

\* The first two calls make the same command, the third another.
Opcodes == [c \in Call |-> IF c = c3 THEN 2 ELSE 1]
================================================================================
