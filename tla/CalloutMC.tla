------------------------------- MODULE CalloutMC -------------------------------
(***************************************************************************)
(* An instance of Callout for TLC.                                         *)
(***************************************************************************)
EXTENDS Callout

CONSTANTS careful, careless   \* two callouts, as model values

Both == {careful, careless}
================================================================================
