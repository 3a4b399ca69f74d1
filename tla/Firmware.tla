--------------------------------- MODULE Firmware ---------------------------------
(***************************************************************************)
(* Build and start-up composed: whatever cargo links is what starts.       *)
(***************************************************************************)
EXTENDS Startup

CONSTANTS Given, GivenValue, MaxFlags

VARIABLES stage, given

INSTANCE Build

FirmwareInit == BuildInit /\ Reset

FirmwareNext ==
  \/ BuildNext /\ UNCHANGED <<initVars, poolVars, runVars, panic>>
  \/ stage = "linked" /\ Next /\ UNCHANGED <<stage, given>>

FirmwareSpec ==
  /\ FirmwareInit /\ [][FirmwareNext]_<<stage, given, vars>>
  /\ Fairness
================================================================================
