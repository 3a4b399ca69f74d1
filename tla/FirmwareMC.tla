-------------------------------- MODULE FirmwareMC --------------------------------
(***************************************************************************)
(* An instance of Firmware for TLC.                                        *)
(***************************************************************************)
EXTENDS Firmware

\* Any setting of the header, the removed ones included.
AnySetting == DOMAIN Values(<<>>) \cup Removed

\* Less than any default, off, on, and more than a byte.
SomeNumbers == {-1, 0, 1, 300}
================================================================================
