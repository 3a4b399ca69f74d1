-------------------------------- MODULE NplTime --------------------------------
(***************************************************************************)
(* Time in the porting layer: ble_npl_time_t is the low 32 bits of the     *)
(* 64-bit tick count of embassy's time driver (nimble_npl_os.h:28-31).     *)
(* The conversions go through embassy's 64-bit Instant, which rounds down, *)
(* and keep the low 32 bits of the result.                                 *)
(***************************************************************************)
EXTENDS Integers

CONSTANTS
  TickHz,   \* ticks in a second (32768 on this chip)
  Mod       \* how many values ble_npl_time_t has (2^32)

ASSUME TimeAssumption ==
  /\ TickHz \in Nat \ {0}
  /\ Mod \in Nat \ {0}

Low(t) == t % Mod

MsToTicks(ms) == Low((ms * TickHz) \div 1000)

TicksToMs(ticks) == Low((ticks * 1000) \div TickHz)

\* ble_npl_callout_remaining_ticks: the operands are not in the order of its name.
RemainingTicks(expires, time) == Low(time - expires)
================================================================================
