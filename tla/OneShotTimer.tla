------------------------------ MODULE OneShotTimer ------------------------------
(***************************************************************************)
(* What a callout promises: once reset it expires at its time and not      *)
(* before, unless it is stopped, and its event is handed out once.         *)
(* Callout implements this for callouts that are used with care.           *)
(***************************************************************************)
EXTENDS Naturals

CONSTANTS
  Timer,   \* the timers
  Ticks    \* the delays they are set to

VARIABLES
  now,     \* the clock
  at,      \* when each timer expires
  phase    \* "idle", "armed", or "expired" with its event not served yet

vars == <<now, at, phase>>

Init ==
  /\ now = 0
  /\ at = [c \in Timer |-> 0]
  /\ phase = [c \in Timer |-> "idle"]

Move(c, from, to) ==
  /\ phase[c] = from
  /\ phase' = [phase EXCEPT ![c] = to]

Tick == now' = now + 1 /\ UNCHANGED <<at, phase>>

Reset(c, t) ==
  /\ Move(c, "idle", "armed")
  /\ at' = [at EXCEPT ![c] = now + t]
  /\ UNCHANGED now

Stop(c) == Move(c, "armed", "idle") /\ UNCHANGED <<now, at>>

Expire(c) == now >= at[c] /\ Move(c, "armed", "expired") /\ UNCHANGED <<now, at>>

Serve(c) == Move(c, "expired", "idle") /\ UNCHANGED <<now, at>>

Next ==
  \/ Tick
  \/ \E c \in Timer : Stop(c) \/ Expire(c) \/ Serve(c) \/ \E t \in Ticks : Reset(c, t)

Spec == Init /\ [][Next]_vars
================================================================================
