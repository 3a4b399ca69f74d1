------------------------------- MODULE EventFifo -------------------------------
(***************************************************************************)
(* What an event queue of the NimBLE porting layer promises its callers: a *)
(* bounded first-in first-out queue of events, each operation one step.    *)
(* EventQueue (the embassy port, embassy.rs:36-145) is shown to implement  *)
(* it; HciController uses it for the link layer's queue.                   *)
(***************************************************************************)
EXTENDS Naturals, Sequences, SequenceFilter

CONSTANTS
  Event,   \* what may be put on the queue
  Cap      \* how many entries the queue holds

VARIABLE q   \* the entries, oldest first

Init == q = <<>>

\* ble_npl_eventq_put: a new entry goes last.  A full queue refuses it.
Put(e) ==
  /\ Len(q) < Cap
  /\ q' = Append(q, e)

\* ble_npl_eventq_get: the oldest entry leaves.
Get ==
  /\ q # <<>>
  /\ q' = Tail(q)

\* ble_npl_eventq_remove: every entry of e leaves, the others keep their order.
Remove(e) == q' = Without(q, e)

Next ==
  \/ \E e \in Event : Put(e) \/ Remove(e)
  \/ Get

Spec == Init /\ [][Next]_q
================================================================================
