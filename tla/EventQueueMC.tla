----------------------------- MODULE EventQueueMC -----------------------------
(***************************************************************************)
(* Instances of EventQueue for TLC.                                        *)
(***************************************************************************)
EXTENDS EventQueue

CONSTANTS e1, e2, e3   \* events, as model values

Two == {e1, e2}
Three == {e1, e2, e3}

\* Every context may put every event.
Anyone == [e \in Two |-> Ctx]

\* One owner for each event: the thread and two interrupt levels.
OneOwner == [e \in Event |-> CASE e = e1 -> {Thread} [] e = e2 -> {1} [] e = e3 -> {2}]

\* Only the interrupt puts: the thread's get is all it can meet.
FromInterrupt == [e \in Event |-> {1}]

OnlyHighest == {Isr}
================================================================================
