----------------------------- MODULE CommandService -----------------------------
(***************************************************************************)
(* What NimbleController::exec promises the host that calls it             *)
(* (controller.rs:192-260, 376-460): a call either fails before the        *)
(* controller sees its command, or the controller executes the command,    *)
(* answers it once, and the call returns that answer.  The controller      *)
(* never has two commands at a time.  A caller may give up while it waits  *)
(* for its turn.  HciController implements this.                           *)
(***************************************************************************)
CONSTANT Call   \* the calls of exec, one command each

VARIABLE phase  \* how far each call has come: "idle", "waiting" for its turn,
                \* "submitted", "answered", "returned", "failed" or "dropped"

\* The command is with the controller, or its answer is on the way back.
Outstanding(c) == phase[c] \in {"submitted", "answered"}

Init == phase = [c \in Call |-> "idle"]

Move(c, from, to) ==
  /\ phase[c] = from
  /\ phase' = [phase EXCEPT ![c] = to]

Begin(c) == Move(c, "idle", "waiting")

Submit(c) ==
  /\ \A d \in Call : ~Outstanding(d)
  /\ Move(c, "waiting", "submitted")

Fail(c) ==
  /\ \A d \in Call : ~Outstanding(d)
  /\ Move(c, "waiting", "failed")

GiveUp(c) == Move(c, "waiting", "dropped")

Answer(c) == Move(c, "submitted", "answered")

Return(c) == Move(c, "answered", "returned")

Next ==
  \E c \in Call :
    Begin(c) \/ Submit(c) \/ Fail(c) \/ GiveUp(c) \/ Answer(c) \/ Return(c)

Spec == Init /\ [][Next]_phase
================================================================================
