----------------------------- MODULE SequenceFilter -----------------------------
(***************************************************************************)
(* A sequence without some element: what ble_npl_eventq_remove leaves of a *)
(* queue.  SequencesExt has it too, as Remove; it is defined here by a     *)
(* recursive function, which can be reasoned about.                        *)
(***************************************************************************)
EXTENDS Naturals, Sequences

\* s without e.  The function gives what is left of the last n elements.
Without(s, e) ==
  LET left[n \in 0..Len(s)] ==
        IF n = 0 THEN <<>>
        ELSE LET x == s[Len(s) + 1 - n]
             IN  (IF x = e THEN <<>> ELSE <<x>>) \o left[n - 1]
  IN  left[Len(s)]
================================================================================
