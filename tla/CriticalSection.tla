---------------------------- MODULE CriticalSection ----------------------------
(***************************************************************************)
(* The two critical sections of the nRF5x driver (drivers/nrf5x.rs), used  *)
(* by a thread and by interrupt handlers of one core:                      *)
(*   internal  cs_internal, NimBLE's own: PRIMASK masks every interrupt;   *)
(*   impl      cs_impl, behind the critical-section crate: the NVIC        *)
(*             disables every interrupt but those NimBLE reserves.         *)
(* The sections nest in any order, within a context and across contexts.   *)
(* Each instruction that reads or writes shared state is a step, and an    *)
(* interrupt may come between any two.                                     *)
(***************************************************************************)
EXTENDS Naturals, Sequences

CONSTANTS
  Isr,       \* number of interrupts; a higher one preempts a lower one
  Reserved,  \* RADIO, RTC0 and RNG
  MaxNest    \* bound on the sections a context holds at once

Thread == 0
Irq == 1..Isr
Ctx == 0..Isr

ASSUME ConstantsAssumption ==
  /\ Isr \in Nat
  /\ Reserved \subseteq Irq
  /\ MaxNest \in Nat \ {0}

VARIABLES
  primask,     \* PRIMASK: are all interrupts masked?
  enabled,     \* interrupts the NVIC has enabled
  intFlag,     \* cs_internal::CS_FLAG
  implFlag,    \* cs_impl::CS_FLAG
  csMask,      \* cs_impl::CS_MASK
  active,      \* contexts that have begun and not returned
  pc,          \* where a context is in an acquire or a release
  doing,       \* which one: "acquire" or "release" of which section
  saved,       \* what it read from PRIMASK: were interrupts enabled?
  inInternal,  \* what it read from cs_internal::CS_FLAG
  held         \* the sections a context holds, outermost first, each with the
               \* value its acquire returned

hw   == <<primask, enabled>>
regs == <<saved, inInternal>>
vars == <<hw, intFlag, implFlag, csMask, active, pc, doing, regs, held>>

Init ==
  /\ primask = FALSE
  /\ enabled = Irq
  /\ intFlag = FALSE
  /\ implFlag = FALSE
  /\ csMask = {}
  /\ active = {Thread}
  /\ pc = [p \in Ctx |-> "run"]
  /\ doing = [p \in Ctx |-> <<"none", "none">>]
  /\ saved = [p \in Ctx |-> FALSE]
  /\ inInternal = [p \in Ctx |-> FALSE]
  /\ held = [p \in Ctx |-> <<>>]

\* The context that has the processor.
Running(p) == p \in active /\ \A h \in active : h <= p

At(p, label) == Running(p) /\ pc[p] = label

Goto(p, label) == pc' = [pc EXCEPT ![p] = label]

Doing(p, op, kind) == doing' = [doing EXCEPT ![p] = <<op, kind>>]

Top(p) == held[p][Len(held[p])]

\* Mutated: a release does not give its section up.
FinishKeeps(p, token) ==
  /\ Goto(p, "run")
  /\ held' = [held EXCEPT ![p] = Append(@, [kind |-> doing[p][2], token |-> token])]

\* The operation ends: the section is held, with the value returned, or not
\* any more.
Finish(p, token) ==
  /\ Goto(p, "run")
  /\ held' = [held EXCEPT ![p] =
       IF doing[p][1] = "acquire"
         THEN Append(@, [kind |-> doing[p][2], token |-> token])
         ELSE SubSeq(@, 1, Len(@) - 1)]
--------------------------------------------------------------------------------
(***************************************************************************)
(* Interrupts.                                                             *)
(***************************************************************************)
Interrupt(h) ==
  /\ ~primask /\ h \in enabled
  /\ \A p \in active : p < h
  /\ active' = active \cup {h}
  /\ UNCHANGED <<hw, intFlag, implFlag, csMask, pc, doing, regs, held>>

\* A handler returns when it has released what it acquired.
ReturnFromInterrupt(h) ==
  /\ At(h, "run")
  /\ held[h] = <<>>
  /\ active' = active \ {h}
  /\ UNCHANGED <<hw, intFlag, implFlag, csMask, pc, doing, regs, held>>
--------------------------------------------------------------------------------
(***************************************************************************)
(* cs_internal::acquire and release.  with_fn, in which cs_impl does its   *)
(* work, is an acquire, the work and a release.                            *)
(***************************************************************************)
AcquireInternal(p) ==
  /\ At(p, "run")
  /\ Len(held[p]) < MaxNest
  /\ Doing(p, "acquire", "internal")
  /\ Goto(p, "mrs")
  /\ UNCHANGED <<hw, intFlag, implFlag, csMask, active, regs, held>>

\* Mutated: the caller is always told to end the section.
ReadPrimaskActive(p) ==
  /\ At(p, "mrs")
  /\ saved' = [saved EXCEPT ![p] = TRUE]
  /\ Goto(p, "cpsid")
  /\ UNCHANGED <<hw, intFlag, implFlag, csMask, active, doing, inInternal, held>>

ReadPrimask(p) ==
  /\ At(p, "mrs")
  /\ saved' = [saved EXCEPT ![p] = ~primask]
  /\ Goto(p, "cpsid")
  /\ UNCHANGED <<hw, intFlag, implFlag, csMask, active, doing, inInternal, held>>

DisableInterrupts(p) ==
  /\ At(p, "cpsid")
  /\ primask' = TRUE
  /\ Goto(p, "set")
  /\ UNCHANGED <<enabled, intFlag, implFlag, csMask, active, doing, regs, held>>

\* Mutated: a nested acquire is told what the comment at embassy.rs:400-402 says.
SetFlagAsCommented(p) ==
  /\ At(p, "set")
  /\ intFlag' = TRUE
  /\ IF doing[p][2] = "internal" THEN Finish(p, ~saved[p])
                                 ELSE Goto(p, "work") /\ UNCHANGED held
  /\ UNCHANGED <<hw, implFlag, csMask, active, doing, regs>>

SetFlag(p) ==
  /\ At(p, "set")
  /\ intFlag' = TRUE
  /\ IF doing[p][2] = "internal" THEN Finish(p, saved[p])
                                 ELSE Goto(p, "work") /\ UNCHANGED held
  /\ UNCHANGED <<hw, implFlag, csMask, active, doing, regs>>

ReleaseInternal(p) ==
  /\ At(p, "run")
  /\ held[p] # <<>> /\ Top(p).kind = "internal"
  /\ Doing(p, "release", "internal")
  /\ saved' = [saved EXCEPT ![p] = Top(p).token]
  /\ Goto(p, "clear")
  /\ UNCHANGED <<hw, intFlag, implFlag, csMask, active, inInternal, held>>

\* Mutated: a nested release clears the flag too.
ClearFlagAlways(p) ==
  /\ At(p, "clear")
  /\ intFlag' = FALSE
  /\ IF saved[p] THEN Goto(p, "cpsie") /\ UNCHANGED held
                 ELSE Finish(p, FALSE)
  /\ UNCHANGED <<hw, implFlag, csMask, active, doing, regs>>

\* A nested release leaves everything to the outer one.
ClearFlag(p) ==
  /\ At(p, "clear")
  /\ IF saved[p] THEN intFlag' = FALSE /\ Goto(p, "cpsie") /\ UNCHANGED held
                 ELSE Finish(p, FALSE) /\ UNCHANGED intFlag
  /\ UNCHANGED <<hw, implFlag, csMask, active, doing, regs>>

EnableInterrupts(p) ==
  /\ At(p, "cpsie")
  /\ primask' = FALSE
  /\ Finish(p, FALSE)
  /\ UNCHANGED <<enabled, intFlag, implFlag, csMask, active, doing, regs>>
--------------------------------------------------------------------------------
(***************************************************************************)
(* cs_impl::acquire and release.                                           *)
(***************************************************************************)
\* Loading CS_FLAG tells whether the section is nested, and nothing is done if
\* it is.
AcquireImpl(p) ==
  /\ At(p, "run")
  /\ Len(held[p]) < MaxNest
  /\ IF implFlag
       THEN /\ held' = [held EXCEPT ![p] = Append(@, [kind |-> "impl", token |-> TRUE])]
            /\ UNCHANGED <<pc, doing>>
       ELSE /\ Doing(p, "acquire", "impl")
            /\ Goto(p, "load")
            /\ UNCHANGED held
  /\ UNCHANGED <<hw, intFlag, implFlag, csMask, active, regs>>

\* Mutated: the nested section is released like the outer one.
ReleaseImplAlways(p) ==
  /\ At(p, "run")
  /\ held[p] # <<>> /\ Top(p).kind = "impl"
  /\ Doing(p, "release", "impl")
  /\ Goto(p, "load")
  /\ UNCHANGED <<hw, intFlag, implFlag, csMask, active, regs, held>>

ReleaseImpl(p) ==
  /\ At(p, "run")
  /\ held[p] # <<>> /\ Top(p).kind = "impl"
  /\ IF Top(p).token
       THEN /\ held' = [held EXCEPT ![p] = SubSeq(@, 1, Len(@) - 1)]
            /\ UNCHANGED <<pc, doing>>
       ELSE /\ Doing(p, "release", "impl")
            /\ Goto(p, "load")
            /\ UNCHANGED held
  /\ UNCHANGED <<hw, intFlag, implFlag, csMask, active, regs>>

LoadInternalFlag(p) ==
  /\ At(p, "load")
  /\ inInternal' = [inInternal EXCEPT ![p] = intFlag]
  /\ Goto(p, "mrs")
  /\ UNCHANGED <<hw, intFlag, implFlag, csMask, active, doing, saved, held>>

\* The closures given to with_fn; inside an internal section they do nothing.
\* Mutated: the acquiring one does its work all the same.
MaskAlways(p) ==
  /\ implFlag' = TRUE
  /\ csMask' = enabled
  /\ enabled' = enabled \cap Reserved

Mask(p) ==
  IF inInternal[p] THEN UNCHANGED <<implFlag, csMask, enabled>>
  ELSE /\ implFlag' = TRUE
       /\ csMask' = enabled
       /\ enabled' = enabled \cap Reserved

Unmask(p) ==
  IF inInternal[p] THEN UNCHANGED <<implFlag, csMask, enabled>>
  ELSE /\ implFlag' = FALSE
       /\ enabled' = enabled \cup (csMask \ Reserved)
       /\ UNCHANGED csMask

Work(p) ==
  /\ At(p, "work")
  /\ IF doing[p][1] = "acquire" THEN Mask(p) ELSE Unmask(p)
  /\ Goto(p, "clear")
  /\ UNCHANGED <<primask, intFlag, active, doing, regs, held>>
--------------------------------------------------------------------------------
Step(p) ==
  \/ AcquireInternal(p) \/ ReadPrimask(p) \/ DisableInterrupts(p) \/ SetFlag(p)
  \/ ReleaseInternal(p) \/ ClearFlag(p) \/ EnableInterrupts(p)
  \/ AcquireImpl(p) \/ ReleaseImpl(p) \/ LoadInternalFlag(p) \/ Work(p)

Next ==
  \/ \E p \in Ctx : Step(p)
  \/ \E h \in Irq : Interrupt(h) \/ ReturnFromInterrupt(h)

Spec == Init /\ [][Next]_vars
--------------------------------------------------------------------------------
Kinds == {"internal", "impl"}

TypeOK ==
  /\ {primask, intFlag, implFlag} \subseteq BOOLEAN
  /\ enabled \subseteq Irq /\ csMask \subseteq Irq
  /\ active \subseteq Ctx /\ Thread \in active
  /\ pc \in [Ctx -> {"run", "mrs", "cpsid", "set", "work", "clear", "cpsie", "load"}]
  /\ doing \in [Ctx -> {"none", "acquire", "release"} \X (Kinds \cup {"none"})]
  /\ saved \in [Ctx -> BOOLEAN] /\ inInternal \in [Ctx -> BOOLEAN]
  /\ held \in [Ctx -> Seq([kind : Kinds, token : BOOLEAN])]
  /\ \A p \in Ctx : Len(held[p]) <= MaxNest

Holds(p, kind) == \E i \in 1..Len(held[p]) : held[p][i].kind = kind

\* No interrupt runs inside an internal section, however sections nest in it:
\* NimBLE's own state is safe from all of them (nrf5x.rs:44-46, 63-88).
InternalExcludesAll ==
  \A p, h \in active : p < h => ~Holds(p, "internal")

\* Inside a section of the critical-section crate only reserved interrupts run,
\* also once an inner section has been released, by the same context or by a
\* reserved handler (nrf5x.rs:129-165).
ImplExcludesOthers ==
  \A p, h \in active : p < h /\ h \notin Reserved => ~Holds(p, "impl")

\* ble_npl_hw_is_in_critical answers for the caller: it is true exactly when
\* the running context holds an internal section, whatever it has interrupted
\* (embassy.rs:419-421).
InCriticalIsOwn ==
  \A p \in Ctx : At(p, "run") => (intFlag <=> Holds(p, "internal"))

\* Once no section is held or being entered, nothing is masked, both flags are
\* down and every interrupt is enabled again (nrf5x.rs:78-88, 151-165).
Restored ==
  (\A p \in Ctx : held[p] = <<>> /\ pc[p] = "run")
    => ~primask /\ ~intFlag /\ ~implFlag /\ enabled = Irq

\* Of the internal sections a context holds the outermost alone was told to end
\* the masking, so that the inner releases leave it, whatever interrupts came
\* between reading PRIMASK and setting it (embassy.rs:404-417, nrf5x.rs:63-88).
OutermostEnds ==
  \A p \in Ctx : \A j \in 1..Len(held[p]) :
    held[p][j].kind = "internal" =>
      (held[p][j].token <=> \A i \in 1..(j - 1) : held[p][i].kind # "internal")
================================================================================
