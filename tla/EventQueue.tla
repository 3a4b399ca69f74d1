------------------------------- MODULE EventQueue -------------------------------
(***************************************************************************)
(* One NimBLE event queue of the embassy port layer (ble_npl_eventq_put,   *)
(* _get and _remove), used by the thread that runs the executor and by     *)
(* interrupt handlers that preempt it.                                     *)
(*                                                                         *)
(* A queue is a channel of capacity 16 plus a counter `len` beside it, and *)
(* each event carries a flag `queued`.  The channel protects itself with a *)
(* critical section of the critical-section crate; `len` and `queued` are  *)
(* plain fields, so an increment is a load and a store and an interrupt    *)
(* may come between them.                                                  *)
(*                                                                         *)
(* Contexts are numbered by priority: 0 is the thread, 1..Isr are          *)
(* interrupt levels.  A context takes steps only while no higher one is in *)
(* the middle of an operation, which is exactly preemption with handlers   *)
(* that run to completion on one core.                                     *)
(***************************************************************************)
EXTENDS Integers, Sequences, FiniteSets, SequenceFilter

CONSTANTS
  Event,          \* the ble_npl_event structs in use
  NoEvent,        \* a null event pointer
  Isr,            \* number of interrupt priority levels that use the queue
  Putters,        \* the contexts that put each event
  ChecksQueued,   \* do callers test ble_npl_event_is_queued before a put?
  Removes,        \* does the thread call ble_npl_eventq_remove?
  Unmasked,       \* interrupts the channel's critical section leaves enabled
  Cap,            \* capacity of the channel (16)
  LenMod,         \* number of values of `len` (256, a u8)
  OverflowChecks  \* are arithmetic overflows checked (a debug build)?

Thread == 0
Ctx == 0..Isr

ASSUME ConstantsAssumption ==
  /\ IsFiniteSet(Event)
  /\ NoEvent \notin Event
  /\ Isr \in Nat
  /\ Putters \in [Event -> SUBSET Ctx]
  /\ {ChecksQueued, Removes, OverflowChecks} \subseteq BOOLEAN
  /\ Unmasked \subseteq Ctx
  /\ Cap \in Nat \ {0}
  /\ LenMod \in Nat /\ LenMod > Cap

VARIABLES
  chan,      \* contents of the channel, oldest first
  borrower,  \* context inside an operation of the channel, -1 if none
  len,       \* (*evq).len
  queued,    \* the `queued` flag of every event
  pc,        \* where each context is in its operation
  arg,       \* the event each context operates on
  reg,       \* the value of len each context has loaded
  todo,      \* iterations left in ble_npl_eventq_remove
  primask,   \* are all interrupts disabled (cs_internal)?
  panic      \* why the program stopped, "no" while it runs

vars == <<chan, borrower, len, queued, pc, arg, reg, todo, primask, panic>>

InChan(e) == \E i \in 1..Len(chan) : chan[i] = e

Nobody == -1

Init ==
  /\ chan = <<>>
  /\ borrower = Nobody
  /\ len = 0
  /\ queued = [e \in Event |-> FALSE]
  /\ pc = [p \in Ctx |-> "idle"]
  /\ arg = [p \in Ctx |-> NoEvent]
  /\ reg = [p \in Ctx |-> 0]
  /\ todo = 0
  /\ primask = FALSE
  /\ panic = "no"
--------------------------------------------------------------------------------
(***************************************************************************)
(* Scheduling.                                                             *)
(***************************************************************************)
\* Context p has the processor: every higher priority is between operations.
Running(p) == \A h \in Ctx : h > p => pc[h] = "idle"

\* Context p may begin an operation.  An interrupt is taken only while the
\* port's own critical section is not held, and while the channel is in its
\* critical section only if that leaves the interrupt enabled.
MayBegin(p) ==
  /\ pc[p] = "idle"
  /\ Running(p)
  /\ p # Thread => ~primask /\ (borrower = Nobody \/ p \in Unmasked)

\* Context p goes on with its operation.
At(p, label) == pc[p] = label /\ Running(p)

Goto(p, label) == pc' = [pc EXCEPT ![p] = label]

Panic(why) == panic' = why

\* Mutated: the counter does not wrap.
StoreLenUnbounded(n) == len' = n /\ UNCHANGED panic

\* The store half of `len += 1` or `len -= 1`: a u8 that wraps, unless the
\* build checks arithmetic.
StoreLen(n) ==
  /\ len' = n % LenMod
  /\ panic' = IF OverflowChecks /\ n \notin 0..(LenMod - 1) THEN "overflow"
                                                           ELSE panic

\* Entering the channel: its state is in a RefCell, and borrowing it twice
\* panics.
Borrow(p) ==
  \/ /\ borrower = Nobody
     /\ borrower' = p
     /\ UNCHANGED panic
  \/ /\ borrower # Nobody
     /\ Panic("reentered")
     /\ UNCHANGED borrower
--------------------------------------------------------------------------------
(***************************************************************************)
(* ble_npl_eventq_put, in any context.                                     *)
(***************************************************************************)
\* Mutated: the caller does not test the flag.
PutCallUnchecked(p, e) ==
  /\ MayBegin(p)
  /\ p \in Putters[e]
  /\ arg' = [arg EXCEPT ![p] = e]
  /\ Goto(p, "mark")
  /\ UNCHANGED <<chan, borrower, len, queued, reg, todo, primask, panic>>

PutCall(p, e) ==
  /\ MayBegin(p)
  /\ p \in Putters[e]
  /\ ChecksQueued => ~queued[e]
  /\ arg' = [arg EXCEPT ![p] = e]
  /\ Goto(p, "mark")
  /\ UNCHANGED <<chan, borrower, len, queued, reg, todo, primask, panic>>

PutMark(p) ==
  /\ At(p, "mark")
  /\ queued' = [queued EXCEPT ![arg[p]] = TRUE]
  /\ Goto(p, "load")
  /\ UNCHANGED <<chan, borrower, len, arg, reg, todo, primask, panic>>

PutLoad(p) ==
  /\ At(p, "load")
  /\ reg' = [reg EXCEPT ![p] = len]
  /\ Goto(p, "store")
  /\ UNCHANGED <<chan, borrower, len, queued, arg, todo, primask, panic>>

PutStore(p) ==
  /\ At(p, "store")
  /\ StoreLen(reg[p] + 1)
  /\ Goto(p, "send")
  /\ UNCHANGED <<chan, borrower, queued, arg, reg, todo, primask>>

PutSend(p) ==
  /\ At(p, "send")
  /\ Borrow(p)
  /\ Goto(p, "sending")
  /\ UNCHANGED <<chan, len, queued, arg, reg, todo, primask>>

\* Mutated: the newest event goes first.
PutSentFirst(p) ==
  /\ At(p, "sending")
  /\ borrower' = Nobody
  /\ Goto(p, "idle")
  /\ \/ Len(chan) < Cap /\ chan' = <<arg[p]>> \o chan
     \/ Len(chan) >= Cap /\ UNCHANGED chan
  /\ UNCHANGED <<len, queued, arg, reg, todo, primask, panic>>

PutSent(p) ==
  /\ At(p, "sending")
  /\ borrower' = Nobody
  /\ Goto(p, "idle")
  /\ \/ Len(chan) < Cap /\ chan' = Append(chan, arg[p]) /\ UNCHANGED panic
     \/ Len(chan) >= Cap /\ Panic("full") /\ UNCHANGED chan
  /\ UNCHANGED <<len, queued, arg, reg, todo, primask>>
--------------------------------------------------------------------------------
(***************************************************************************)
(* ble_npl_eventq_get, by the one task that serves the queue.  Each poll   *)
(* of the channel takes the oldest event, or finds none and returns to the *)
(* executor (Pending, or null once the timeout has won).                   *)
(***************************************************************************)
GetPoll ==
  /\ MayBegin(Thread)
  /\ borrower' = Thread
  /\ Goto(Thread, "receive")
  /\ UNCHANGED <<chan, len, queued, arg, reg, todo, primask, panic>>

GetReceive ==
  /\ At(Thread, "receive")
  /\ borrower' = Nobody
  /\ \/ /\ chan = <<>>
        /\ Goto(Thread, "idle")
        /\ UNCHANGED <<chan, arg>>
     \/ /\ chan # <<>>
        /\ arg' = [arg EXCEPT ![Thread] = Head(chan)]
        /\ chan' = Tail(chan)
        /\ Goto(Thread, "clear")
  /\ UNCHANGED <<len, queued, reg, todo, primask, panic>>

\* Mutated: the flag is not reset.
GetClearNothing ==
  /\ At(Thread, "clear")
  /\ Goto(Thread, "get_load")
  /\ UNCHANGED <<chan, borrower, len, queued, arg, reg, todo, primask, panic>>

GetClear ==
  /\ At(Thread, "clear")
  /\ queued' = [queued EXCEPT ![arg[Thread]] = FALSE]
  /\ Goto(Thread, "get_load")
  /\ UNCHANGED <<chan, borrower, len, arg, reg, todo, primask, panic>>

GetLoad ==
  /\ At(Thread, "get_load")
  /\ reg' = [reg EXCEPT ![Thread] = len]
  /\ Goto(Thread, "get_store")
  /\ UNCHANGED <<chan, borrower, len, queued, arg, todo, primask, panic>>

\* Mutated: the flag is cleared after the count.
GetStoreAndClear ==
  /\ At(Thread, "get_store")
  /\ StoreLen(reg[Thread] - 1)
  /\ queued' = [queued EXCEPT ![arg[Thread]] = FALSE]
  /\ Goto(Thread, "idle")
  /\ UNCHANGED <<chan, borrower, arg, reg, todo, primask>>

GetStore ==
  /\ At(Thread, "get_store")
  /\ StoreLen(reg[Thread] - 1)
  /\ Goto(Thread, "idle")
  /\ UNCHANGED <<chan, borrower, queued, arg, reg, todo, primask>>
--------------------------------------------------------------------------------
(***************************************************************************)
(* ble_npl_eventq_remove, by the thread.  All of it runs with interrupts   *)
(* disabled, so the channel's own borrow cannot be observed and is left    *)
(* out; putting a pulled event back always finds the slot it came from.    *)
(***************************************************************************)
RemoveCall(e) ==
  /\ Removes
  /\ MayBegin(Thread)
  /\ primask' = TRUE
  /\ arg' = [arg EXCEPT ![Thread] = e]
  /\ todo' = len
  /\ Goto(Thread, "remove")
  /\ UNCHANGED <<chan, borrower, len, queued, reg, panic>>

\* Mutated: an entry is dropped without being counted.
RemoveStepUncounted ==
  /\ At(Thread, "remove")
  /\ todo > 0
  /\ todo' = todo - 1
  /\ chan # <<>>
  /\ IF Head(chan) = arg[Thread]
       THEN /\ chan' = Tail(chan)
            /\ queued' = [queued EXCEPT ![arg[Thread]] = FALSE]
       ELSE chan' = Append(Tail(chan), Head(chan)) /\ UNCHANGED queued
  /\ UNCHANGED <<borrower, len, pc, arg, reg, primask, panic>>

\* Mutated: the loop ends at the first match.
RemoveStepFirst ==
  /\ At(Thread, "remove")
  /\ todo > 0
  /\ chan # <<>>
  /\ IF Head(chan) = arg[Thread]
       THEN /\ todo' = 0
            /\ chan' = Tail(chan)
            /\ queued' = [queued EXCEPT ![arg[Thread]] = FALSE]
            /\ StoreLen(len - 1)
       ELSE /\ todo' = todo - 1
            /\ chan' = Append(Tail(chan), Head(chan))
            /\ UNCHANGED <<queued, len, panic>>
  /\ UNCHANGED <<borrower, pc, arg, reg, primask>>

\* One iteration pulls the oldest entry and either drops it (with its flag and
\* its count) or puts it back at the end.
RemoveStep ==
  /\ At(Thread, "remove")
  /\ todo > 0
  /\ todo' = todo - 1
  /\ LET e == arg[Thread] IN
     \/ /\ chan = <<>>
        /\ Panic("unwrap")
        /\ UNCHANGED <<chan, len, queued>>
     \/ /\ chan # <<>> /\ Head(chan) = e
        /\ chan' = Tail(chan)
        /\ queued' = [queued EXCEPT ![e] = FALSE]
        /\ StoreLen(len - 1)
     \/ /\ chan # <<>> /\ Head(chan) # e
        /\ chan' = Append(Tail(chan), Head(chan))
        /\ UNCHANGED <<len, queued, panic>>
  /\ UNCHANGED <<borrower, pc, arg, reg, primask>>

RemoveReturn ==
  /\ At(Thread, "remove")
  /\ todo = 0
  /\ primask' = FALSE
  /\ Goto(Thread, "idle")
  /\ UNCHANGED <<chan, borrower, len, queued, arg, reg, todo, panic>>
--------------------------------------------------------------------------------
PutStep(p) ==
  PutMark(p) \/ PutLoad(p) \/ PutStore(p) \/ PutSend(p) \/ PutSent(p)

GetStep == GetReceive \/ GetClear \/ GetLoad \/ GetStore

RemoveLoop == RemoveStep \/ RemoveReturn

\* A panic halts the system: no step is taken after it.
Next ==
  /\ panic = "no"
  /\ \/ \E p \in Ctx : PutStep(p) \/ \E e \in Event : PutCall(p, e)
     \/ GetPoll \/ GetStep
     \/ RemoveLoop \/ \E e \in Event : RemoveCall(e)

Spec == Init /\ [][Next]_vars

(***************************************************************************)
(* A handler that has begun runs to its end.  The serving task is polled   *)
(* again and again (it yields to the executor and is woken by the          *)
(* channel), but interrupts may hold it up any number of times: strong     *)
(* fairness says only that interrupts do not take all of the processor.    *)
(***************************************************************************)
Fairness ==
  /\ \A p \in Ctx : SF_vars(panic = "no" /\ PutStep(p))
  /\ SF_vars(panic = "no" /\ GetPoll)
  /\ SF_vars(panic = "no" /\ GetStep)
  /\ SF_vars(panic = "no" /\ RemoveLoop)

FairSpec == Spec /\ Fairness
--------------------------------------------------------------------------------
TypeOK ==
  /\ chan \in Seq(Event) /\ Len(chan) <= Cap
  /\ borrower \in Ctx \cup {Nobody}
  /\ len \in 0..(LenMod - 1)
  /\ queued \in [Event -> BOOLEAN]
  /\ pc \in [Ctx -> {"idle", "mark", "load", "store", "send", "sending",
                     "receive", "clear", "get_load", "get_store", "remove"}]
  /\ \A p \in Ctx : pc[p] # "idle" /\ pc[p] # "receive" => arg[p] \in Event
  /\ arg \in [Ctx -> Event \cup {NoEvent}]
  /\ reg \in [Ctx -> 0..(LenMod - 1)]
  /\ todo \in 0..(LenMod - 1)
  /\ primask \in BOOLEAN
  /\ panic \in {"no", "full", "reentered", "overflow", "unwrap"}

\* No context is in the middle of an operation.
Quiescent == \A p \in Ctx : pc[p] = "idle"

--------------------------------------------------------------------------------
(***************************************************************************)
(* The properties below marked "discipline" hold when callers keep to two  *)
(* rules the port does not enforce: each event is put by one context       *)
(* (besides the thread's get and remove), and only after a test of its     *)
(* queued flag.                                                            *)
(***************************************************************************)

\* Discipline.  No event is on the queue twice: a put that is interrupted, or
\* that interrupts ble_npl_eventq_get between taking the event (embassy.rs:89)
\* and clearing its flag (:102), never enqueues the event a second time.
NoDuplicate ==
  \A i, j \in 1..Len(chan) : chan[i] = chan[j] => i = j

\* Discipline.  The queued flag can be trusted: an event on the queue has it
\* set, whatever is in progress, and when nothing is in progress an event that
\* has it set is on the queue, so that no event is stranded with its flag up
\* and every later put suppressed (embassy.rs:102, 113, 132).
FlagMatchesChannel ==
  \A e \in Event :
    /\ InChan(e) => queued[e]
    /\ Quiescent /\ queued[e] => InChan(e)

\* Discipline.  The panic of ble_npl_eventq_put (embassy.rs:115-117) cannot
\* happen while there are no more events than slots.
NoOverflow == panic # "full"

\* With no interrupts, the count that ble_npl_eventq_remove iterates over is
\* the number of entries whenever no operation is in progress, even when an
\* event is put twice.
LenExact == Quiescent /\ panic = "no" => len = Len(chan)

\* The queue its callers see.  During ble_npl_eventq_remove the first entries
\* of the channel are still to be looked at and the rest have been put back.
Abstract ==
  IF pc[Thread] = "remove"
    THEN SubSeq(chan, todo + 1, Len(chan)) \o Without(SubSeq(chan, 1, todo), arg[Thread])
    ELSE chan

Fifo == INSTANCE EventFifo WITH q <- Abstract

\* The channel with its rotation in ble_npl_eventq_remove is a FIFO queue from
\* which an event is removed in one step, and the others keep their order
\* (embassy.rs:123-144).
ImplementsFifo == Fifo!Spec

\* An event that was put is taken or removed in the end, and may be put again,
\* although interrupts put events at any moment and the counter drifts; only a
\* panic ends the service (embassy.rs:84-104, 123-144).
Served == \A e \in Event : queued[e] ~> (~queued[e] \/ panic # "no")

\* The assertion behind the unwrap of ble_npl_eventq_remove: the counter it
\* iterates over never exceeds the entries of the channel (embassy.rs:128-129).
RemoveFindsEntries == panic # "unwrap"
================================================================================
