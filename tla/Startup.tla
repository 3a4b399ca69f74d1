--------------------------------- MODULE Startup ---------------------------------
(***************************************************************************)
(* From reset to running tasks: initialize_nimble, the pool of event       *)
(* queues, NimbleController::new, the interrupt handlers and the tasks     *)
(* that serve the queues.                                                  *)
(*                                                                         *)
(* Contexts are numbered by priority.  Context 0 is the thread, where the  *)
(* tasks run; the others are executors in interrupts, which may start      *)
(* things too.  NimBLE's own interrupts come at any moment, once it has    *)
(* installed their handlers.                                               *)
(***************************************************************************)
EXTENDS Naturals

CONSTANTS
  Top,         \* the highest context
  Slots,       \* channels in EQ_POOL (8)
  Extra,       \* queues that other code initialises, each once
  MaxTasks,    \* controller tasks the application makes
  MaxPending   \* events that wait on a queue (bound)

LLQ   == "ll_evq"      \* the link layer's queue
Dflt  == "DEFLT_EVQ"   \* the host's queue
None  == "none"
Queue == {LLQ, Dflt} \cup Extra

ASSUME ConstantsAssumption ==
  /\ Top \in Nat /\ Slots \in Nat /\ MaxTasks \in Nat /\ MaxPending \in Nat
  /\ Extra \cap {LLQ, Dflt, None} = {}

Context == 0..Top
Irq     == {"RADIO", "RNG", "RTC0"}

VARIABLES
  image,        \* what has been built: [controller, host, clock]
  initialized,  \* NIMBLE_INITIALIZED
  inUse,        \* NIMBLE_CONTROLLER_IN_USE
  pc,           \* where each context is in initialize_nimble
  evq,          \* the queue each context initialises
  slot,         \* the slot it looks at
  got,          \* has it taken that slot?
  taken,        \* the slots whose taken flag is set
  ch,           \* the channel of each queue; 0 is the null pointer
  handler,      \* the interrupts with a handler
  returned,     \* has initialize_nimble returned?
  tasks,        \* controller tasks that run
  pending,      \* events that wait on the link layer's and the host's queue
  panic         \* why the system has stopped, or "no"

initVars == <<initialized, inUse, pc, returned>>
poolVars == <<evq, slot, got, taken, ch>>
runVars  == <<handler, tasks, pending>>
vars     == <<image, initVars, poolVars, runVars, panic>>

\* RAM at reset.
Reset ==
  /\ initialized = FALSE /\ inUse = FALSE
  /\ pc = [c \in Context |-> "idle"]
  /\ evq = [c \in Context |-> None]
  /\ slot = [c \in Context |-> 0]
  /\ got = [c \in Context |-> FALSE]
  /\ taken = {}
  /\ ch = [q \in Queue |-> 0]
  /\ handler = {}
  /\ returned = FALSE
  /\ tasks = 0
  /\ pending = [q \in {LLQ, Dflt} |-> 0]
  /\ panic = "no"

Image == [controller : BOOLEAN, host : BOOLEAN, clock : BOOLEAN]

Init == image \in Image /\ Reset

Idle(c) == pc[c] = "idle" /\ evq[c] = None

\* No context of a higher priority is in the middle of something.
Running(c) == panic = "no" /\ \A d \in Context : d > c => Idle(d)

Panic(why) == panic' = why /\ UNCHANGED <<image, initVars, poolVars, runVars>>
Goto(c, l) == pc' = [pc EXCEPT ![c] = l]

\* Put an event on q; a null channel is a fault.
Put(q) ==
  \/ /\ ch[q] = 0
     /\ panic' = "null" /\ UNCHANGED pending
  \/ /\ ch[q] # 0 /\ pending[q] < MaxPending
     /\ pending' = [pending EXCEPT ![q] = @ + 1]
     /\ UNCHANGED panic
--------------------------------------------------------------------------------
(***************************************************************************)
(* ble_npl_eventq_init.                                                    *)
(***************************************************************************)
\* The queue is zeroed and the search begins.
BeginQueue(c, q) ==
  /\ ch' = [ch EXCEPT ![q] = 0]
  /\ evq' = [evq EXCEPT ![c] = q]
  /\ slot' = [slot EXCEPT ![c] = 1]
  /\ UNCHANGED <<got, taken>>

Searching(c) == Running(c) /\ evq[c] # None /\ ~got[c]

\* Mutated: the slot's flag is looked at and not set.
TakeSlotUnmarked(c) ==
  /\ Searching(c)
  /\ slot[c] \in 1..Slots /\ slot[c] \notin taken
  /\ got' = [got EXCEPT ![c] = TRUE]
  /\ UNCHANGED <<image, initVars, evq, slot, taken, ch, runVars, panic>>

\* The compare-and-exchange on a slot's flag succeeds.
TakeSlot(c) ==
  /\ Searching(c)
  /\ slot[c] \in 1..Slots /\ slot[c] \notin taken
  /\ taken' = taken \cup {slot[c]}
  /\ got' = [got EXCEPT ![c] = TRUE]
  /\ UNCHANGED <<image, initVars, evq, slot, ch, runVars, panic>>

\* Mutated: the search does not stop at the last slot.
NextSlotUnbounded(c) ==
  /\ Searching(c)
  /\ slot[c] \in taken \/ slot[c] > Slots
  /\ slot' = [slot EXCEPT ![c] = @ + 1]
  /\ UNCHANGED <<image, initVars, evq, got, taken, ch, runVars, panic>>

\* Mutated: the search tries the same slot again.
NextSlotSame(c) ==
  /\ Searching(c)
  /\ slot[c] \in taken
  /\ UNCHANGED vars

\* It fails, and the search goes on.
NextSlot(c) ==
  /\ Searching(c)
  /\ slot[c] \in taken
  /\ slot' = [slot EXCEPT ![c] = @ + 1]
  /\ UNCHANGED <<image, initVars, evq, got, taken, ch, runVars, panic>>

NoSlot(c) ==
  /\ Searching(c)
  /\ slot[c] > Slots
  /\ Panic("queues")

\* Where initialize_nimble goes on after it, and after the handler of RNG.
AfterQueue(l) == CASE l = "ll" -> "rng" [] l = "dflt" -> "pools" [] OTHER -> l

Assign(c) ==
  /\ Running(c) /\ evq[c] # None /\ got[c]
  /\ ch' = [ch EXCEPT ![evq[c]] = slot[c]]
  /\ evq' = [evq EXCEPT ![c] = None]
  /\ slot' = [slot EXCEPT ![c] = 0]
  /\ got' = [got EXCEPT ![c] = FALSE]
  /\ Goto(c, AfterQueue(pc[c]))
  /\ UNCHANGED <<image, initialized, inUse, returned, taken, runVars, panic>>

\* Other code initialises a queue of its own.
OtherQueue(c, q) ==
  /\ Running(c) /\ Idle(c)
  /\ ch[q] = 0 /\ \A d \in Context : evq[d] # q
  /\ BeginQueue(c, q)
  /\ UNCHANGED <<image, initVars, runVars, panic>>
--------------------------------------------------------------------------------
(***************************************************************************)
(* initialize_nimble.  What the C functions do is external: ble_ll_init    *)
(* initialises the link layer's queue, then has RNG's handler installed;   *)
(* ble_transport_hs_init puts an event on the host's queue                 *)
(* (BLE_HS_AUTO_START); hal_timer_init installs RTC0's handler if the      *)
(* timer is compiled.                                                      *)
(***************************************************************************)
\* Mutated: nothing keeps it from being called twice.
InitializeAgain(c) ==
  /\ Running(c) /\ Idle(c)
  /\ initialized' = TRUE /\ Goto(c, "ll")
  /\ UNCHANGED <<image, inUse, returned, poolVars, runVars, panic>>

Initialize(c) ==
  /\ Running(c) /\ Idle(c)
  /\ \/ initialized /\ Panic("initialized")
     \/ /\ ~initialized
        /\ initialized' = TRUE /\ Goto(c, "ll")
        /\ UNCHANGED <<image, inUse, returned, poolVars, runVars, panic>>

At(c, l) == Running(c) /\ pc[c] = l /\ evq[c] = None

\* A part of the firmware that has not been built is passed over.
InitLinkLayer(c) ==
  /\ At(c, "ll")
  /\ \/ image.controller /\ BeginQueue(c, LLQ) /\ UNCHANGED pc
     \/ ~image.controller /\ Goto(c, "dflt") /\ UNCHANGED poolVars
  /\ UNCHANGED <<image, initialized, inUse, returned, runVars, panic>>

InstallRng(c) ==
  /\ At(c, "rng")
  /\ handler' = handler \cup {"RNG"}
  /\ Goto(c, "dflt")
  /\ UNCHANGED <<image, initialized, inUse, returned, poolVars, tasks, pending, panic>>

InitHostQueue(c) ==
  /\ At(c, "dflt")
  /\ \/ image.host /\ BeginQueue(c, Dflt) /\ UNCHANGED pc
     \/ ~image.host /\ Goto(c, "pools") /\ UNCHANGED poolVars
  /\ UNCHANGED <<image, initialized, inUse, returned, runVars, panic>>

\* os_mempool_module_init, os_msys_init and ble_transport_init.
InitPools(c) ==
  /\ At(c, "pools")
  /\ Goto(c, "hs")
  /\ UNCHANGED <<image, initialized, inUse, returned, poolVars, runVars, panic>>

InitHost(c) ==
  /\ At(c, "hs")
  /\ \/ image.host /\ Put(Dflt)
     \/ ~image.host /\ UNCHANGED <<pending, panic>>
  /\ Goto(c, "clock")
  /\ UNCHANGED <<image, initialized, inUse, returned, poolVars, handler, tasks>>

\* hal_timer_init, os_cputime_init and ble_transport_ll_init; no result is looked at.
InitClock(c) ==
  /\ At(c, "clock")
  /\ handler' = IF image.controller /\ image.clock THEN handler \cup {"RTC0"} ELSE handler
  /\ Goto(c, "idle")
  /\ returned' = TRUE
  /\ UNCHANGED <<image, initialized, inUse, poolVars, tasks, pending, panic>>
--------------------------------------------------------------------------------
(***************************************************************************)
(* The tasks.  The application starts them when initialize_nimble has      *)
(* returned; nothing in the code makes it.                                 *)
(***************************************************************************)
NewController(c) ==
  /\ Running(c) /\ Idle(c) /\ image.controller
  /\ \/ inUse /\ Panic("controller")
     \/ /\ ~inUse /\ inUse' = TRUE
        /\ UNCHANGED <<image, initialized, pc, returned, poolVars, runVars, panic>>

\* No context is in the middle of something: the executor polls tasks.
Polling == Running(0) /\ Idle(0)

\* A task made by create_task is first polled: ble_phy_init, which installs
\* RADIO's handler, may fail.
StartTask ==
  /\ Polling /\ inUse /\ returned /\ tasks < MaxTasks
  /\ \/ Panic("phy")
     \/ /\ tasks' = tasks + 1
        /\ handler' = handler \cup {"RADIO"}
        /\ UNCHANGED <<image, initVars, poolVars, pending, panic>>

\* A controller task takes an event and runs it.
LinkLayerTask ==
  /\ Polling /\ tasks > 0
  /\ \/ ch[LLQ] = 0 /\ panic' = "null" /\ UNCHANGED pending
     \/ /\ ch[LLQ] # 0 /\ pending[LLQ] > 0
        /\ pending' = [pending EXCEPT ![LLQ] = @ - 1]
        /\ UNCHANGED panic
  /\ UNCHANGED <<image, initVars, poolVars, handler, tasks>>

\* nimble_port_run takes an event of the host, which sends a command down: to the
\* link layer, or to the function that stands for it in an image without one.
HostTask ==
  /\ Polling /\ image.host /\ returned
  /\ \/ ch[Dflt] = 0 /\ panic' = "null" /\ UNCHANGED pending
     \/ /\ ch[Dflt] # 0 /\ pending[Dflt] > 0
        /\ \/ ~image.controller /\ panic' = "unimplemented" /\ UNCHANGED pending
           \/ /\ image.controller /\ ch[LLQ] = 0
              /\ panic' = "null" /\ UNCHANGED pending
           \/ /\ image.controller /\ ch[LLQ] # 0 /\ pending[LLQ] < MaxPending
              /\ pending' = [pending EXCEPT ![Dflt] = @ - 1, ![LLQ] = @ + 1]
              /\ UNCHANGED panic
  /\ UNCHANGED <<image, initVars, poolVars, handler, tasks>>

\* An interrupt with a handler puts an event on the link layer's queue.  Without one
\* it does nothing.
Interrupt(irq) ==
  /\ panic = "no" /\ irq \in handler
  /\ Put(LLQ)
  /\ UNCHANGED <<image, initVars, poolVars, handler, tasks>>
--------------------------------------------------------------------------------
QueueStep(c) == TakeSlot(c) \/ NextSlot(c) \/ NoSlot(c) \/ Assign(c)

InitStep(c) ==
  \/ InitLinkLayer(c) \/ InstallRng(c) \/ InitHostQueue(c)
  \/ InitPools(c) \/ InitHost(c) \/ InitClock(c)

Next ==
  \/ \E c \in Context :
       \/ Initialize(c) \/ InitStep(c) \/ QueueStep(c) \/ NewController(c)
       \/ \E q \in Extra : OtherQueue(c, q)
  \/ StartTask \/ LinkLayerTask \/ HostTask
  \/ \E irq \in Irq : Interrupt(irq)

Spec == Init /\ [][Next]_vars

\* What a context has begun it finishes: nothing waits in start-up.
Fairness == \A c \in Context : WF_vars(InitStep(c) \/ QueueStep(c))

FairSpec == Spec /\ Fairness
--------------------------------------------------------------------------------
TypeOK ==
  /\ image \in Image
  /\ initialized \in BOOLEAN /\ inUse \in BOOLEAN /\ returned \in BOOLEAN
  /\ pc \in [Context -> {"idle", "ll", "rng", "dflt", "pools", "hs", "clock"}]
  /\ evq \in [Context -> Queue \cup {None}]
  /\ slot \in [Context -> 0..Slots + 1]
  /\ got \in [Context -> BOOLEAN]
  /\ taken \subseteq 1..Slots
  /\ ch \in [Queue -> 0..Slots]
  /\ handler \subseteq Irq
  /\ tasks \in 0..MaxTasks
  /\ pending \in [{LLQ, Dflt} -> 0..MaxPending]
  /\ panic \in {"no", "null", "initialized", "controller", "queues", "phy", "unimplemented"}

\* No two queues share a channel and no channel of the pool is lost, however many
\* contexts initialise queues at once: a slot is taken exactly when one queue has
\* it, or one context is about to give it to one (embassy.rs:61-68).
ChannelsOwned ==
  /\ taken = {ch[q] : q \in {r \in Queue : ch[r] # 0}}
             \cup {slot[c] : c \in {d \in Context : got[d]}}
  /\ \A q, r \in Queue : ch[q] # 0 /\ ch[q] = ch[r] => q = r
  /\ \A c, d \in Context : got[c] /\ got[d] /\ slot[c] = slot[d] => c = d
  /\ \A q \in Queue, c \in Context : got[c] => ch[q] # slot[c]

\* Nobody follows the null pointer of a queue that is not initialised: not an
\* interrupt that comes during start-up, not the host's first event, not a task
\* (lib.rs:30-54).
QueueReady == panic # "null"

\* initialize_nimble returns, or the program panics, whatever interrupts and other
\* contexts do meanwhile (lib.rs:25-55).
StartupEnds == initialized ~> (returned \/ panic # "no")
================================================================================
