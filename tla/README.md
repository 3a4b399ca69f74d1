# A verification development for apache-nimble-sys

The repository ports the Bluetooth LE stack Apache NimBLE to embedded Rust. Two crates do it:

* `apache-nimble-sys` implements NimBLE's porting layer (NPL) on embassy: event queues, callouts,
  time, critical sections, interrupt handlers, and the bits of a C library that NimBLE calls;
* `apache-nimble` runs NimBLE's link layer as an async task and offers it to a Rust Bluetooth host as a
  `bt-hci` controller.

NimBLE itself is C code in a git submodule. It is not part of this development: where its behaviour
matters it appears as an assumption, and each such assumption is named below.

All of it runs on one core. Rust tasks are cooperative (one executor, a task gives the processor up only at
an `await`); interrupt handlers preempt whatever runs and run to completion; a handler of higher priority
preempts one of lower priority. Almost everything that is hard about this code comes from the fact that the
NPL functions are called from both sides with no lock but the critical sections.

Paths below are relative to the two crates' roots: `embassy.rs` is
`apache-nimble-sys/src/port-layers/embassy.rs`, `nrf5x.rs` is `apache-nimble-sys/src/drivers/nrf5x.rs`,
`controller.rs` is `apache-nimble/src/controller.rs`.


## 1. Inventory

| Component | State it keeps | Operations | Modelled by |
|---|---|---|---|
| Event queue | a channel of 16 event pointers, a `u8` counter beside it, a `queued` flag in every event | `ble_npl_eventq_put` (any context), `_get` (async, the serving task), `_remove`, `ble_npl_event_is_queued` | `EventQueue`, abstractly `EventFifo` |
| Critical sections | PRIMASK, the NVIC's enabled interrupts, two flags, a saved mask | `acquire` and `release` of `cs_internal` (NimBLE's) and of `cs_impl` (the critical-section crate's), `ble_npl_hw_enter/exit_critical`, `_is_in_critical` | `CriticalSection` |
| HCI command path | `cmd_lock`, `CMD_SIGNAL` (1), `READ_CHANNEL` (1), NimBLE's pool of command buffers | `exec`, `execute_command`, `read`, dropping of their futures | `HciController`, abstractly `CommandService` |
| Link layer task | the event it works on, the join it waits in | `ble_ll_task`, `ble_transport_to_hs_evt_impl`, `_acl_impl` | `HciController`, its start in `Startup` |
| Callouts and time | `active`, `expires_at`, the entry in the time driver's timer queue | `ble_npl_callout_init`, `_reset`, `_stop`, `callout_cb`, the conversions between ticks and ms | `Callout`, abstractly `OneShotTimer`; `NplTime` |
| Queue pool and start-up | eight channels with `taken` flags, the one-shot guards of `initialize_nimble` and `NimbleController::new` | `ble_npl_eventq_init`, initialisation in order, `create_task` | `Startup`, `Firmware` |
| Interrupt handler table | one function pointer per interrupt | `set_isr`, the RADIO/RTC0/RNG handlers | `Startup` |
| Host port (`host.rs`) | one event queue | `nimble_port_run`: get an event, run it | `Startup` |
| ACL and ISO data | mbuf chains and who owns them | `write_acl_data`, `write_iso_data`, `ble_transport_to_hs_acl_impl`, `OsMbuf` | `Transport` |
| Configuration, build scripts | some hundreds of settings with computed defaults, features, flags from the environment | preprocessing by the C compiler and by bindgen, `cargo build` | `SysCfg`, `Build`, `Firmware` |
| C library interop | the Rust allocator | `malloc`, `realloc`, `free` | not modelled |
| Mutexes, semaphores | none | every function is `unimplemented!()` | nothing to model |
| Other headers, nrfx configuration | none at run time | | `NplTime` has the width of the time type |

How they interact:

```
                 radio, RTC0, RNG interrupts
                        | ble_npl_eventq_put
                        v
 host task -- exec --> link layer's event queue -- ble_npl_eventq_get --> ble_ll_task
     ^ ^                                                                     |
     | +--- CMD_SIGNAL <--- read <--- READ_CHANNEL <--- ble_transport_to_hs_*+
     +---------------------- read (events, ACL data)
```

Every queue operation enters the channel's critical section (`cs_impl`), and `ble_npl_eventq_remove` the
internal one (`cs_internal`); callouts put their event on a queue from the time driver's interrupt.

What is hard, and what makes each part correct:

* **Event queue.** The channel is protected, the counter and the flags beside it are not: `len += 1` is a load
  and a store, and `get` takes an event first, then clears its flag, then decrements. It is correct when the
  flag can be trusted (an event on the queue has it up; one with its flag up and nothing in progress is on the
  queue), no event is queued twice, no put overflows, the rotation in `remove` keeps the order, and every event
  put is served.
* **Critical sections.** Two sections with different masks nest in either order, in a context and in the
  handlers that interrupt it, and share flags and a saved mask. They are correct when each keeps out the
  interrupts it promises to, an inner release never ends an outer section, and everything is restored.
* **HCI command path.** Several tasks and an interrupt communicate over two channels of capacity one; responses
  carry no identity but an opcode; the command buffer is freed by the caller when it believes the link layer is
  done with it; host futures can be dropped at each `await`. It is correct when a call gets the answer to its own
  command, no buffer is freed early, twice or never, nothing sent to the host is lost and every call returns.
* **ACL data.** A chain of mbufs changes hands between the radio, the link layer's queue, the function that copies
  it for the host, and the pool, with errors on the way whose owner is a matter of convention, while the radio's
  interrupt takes chains from the same pool. It is correct when a chain always has one holder, and what the host
  reads is in order although chains are reused.
* **Callouts.** `reset` is not atomic, and a stop or a restart leaves an entry in a timer queue that belongs to
  embassy and keeps the earlier of two times; times have 32 bits in one place and 64 in another. It is correct
  when a callout expires once, at its time and not before, unless it is stopped.
* **Start-up.** Queues are taken from a pool by a search that can be preempted by another search, and NimBLE's
  interrupts come as soon as their handlers are installed, half-way through. It is correct when nothing follows
  the null pointer of a queue that is not initialised, no channel has two queues, and start-up ends.
* **Configuration.** One header is preprocessed twice, with flags from different variables, and describes many
  things by more than one setting. It is correct when settings that belong together agree, with any
  flags that leave them alone.

PROJECT.json lists the components again, with every hazard at the line where it bites and the properties aimed
at it.


## 2. Modules

| Module | What it is |
|---|---|
| `EventFifo` | abstract: a bounded FIFO queue with put, get and remove as single steps |
| `EventQueue` | the port's queue, load by load and store by store, with preemption |
| `EventQueueMC` | instances of it |
| `CommandService` | abstract: what `exec` promises its caller |
| `HciController` | the async tasks of `controller.rs`, one action per poll |
| `HciControllerMC` | instances of it |
| `CriticalSection` | both critical sections, instruction by instruction |
| `Transport`, `TransportMC` | ACL and ISO data; extends `HciController` |
| `NplTime` | the type of times, and the conversions |
| `OneShotTimer` | abstract: what a callout promises |
| `Callout`, `CalloutMC` | callouts, the timer queue and the event queue they put their events on |
| `SysCfg`, `Build` | the configuration header as a function of the flags; `cargo build` |
| `Startup` | initialisation, the pool of channels, the handler table, the first polls of the tasks |
| `Firmware`, `FirmwareMC` | `Build` and `Startup` composed: what is linked is what starts |
| `SequenceFilter` | a sequence without an element, for `remove`, by a recursive function |
| `SequenceFacts` | lemmas on `Append`, `Tail`, sequences without repetition and how long they can be, and on `SequenceFilter` |
| `EventQueueProofs`, `HciControllerProofs`, `CriticalSectionProofs`, `TransportProofs`, `CalloutProofs`, `StartupProofs`, `FirmwareProofs` | theorems and proofs |

`EventFifo` is used three times: `EventQueue` is shown to implement it, and `HciController` and `Callout`
instantiate it for the link layer's queue and the queue of the callouts. That is the composition: what these two
assume of their queue is what `EventQueue` is checked to provide, under the discipline named below.

An operator whose comment begins with "Mutated:" is a plausible bug in the definition that follows it. No
specification uses it; PROJECT.json says which property it would break.

### EventQueue

Contexts are numbered by priority, 0 for the thread and 1..`Isr` for interrupt levels. `Running(p)` says that no
higher context is in the middle of an operation; that alone makes the interleavings those of preemption with
handlers that run to completion. `MayBegin(p)` says when an interrupt can be taken: not while PRIMASK is set, and
while the channel is in its critical section only if that section leaves the interrupt enabled (`Unmasked`).

* A put is five steps: `PutMark` (`queued = true`), `PutLoad` and `PutStore` (`len += 1`), `PutSend` and
  `PutSent` (entering and leaving the channel). `PutSent` panics if the channel is full; `PutSend` panics if it
  interrupted someone inside the channel, whose `RefCell` is then borrowed.
* A get is `GetPoll`, `GetReceive`, `GetClear`, `GetLoad`, `GetStore`. A poll that finds nothing ends the attempt;
  a timeout (`tmo`) that wins is such an attempt too, so the three ways to wait need no separate actions.
* A remove runs with all interrupts masked, one `RemoveStep` per iteration of its loop over `len`. The channel's
  own borrow inside it cannot be seen by anyone and is left out.
* `len` keeps its width: `StoreLen` wraps modulo `LenMod` in a release build, and in a debug build
  (`OverflowChecks`) it panics.
* A panic halts the system. `panic` remembers why, and the properties speak about it.

Two constants describe the callers, NimBLE's C code, which the port does not control: `Putters` (which contexts
put which event) and `ChecksQueued` (do they test `ble_npl_event_is_queued` first). Properties marked
*discipline* hold when every event has one owner that tests the flag. The port neither documents nor enforces it;
it is what the properties need.

### HciController

A task gives up the executor only at an `await`, so an action is a poll of a task (`BetweenPolls`); the radio
alone comes at any moment. Where one poll has a part an interrupt could see, it is two actions: `Submit` then
`Await` or `TakeResponse`.

* `Exec`, `AllocFails`, `Discard`, `Submit`, `Await`, `TakeResponse` are the ways through `execute_command`:
  every early return is one of them, and says which buffer and which lock it gives back. `DropExec` is the drop of
  the future at an await: it releases the lock's guard and undoes nothing else. `CanDrop` says at which awaits the host
  may drop: "lock" and "wait" are those of `execute_command`, for its turn and for its answer, "read" those of `read`.
* `LLGet` takes an event and makes the first poll of the join. `join` remembers the futures that have completed,
  so `ready` only grows until both have (`PollJoin`). `Respond`, `Notify` are the calls NimBLE makes into
  `ble_transport_to_hs_*`, up to `MaxPackets` per event, of which one answers the command. `ToHost` is their
  `try_send`: `lost` is a ghost variable that remembers packets that found the channel full.
* `Read` begins a read, `ReadResponse`, `SendResponse`, `ReadPacket` are its polls, `DropRead` is its drop: together
  `read` and the host's loop around it.

Packets are abstracted to what the properties distinguish: which call a response answers, or that a packet is
something else, unparseable, or the no-op completion that is filtered out. The contents of HCI packets, and
NimBLE's work on them, are external. So is embassy's `Mutex`, used as the mutual exclusion it documents.

### Transport

Everything of `HciController`, and the chains. `pool`, `tx`, `rx`, `hand` and `refused` are the places a chain can
be in: free, with the link layer for transmission, received, being passed to the host, or with the link layer after
an error. The convention about errors is read off `write_acl_data`: a function of the transport that returns 0 has
taken the chain over, one that returns an error leaves it with its caller (who calls `os_mbuf_free_chain`).
`OsMbuf` itself owns nothing: it is a pointer with no destructor, and reading through it trims the chain.

* `Write` is a whole `write_acl_data` or `write_iso_data`: no `await`, every early return, and the free that gives
  the chain back. A refusal is logged, and the caller told Ok.
* `Pass`, `Copy` or `Malformed`, and `Deliver` are `ble_transport_to_hs_acl_impl`, called by an event. `Deliver` is
  an `HciController` step too (`Notify`), which says whether READ_CHANNEL has room.
* `Receive` and `Preempt` are the radio's interrupt, which may come between any two of these. Any other step of the
  tasks is `HciStep`; it cannot come while a chain is in hand, since that code does not await.
* Packets are numbered. `holds` is what a chain contains, so that a chain that is reused too early shows up as
  a number out of order in `AclInOrder`.

### Callout

`ble_npl_callout_reset` is three steps: `Reset` sets `expires_at`, `Schedule` gives it to the time driver,
`Activate` sets `active`. The clock and the time driver's interrupt come between them. The time driver is
external: its queue has one entry for each waker, scheduling again keeps the earlier of the two times, and
`schedule_wake` itself wakes what is due when it has changed the queue. `Interrupt`, `Wake` and `Expired` are
that, and `Wake` is the whole of `callout_cb`. `expires_at` is `Low(now) + ticks` modulo 2^32 (`Mod`); the entry
in the queue is compared with the clock's 64 bits, in code and model.

`Careful` callouts are those whose users reset them only when nothing is left of the last use (not active, no
entry, no event waiting), to a time that is ahead and within 32 bits, and whose reset is done before that time.
These conditions are what a callout needs to be a one-shot timer; the port does not state them, and NimBLE is not
bound to them. The other callouts are used in any way. `due` and `past` are history variables: what the last reset
asked for, whether the timer queue kept an older entry, and whether a wake came inside the reset.

### SysCfg, Build, Startup, Firmware

`SysCfg` is `syscfg.h`, section by section: `Values(given)` is what a compiler reads when its `-D` flags give
`given`; a setting that is given keeps that value (`#ifndef`), one that the header undefines is gone, and the rest
have their default, which is a number or is computed from other settings (`Computed`). `Build` is `cargo build`: an
environment that gives a setting to the C compiler, to bindgen or to both, a set of features, and `Cargo`, which
fails or links an image. An image remembers what start-up depends on.

`Startup` has contexts like `EventQueue`; context 0 is the thread, the others are executors in interrupts, which may
initialise things too. `pc` says where a context is in `initialize_nimble`, `evq`, `slot` and `got` where it is in
`ble_npl_eventq_init`: the search goes slot by slot, with a compare-and-exchange on each flag (`TakeSlot`,
`NextSlot`, `NoSlot`), and `Assign` gives the channel to the queue. The C functions are external; what is used of
them is which queue they initialise, which handler they install, and that `ble_transport_hs_init` puts an event.
`Interrupt(irq)` comes at any moment once its handler is installed, and puts an event on the link layer's queue;
`StartTask`, `LinkLayerTask` and `HostTask` are polls of the tasks. Following the null pointer of a queue is
`panic = "null"`.

`Firmware` runs `Build`, then `Startup` for the image that came out.

### CriticalSection

Each instruction that reads or writes shared state is a step, and an interrupt may come between any two.
`ReadPrimask`, `DisableInterrupts`, `SetFlag` are the three steps of `cs_internal::acquire`, and `ClearFlag`,
`EnableInterrupts` those of its release. `cs_impl` does its work in `with_fn`, which is an internal acquire, the
work (`Mask` or `Unmask`), and an internal release; `AcquireImpl` and `ReleaseImpl` are their fast paths when the
section is nested. `held[p]` is the stack of sections a context holds with the values the acquires returned:
sections are released innermost first with the value they returned, which is how `with`, RAII guards and NimBLE's
`OS_ENTER_CRITICAL`/`OS_EXIT_CRITICAL` use them. A handler returns with everything released.


## 3. What the runs check

| Run | Instance | Properties | What it shows |
|---|---|---|---|
| `eq_seq` | no interrupts; any event put at any time, twice too; 3 slots; debug build | `LenExact`, `ImplementsFifo` | the channel with its rotating `remove` implements `EventFifo`, and the counter is exact between operations |
| `eq_isr` | three events, put by the thread and by two interrupt levels, of which the higher is not masked by the channel's section; the thread's gets; 3 slots; release build; fair scheduling | `TypeOK`, `NoDuplicate`, `FlagMatchesChannel`, `NoOverflow`, `Served` | flags, channel and capacity stay consistent even while the counter drifts, and every event is served |
| `cs_nest` | thread and three interrupts, two reserved, sections nested two deep per context | `TypeOK`, `InternalExcludesAll`, `ImplExcludesOthers`, `InCriticalIsOwn`, `Restored`, `OutermostEnds` | every nesting of both sections behaves |
| `hci_safe` | three calls (two with the same opcode), two buffers, a radio event, one packet per event; calls dropped while they wait for their turn, and reads; fair scheduling | `TypeOK`, `ResponseIsOwn`, `CommandBufferLive`, `NoBufferLeak`, `ReaderNeverBlocks`, `NothingLost`, `AnswerToCome`, `ImplementsService`, `CallsReturn` | `exec` keeps its promise, and every call returns |
| `hci_drop` | the same with futures dropped at every await, and two packets per event | `BuffersDisjoint`, `FirstPacketFits` | what survives drops and bursts |
| `acl` | two calls with drops and bursts, two chains, two received packets | `OneHolder`, `AclInOrder` | chains always have one holder, and the host reads data in order |
| `callout` | one careful callout and one that is not, a clock of 6 ticks with times modulo 4; fair driver | `TypeOK`, `NeverLate`, `StrandedOnlyInReset`, `WrapLosesDelay`, `EarlyOnlyIfOlder`, `ImplementsOneShot`, `Expires` | what callouts promise to everybody, and that the careful one is a one-shot timer |
| `startup` | any one flag, any features, two contexts, two more queues, 3 slots for the 4 queues | `TypeOK`, `ChannelsOwned`, `QueueReady`, `HostAndLinkLayerAgree`, `OneVariant`, `ClockAgrees`, `StartupEnds` | settings are consistent, and every image starts without a queue used before it is ready |
| `eq_len_race` | one interrupt level puts two events, the thread gets and removes; release build; violation of `RemoveFindsEntries` | | finding 1 |
| `hci_lost` | violation of `NothingLost` | | finding 2 |
| `hci_join` | violation of `ResponsesProcessed` | | finding 3 |
| `hci_two` | violation of `OneCommand` | | finding 4 |

For every property of the first eight runs PROJECT.json names a mutation of the model, a plausible bug of the code
it stands for, under which the property is violated.

### Bounds

* Events: two or three. A race on a flag needs one event, order needs two. Slots: as many as
  events under the discipline; with puts that are not disciplined three slots overflow. `LenMod` 4 or 8 stands for 256:
  the counter reaches both ends, which is what wrapping needs. `Isr` 2 gives nested preemption. `eq_isr` has no
  remove: once the counter has drifted, a remove panics (finding 1) or keeps events back (section 5).
* Critical sections: `MaxNest` 2 gives every order of two sections in one context, and three interrupts give one
  reserved interrupt below and one above an unreserved one, so that a reserved handler can open a section of
  its own on top of the thread's, and of an unreserved handler's.
* HCI: three calls give one that holds the lock, one that waits and one that comes later; equal opcodes make a
  swapped response undetectable by the code's own check, different ones make it an error. `Cap` is larger than
  the number of things that can be queued (`CommandsFindRoom`): the queue's overflow is `EventQueue`'s subject.
* ACL: two chains so that one is reused while the other waits, two received packets so that there is an order,
  two calls so that responses and data compete for READ_CHANNEL. Calls, buffers and chains are symmetric: nothing
  distinguishes them, for `Opcode` gives the calls of this run one opcode, and the two properties are invariants.
* Callouts: `Mod` 4 stands for 2^32, and `MaxTime` 6 lets the clock go past it, which is where the expiry and the
  clock part; delays 0..3 are all there are. Two callouts, for the timer queue and the event queue are shared.
* Start-up: `Top` 1 has one context preempt the other; 3 slots and 4 queues let the pool run out, and one queue
  fewer is the usual case, where it does not. `MaxTasks` 2 and `MaxPending` 2 bound counters nothing else bounds.
* Configuration: one flag at a time (`MaxFlags`), of every setting and four values. Settings interact only through
  the computed defaults, each of which has at most two operands. Images with neither controller nor host are left
  out.

The theorems of section 4 remove these bounds for the safety properties; for those of the configuration the bound was
one flag at a time with four values, and the theorems hold for any flags.

### Deadlock

TLC looks for deadlocks in `cs_nest`, `hci_safe`, `hci_lost` and `hci_join`. The queue, callout and start-up runs
stop when the program panics, and `callout` at the end of its clock. `hci_drop` and `acl` stop when a response nobody
waits for stays in `CMD_SIGNAL` or `READ_CHANNEL`, with `ble_ll_task` waiting for room.

### Fairness

* `EventQueue`: a handler that has begun finishes, and the serving task is polled again and again. Interrupts may
  hold it up at every step, so the fairness is strong: it says only that interrupts do not take the processor
  for ever. The task yields before every event (`embassy.rs:84-88`), and the channel wakes it.
* `HciController`: the executor polls woken tasks in turn, and `ble_ll_task` yields in `ble_npl_eventq_get`,
  so a task that is ready again and again is polled. Again this is strong fairness, one per task, for no task may
  be passed over for ever by others that stay busy. Of the host two things are assumed, each with a fairness of its
  own: it keeps calling `read` (`Read`), and it does not drop for ever every read that could go on (`ReadPoll`). It is
  not bound to wait for any one of them, nor a call for its turn. An event, once run, is assumed to answer its command
  and return. Nothing is assumed of the radio.
* `Callout`: the clock goes on, and the driver's interrupt is taken and ends (weak fairness). The thread finishes
  a reset although interrupts hold it up again and again (strong). Nothing is assumed of the users of callouts, nor
  of the task that serves the queue: `Expires` does not need it.
* `Startup`: a context finishes what it has begun (weak: nothing in start-up awaits). Nothing is assumed of tasks and
  interrupts. `StartupEnds` would fail if the search in the pool could start over, and holds although a context may
  be preempted by another that initialises queues.
* `CriticalSection` and `Transport` have no liveness property, and their specifications no fairness.


## 4. What is proved

The proofs hold for every value of the constants that meets `ConstantsAssumption` of the module; further
assumptions are stated in the theorem.

**EventQueue** (`EventQueueProofs`)

* `TypeCorrect`.
* `DisciplineSafe`: if callers test the flag, every event has one owner and there are no more events than slots,
  then `NoDuplicate`, `FlagMatchesChannel` and `NoOverflow`. None of the three is inductive: between the mark and
  the send of a put the flag is up and the event nowhere on the queue. `DInv` adds who may be responsible for
  a flag that is up: the event is on the queue, or its one owner is in the middle of its put, or the thread has
  taken it and not yet cleared its flag (`FlagJustified`, `OwnersPut`, `FlagOfPut`, `TakenAlone`). With no event
  queued twice, `NoOverflow` follows by counting: a sequence without repetition is no longer than its set of
  elements. The proof never expands `Running` or `MayBegin`: these properties hold however contexts interleave, so
  they do not rest on the model of preemption, nor on what the critical section masks. `FlagsTold` and `NeverFull`
  are the two parts callers ask about.
* `FifoForCallers`: the queue implements `EventFifo`, `remove` included, for any callers and any number of interrupts;
  left out is only a `remove` of a queue that interrupts use too (`RemovesAlone`), where the counter drifts and the
  claim is false (section 5). Of a `remove` that is half-way the abstract queue is `Abstract`: what has been rotated
  is behind what has not, so it is what the rotation will end with. That the rotation keeps the order and takes out
  every occurrence is a fact of sequences (`Rotated`, `Without` in `SequenceFacts`). It calls for induction over them,
  which is had from the least number for which it would fail; `SequenceFilter` has `Without` as a recursive function
  for that reason.
* `CountedAlone` and `RemoveSafeAlone`: without interrupts `LenExact` and `RemoveFindsEntries` hold, so it takes an
  interrupt to get the panic of finding 1. `CountAt` is the counter at each place of an operation.
* `RemoveSafeChecked`: in a build that checks arithmetic `RemoveFindsEntries` holds for any interrupts and callers.
  What is lost between a load and a store is the count of a put that came in between, so the counter may fall behind
  the channel but not get ahead of it, except by the operations in progress: `BInv` bounds it by the entries and the
  contexts that have counted one that is not on the channel yet, or is no more (`Ahead`; `Below(p)` for the value
  that p has computed and not stored). Finding 1 needs the wrap below zero, which such a build turns into a panic
  of its own.
* `OnlyUnmaskedReenter`: the `RefCell` panic takes an interrupt that the channel's section leaves enabled and that puts
  an event (`MaskedPutters` excludes it).

**HciController** (`HciControllerProofs`)

* `TypeCorrect`, with drops and any number of packets.
* `FirstPacketAlwaysFits`: with drops and any number of packets, `READ_CHANNEL` is empty when an event begins.
  The invariant is that once the join has seen `READ_CHANNEL` ready nobody but the event itself can fill it.
* `OnePacketLosesNothing`: hence nothing is lost when events send one packet. Finding 2 shows that the assumption
  is needed.
* `BuffersStayDisjoint`: with drops, no buffer has two owners and no owned buffer is free.
* `CommandsFindRoom`: with drops, a put on the link layer's queue never finds it full, so that the guard of the model's
  put hides no panic. Nothing is queued twice (`QueuedOnce`), because a command that is there is of a call past its
  submission, and `Cap` is larger than the number of things there are to queue (`DistinctIsShort`).
* `ExecSafe` (if `WaitersStay`: no call is dropped that waits for its answer; one that waits for its turn may be, and so
  may reads): `ResponseIsOwn`, `CommandBufferLive`, `NoBufferLeak`, `ReaderNeverBlocks`, `OneCommand`.
  The invariant `SInv` follows one command around: only the holder of the lock has a command anywhere (`LockHeld`,
  `Placed`), it is in at most one of the link layer's queue, the link layer's hands, `READ_CHANNEL` and
  `CMD_SIGNAL` (`OnePlace`), its call waits once the answer is on the way (`Awaited`), and the pool with the
  holder's buffer is the whole pool (`Pool`). So at most one response exists, and read never finds `CMD_SIGNAL` full.
  `BuffersOutliveCommands`, `PoolRecovers` and `ReadGoesOn` state three of them alone.
* `AnswersAreToCome` (if `WaitersStay`, and one packet per event): the command or the answer of every call that waits
  is with the link layer or between it and the call, so nothing loses it: `AnswerToCome`, from `Followed`, which says
  the same of a call in the middle of its poll. It is the safety part of `CallsReturn`.
* `ExecImplementsService` (if `WaitersStay`): the refinement of `CommandService`, by step simulation (`Simulation`): each
  action maps to the step of the service with the same meaning or to a stutter. A response that belonged to
  another call would have no image, because the service has no phase for it.

**CriticalSection** (`CriticalSectionProofs`), for any number of interrupts, any set of reserved ones and any depth

* `TypeCorrect`, `InternalSafe`, `InCriticalAnswers`: in `IInv`, `Own(p)` ties PRIMASK and the flag to the running
  context's program counter and stack: only the context that runs can have masked interrupts, because none could
  have come on top of it otherwise (`MaskAlone`). Any context below it is between instructions that leave PRIMASK
  clear.
* `ImplSafe`, `EverythingRestored`: in `KInv`, while the crate's flag is up there is exactly one context, among all
  that hold sections of the crate, with the section whose acquire did the masking (`OneEffective`, `ImplOwner`).
  `csMask` and the disabled interrupts are that section's until its release (`NvicOwner`), and any other one is
  nested in it or lies inside an internal section, where neither its acquire nor its release does anything
  (`ImplOwn(p)`).

* `OutermostSafe`: an internal acquire tells its caller that it is the outermost exactly when no other internal
  section of its context is open, from the same `IInv`; NimBLE's `OS_EXIT_CRITICAL` acts on it.

**Transport** (`TransportProofs`), for any number of chains, calls, events and packets

* `ImplementsHci`: every step is a step of `HciController` or leaves its variables alone, so every theorem about
  `HciController` holds with ACL data too. `FirstPacketStillFits`, `ExecUndisturbed` and `DataDisplacesNothing` take
  over what could be doubted: data shares `READ_CHANNEL` and `read` with the responses.
* `ChainsHaveOneHolder`, with drops, refusals and losses. `HInv` says place by place what `OneHolder` says of all
  of them together, and that a chain is in `rx` once.
* `AclOrdered`: `OInv` orders what the host has read, READ_CHANNEL, the chain in hand and `rx` by the numbers of
  their packets. It needs `HInv`: a chain in use is not in the pool, so no interrupt can overwrite it.

**Callout** (`CalloutProofs`), for any callouts, delays, width of times and kind of build

* `RoundTrip`: milliseconds that are turned into ticks and back are what they were, or one less.
* `RemainingIsElapsed`: what `ble_npl_callout_remaining_ticks` computes, for every expiry and time.
* `TypeCorrect`, `NeverWokenLate`, `StrandedByReset`, `DelayLost`, `EarlyFromOlder`: what holds however callouts are
  used. `WInv` adds what is true inside a reset (`EarlyInReset`, `ArmedInReset`), and that an entry no older than
  the last reset is the one it made (`OwnEntry`).
* `CarefulIsOneShot`: the refinement of `OneShotTimer` by step simulation. `CarefulInv` is the life of a careful
  callout: while it is reset its entry is still to come, while it is active its entry is due when it is, and when
  its event is queued it is neither.
* `CarefulNeverPanics`: if every callout is careful and the queue has room for one entry of each, nothing panics. A
  careful callout that expires has no entry on the queue yet, and the entries that are there are all different.

**Startup** (`StartupProofs`), for any number of contexts, channels and further queues, and any image

* `TypeCorrect`, `PoolOwned`, `QueuesReady`. `Pool` says who has each slot, a queue or a context that is about to
  give it to one; `Where` that at most one context goes through `initialize_nimble`, and which queue it is at;
  `Ready` which queues have a channel by when. `QueueReady` needs all three: an interrupt may come as soon as its
  handler is installed, and finds the link layer's queue ready only because of the order of `ble_ll_init`, and
  because nobody initialises that queue again.
* `EnoughChannels`: with a channel for each queue no search of the pool fails, although several contexts search it at
  once. A search has passed only slots that are taken (`Looked`), taken slots are never given back and each belongs to
  another queue; a search that fails has passed them all, and there would be more queues than slots
  (`PoolTooSmall`).

**Firmware** (`FirmwareProofs`), for any number of flags, of any settings with any values, and any features

* `FeaturesAgree`, `VariantsExclude`, `ClocksAgree`: the three properties of the configuration. A setting that no
  flag gives has its default (`AskedDefault`), and the settings each property asks for are few.
* `FirmwareTypeCorrect`, `FirmwarePoolOwned`, `FirmwareQueuesReady`: what is proved of `Startup` holds in every image
  that links, by the same inductive step.

The typical argument is one lemma for each action (or group of actions that touch the same part of the
invariant), one case for each conjunct it can disturb, and a last temporal step.

**Only model-checked.** Liveness (`Served`, `CallsReturn`, `Expires`, `StartupEnds`), which the prover cannot treat.
Every other property of a passing run is stated by a theorem.


## 5. Findings

1. *`len` is not protected* (`eq_len_race`, `embassy.rs:103`). The thread is in `get`, between the load and the store
   of `(*evq).len -= 1`, when an interrupt puts an event: the store overwrites the interrupt's count. The counter is
   now below the number of entries; the next `get` wraps it below zero in a release build, and a `remove`
   unwraps entries that are not there (`:129`). In this run the thread puts nothing, so that the race is that of `get`;
   the thread's `len += 1` in `put` (`:114`) is open to the same one.
   `eq_isr` shows that flags and channel do not suffer from either.
2. *An event that sends two packets loses the second* (`hci_lost`, `controller.rs:51`, `:123-125`). The task waits
   for both channels once per event, `READ_CHANNEL` holds one packet.
3. *The join does not establish what its comment says* (`hci_join`, `controller.rs:123-126`). While it remembers
   that `CMD_SIGNAL` was empty, `read` moves a response there.
4. *A dropped `exec` leaves its command behind* (`hci_two`, `controller.rs:198`). The lock is released with the
   future, the link layer has a second command after the next call, and that call takes the answer to the first.
   `hci_drop` shows what survives: buffers stay disjoint.

What else came up while modelling, and has no run that refutes a claim:

* README.md:50 says that NimBLE's code uses a section that disables all interrupts. The queues' channel is over
  `CriticalSectionRawMutex`, whose section (`cs_impl`) leaves RADIO, RTC0 and RNG enabled (`nrf5x.rs:115-117`). A put
  from one of them may find the channel borrowed, and panic. `EventQueue` has this panic (`Unmasked`, "reentered"), and
  `eq_isr` explores it; whether NimBLE's handlers put at such a moment is up to NimBLE.
* The comment at `embassy.rs:400-402` has the return value of a nested enter the wrong way round: the code returns
  1 for the outermost enter and 0 for a nested one. Enter and exit agree with each other, which is `OutermostEnds`.
* The C compiler and bindgen take their `-D` flags from different variables (`CFLAGS`, `BINDGEN_EXTRA_CLANG_ARGS`), and
  nothing compares them: a setting that is given to one of the two only is a disagreement between C and Rust that no
  step of the build notices. Given the same flags they agree by construction, for both read one header; so there
  is no property of it.
* Once `len` has drifted below the number of entries, a `remove` of another event rotates only a part of the
  channel. That reorders it, and repeated removes can keep an event back.
* Callouts (all seen in `callout`, and the reason for `Careful`): a restart for a later time expires at the earlier
  one; a delay of 0, or a wake inside `reset`, leaves a callout active that nothing will wake; a stop leaves the
  entry, which a later reset inherits; after 2^32 ticks (36.4 hours at 32768 Hz) no delay is kept any more.
  `ble_npl_callout_remaining_ticks` subtracts in the wrong direction (`:332`; `RemainingIsElapsed`).
* `write_acl_data` returns Ok for a packet the link layer has refused, and `ble_transport_to_hs_acl_impl` leaves the
  chain of a packet it refuses with its caller (`controller.rs:72-88`), where `write_acl_data` expects the same of
  the link layer; `OneHolder` relies on NimBLE reading it so.
* `create_task` may be called more than once, though `new` panics for a second controller (`controller.rs:172`).
  `HciController` has one task.


## 6. Not modelled

* What NimBLE does inside an event, and the C callers of the porting layer: not in this repository. The
  constants `Putters`, `ChecksQueued`, `Careful` and `MaxPackets` are what is assumed of them. embassy's executor,
  mutexes, channels and time driver are used by what they document; a timer queue that is full, from which embassy
  wakes an entry early, is left out.
* `malloc`, `realloc`, `free` (`lib.rs`): they keep no state and nothing in them is concurrent. `free` gives the
  allocator a layout that `malloc` did not use; what that means is the contract of an allocator the application
  brings.
* Mutexes and semaphores: every function is `unimplemented!()`.
* nrfx configuration: a template for drivers that are not compiled.
* Settings that are strings or symbols, and those of packages that are not compiled; lists of files, include paths.
* More than one core: the code assumes a single core (`embassy.rs:400-403`).
* Contents of packets, logging, declarations in headers.


## 7. What is left

1. `HciController` over `EventQueue` in place of `EventFifo`, for the interleavings of a radio's put with the
   link layer task's get.
2. Several controller tasks on one queue, should the application be meant to make them.
