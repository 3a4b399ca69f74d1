----------------------------- MODULE HciController -----------------------------
(***************************************************************************)
(* NimbleController: the async tasks that carry HCI commands to the NimBLE *)
(* link layer and its packets back to the host.                            *)
(*                                                                         *)
(*   exec (one task per call)  -- llq -->  ble_ll_task                     *)
(*   exec  <-- CMD_SIGNAL --  read  <-- READ_CHANNEL --  ble_ll_task       *)
(*                              |                                          *)
(*                              +--> host                                  *)
(*                                                                         *)
(* The tasks share one executor and give it up only at an await, so each   *)
(* action below is a poll of one task (two for a poll that can itself be   *)
(* divided).  The radio interrupt alone comes at any moment; it puts       *)
(* events on the link layer's queue.                                       *)
(***************************************************************************)
EXTENDS Naturals, Sequences, FiniteSets

CONSTANTS
  Call,        \* calls of exec, each made once
  Opcode,      \* the opcode of each call's command
  RadioEvent,  \* events the radio interrupt puts on the link layer's queue
  None,        \* no call, no event
  Buffer,      \* the pool of command buffers
  MaxPackets,  \* packets one event may send to the host
  CanDrop,     \* the awaits at which the host may drop a future: "lock" and
               \* "wait" in exec, "read"
  Cap          \* capacity of the link layer's queue (16)

\* Packets that are not a response.
Other == "other"    \* parses, goes to the host
Bad   == "bad"      \* does not parse
NoOp  == "no-op"    \* CommandComplete for opcode 0

ASSUME ConstantsAssumption ==
  /\ IsFiniteSet(Call) /\ IsFiniteSet(RadioEvent)
  /\ Call \cap RadioEvent = {}
  /\ None \notin Call \cup RadioEvent \cup Buffer
  /\ {Other, Bad, NoOp} \cap Call = {}
  /\ DOMAIN Opcode = Call
  /\ MaxPackets \in Nat \ {0}
  /\ CanDrop \subseteq {"lock", "wait", "read"}
  /\ Cap \in Nat /\ Cap > Cardinality(Call) + Cardinality(RadioEvent)

VARIABLES
  pc,        \* where each call of exec is
  result,    \* what it returned
  lock,      \* the call that holds cmd_lock
  ptr,       \* the command buffer each call has allocated
  free,      \* the buffers left in the pool
  llq,       \* the link layer's event queue; a command is its call
  ll,        \* where ble_ll_task is
  cur,       \* the event it has taken
  ready,     \* the futures of its join that have completed
  sent,      \* packets the event has sent so far
  answered,  \* has the event sent the response to its command?
  read,      \* contents of READ_CHANNEL, capacity 1
  cmd,       \* contents of CMD_SIGNAL, capacity 1
  reader,    \* where the host's call of read is
  held,      \* the response read waits to send on
  lost       \* packets that found READ_CHANNEL full

execVars == <<pc, result, lock, ptr, free>>
llVars   == <<ll, cur, ready, sent, answered>>
hostVars == <<reader, held>>
vars     == <<execVars, llq, llVars, read, cmd, hostVars, lost>>

LL == INSTANCE EventFifo WITH Event <- Call \cup RadioEvent, q <- llq

Init ==
  /\ pc = [c \in Call |-> "idle"]
  /\ result = [c \in Call |-> "none"]
  /\ lock = None
  /\ ptr = [c \in Call |-> None]
  /\ free = Buffer
  /\ LL!Init
  /\ ll = "get" /\ cur = None /\ ready = {} /\ sent = 0 /\ answered = FALSE
  /\ read = <<>>
  /\ cmd = <<>>
  /\ reader = "away" /\ held = None
  /\ lost = {}

\* No task is in the middle of a poll: the executor may poll another.
BetweenPolls == ll # "run" /\ \A c \in Call : pc[c] # "polling"
--------------------------------------------------------------------------------
(***************************************************************************)
(* exec and execute_command.                                               *)
(***************************************************************************)
Exec(c) ==
  /\ BetweenPolls
  /\ pc[c] = "idle"
  /\ pc' = [pc EXCEPT ![c] = "lock"]
  /\ UNCHANGED <<result, lock, ptr, free, llq, llVars, read, cmd, hostVars, lost>>

Return(c, r) ==
  /\ pc' = [pc EXCEPT ![c] = "done"]
  /\ result' = [result EXCEPT ![c] = r]

\* The call gets the lock, and has it until it returns.
Locks(c) ==
  /\ BetweenPolls
  /\ pc[c] = "lock"
  /\ lock = None

\* No buffer is left.
AllocFails(c) ==
  /\ Locks(c)
  /\ free = {}
  /\ Return(c, "NoMem")
  /\ UNCHANGED <<lock, ptr, free, llq, llVars, read, cmd, hostVars, lost>>

\* Mutated: the buffer of a refused command is kept.
DiscardKeeps(c) ==
  /\ Locks(c)
  /\ \E b \in free : free' = free \ {b}
  /\ Return(c, "Invalid")
  /\ UNCHANGED <<lock, ptr, llq, llVars, read, cmd, hostVars, lost>>

\* The command cannot be serialised, or the link layer refuses it: the buffer
\* goes back to the pool before the call returns.
Discard(c) ==
  /\ Locks(c)
  /\ free # {}
  /\ \E r \in {"NoMem", "Invalid"} : Return(c, r)
  /\ UNCHANGED <<lock, ptr, free, llq, llVars, read, cmd, hostVars, lost>>

\* Mutated: the buffer is freed once the command is queued.
SubmitFrees(c) ==
  /\ Locks(c)
  /\ \E b \in free : ptr' = [ptr EXCEPT ![c] = b]
  /\ lock' = c
  /\ LL!Put(c)
  /\ pc' = [pc EXCEPT ![c] = "polling"]
  /\ UNCHANGED <<result, free, llVars, read, cmd, hostVars, lost>>

\* Mutated: the lock is not kept while the call waits.
SubmitUnlocks(c) ==
  /\ Locks(c)
  /\ \E b \in free :
       /\ free' = free \ {b}
       /\ ptr' = [ptr EXCEPT ![c] = b]
  /\ LL!Put(c)
  /\ pc' = [pc EXCEPT ![c] = "polling"]
  /\ UNCHANGED <<result, lock, llVars, read, cmd, hostVars, lost>>

\* The command goes to the link layer; the poll goes on to CMD_SIGNAL.
Submit(c) ==
  /\ Locks(c)
  /\ \E b \in free :
       /\ free' = free \ {b}
       /\ ptr' = [ptr EXCEPT ![c] = b]
  /\ lock' = c
  /\ LL!Put(c)
  /\ pc' = [pc EXCEPT ![c] = "polling"]
  /\ UNCHANGED <<result, llVars, read, cmd, hostVars, lost>>

\* CMD_SIGNAL is empty: the call waits.
Await(c) ==
  /\ pc[c] = "polling"
  /\ cmd = <<>>
  /\ pc' = [pc EXCEPT ![c] = "wait"]
  /\ UNCHANGED <<result, lock, ptr, free, llq, llVars, read, cmd, hostVars, lost>>

\* Mutated: the response stays in CMD_SIGNAL, for the next call to find.
TakeResponseLeaves(c) ==
  /\ pc[c] = "polling" \/ (pc[c] = "wait" /\ BetweenPolls)
  /\ cmd # <<>>
  /\ free' = free \cup {ptr[c]}
  /\ ptr' = [ptr EXCEPT ![c] = None]
  /\ lock' = None
  /\ Return(c, IF Opcode[Head(cmd)] = Opcode[c] THEN "Ok" ELSE "Unrelated")
  /\ UNCHANGED <<llq, llVars, read, cmd, hostVars, lost>>

\* The call takes a response, frees its buffer, compares opcodes and returns,
\* which releases the lock.
TakeResponse(c) ==
  /\ pc[c] = "polling" \/ (pc[c] = "wait" /\ BetweenPolls)
  /\ cmd # <<>>
  /\ cmd' = <<>>
  /\ free' = free \cup {ptr[c]}
  /\ ptr' = [ptr EXCEPT ![c] = None]
  /\ lock' = None
  /\ Return(c, IF Opcode[Head(cmd)] = Opcode[c] THEN "Ok" ELSE "Unrelated")
  /\ UNCHANGED <<llq, llVars, read, hostVars, lost>>

\* The host drops the future: the guard releases the lock, nothing else is
\* undone.
DropExec(c) ==
  /\ BetweenPolls
  /\ pc[c] \in {"lock", "wait"} \cap CanDrop
  /\ lock' = IF lock = c THEN None ELSE lock
  /\ Return(c, "dropped")
  /\ UNCHANGED <<ptr, free, llq, llVars, read, cmd, hostVars, lost>>
--------------------------------------------------------------------------------
(***************************************************************************)
(* ble_ll_task, and the callbacks through which an event sends packets.    *)
(***************************************************************************)
\* Mutated: the task waits for CMD_SIGNAL only.
PollJoinCmd(done) ==
  /\ ready' = {"read"} \cup done \cup (IF cmd = <<>> THEN {"cmd"} ELSE {})
  /\ ll' = IF ready' = {"read", "cmd"} THEN "run" ELSE "join"

\* A poll of the join: a future that completes stays completed.  When both
\* have, the event runs in the same poll.
PollJoin(done) ==
  /\ ready' = done \cup (IF read = <<>> THEN {"read"} ELSE {})
                   \cup (IF cmd = <<>> THEN {"cmd"} ELSE {})
  /\ ll' = IF ready' = {"read", "cmd"} THEN "run" ELSE "join"

LLGet ==
  /\ BetweenPolls
  /\ ll = "get"
  /\ LL!Get
  /\ cur' = Head(llq)
  /\ PollJoin({})
  /\ sent' = 0
  /\ answered' = FALSE
  /\ UNCHANGED <<execVars, read, cmd, hostVars, lost>>

LLJoin ==
  /\ BetweenPolls
  /\ ll = "join"
  /\ PollJoin(ready)
  /\ UNCHANGED <<execVars, llq, cur, sent, answered, read, cmd, hostVars, lost>>

\* ble_transport_to_hs_evt_impl, and _acl_impl for a data packet.
ToHost(p) ==
  \/ p = NoOp /\ UNCHANGED <<read, lost>>
  \/ p # NoOp /\ read = <<>> /\ read' = <<p>> /\ UNCHANGED lost
  \/ p # NoOp /\ read # <<>> /\ lost' = lost \cup {p} /\ UNCHANGED read

\* The event answers the command it carries.
Respond ==
  /\ ll = "run"
  /\ cur \in Call /\ ~answered
  /\ sent < MaxPackets
  /\ sent' = sent + 1
  /\ answered' = TRUE
  /\ ToHost(cur)
  /\ UNCHANGED <<execVars, llq, ll, cur, ready, cmd, hostVars>>

\* It sends something else; the last packet of a command is its response.
Notify(p) ==
  /\ ll = "run"
  /\ sent < (IF cur \in Call /\ ~answered THEN MaxPackets - 1 ELSE MaxPackets)
  /\ sent' = sent + 1
  /\ ToHost(p)
  /\ UNCHANGED <<execVars, llq, ll, cur, ready, answered, cmd, hostVars>>

\* The event returns, and the task yields in ble_npl_eventq_get.
EventDone ==
  /\ ll = "run"
  /\ cur \in Call => answered
  /\ ll' = "get"
  /\ cur' = None
  /\ UNCHANGED <<execVars, llq, ready, sent, answered, read, cmd, hostVars, lost>>

\* The radio interrupt, at any moment.
RadioPut(e) ==
  /\ \A i \in 1..Len(llq) : llq[i] # e
  /\ LL!Put(e)
  /\ UNCHANGED <<execVars, llVars, read, cmd, hostVars, lost>>
--------------------------------------------------------------------------------
(***************************************************************************)
(* The host's loop around read.                                            *)
(***************************************************************************)
Read ==
  /\ BetweenPolls
  /\ reader = "away"
  /\ reader' = "receive"
  /\ UNCHANGED <<execVars, llq, llVars, read, cmd, held, lost>>

\* Mutated: the response is an error for the host.
ReadResponseDrops ==
  /\ BetweenPolls
  /\ reader = "receive"
  /\ read # <<>> /\ Head(read) \in Call
  /\ read' = <<>>
  /\ reader' = "away"
  /\ UNCHANGED <<execVars, llq, llVars, cmd, held, lost>>

\* Mutated: every packet is taken for a response.
ReadResponseAny ==
  /\ BetweenPolls
  /\ reader = "receive"
  /\ read # <<>> /\ cmd = <<>>
  /\ read' = <<>>
  /\ cmd' = read
  /\ UNCHANGED <<execVars, llq, llVars, hostVars, lost>>

\* A response goes to CMD_SIGNAL, or waits there for room.
ReadResponse ==
  /\ BetweenPolls
  /\ reader = "receive"
  /\ read # <<>> /\ Head(read) \in Call
  /\ read' = <<>>
  /\ \/ cmd = <<>> /\ cmd' = read /\ UNCHANGED hostVars
     \/ /\ cmd # <<>> /\ UNCHANGED cmd
        /\ reader' = "send" /\ held' = Head(read)
  /\ UNCHANGED <<execVars, llq, llVars, lost>>

SendResponse ==
  /\ BetweenPolls
  /\ reader = "send"
  /\ cmd = <<>>
  /\ cmd' = <<held>>
  /\ reader' = "receive"
  /\ held' = None
  /\ UNCHANGED <<execVars, llq, llVars, read, lost>>

\* Any other packet is returned to the host, or is an error for it.
ReadPacket ==
  /\ BetweenPolls
  /\ reader = "receive"
  /\ read # <<>> /\ Head(read) \notin Call
  /\ read' = <<>>
  /\ reader' = "away"
  /\ UNCHANGED <<execVars, llq, llVars, cmd, held, lost>>

\* Mutated: a read that has a packet awaits before it passes the packet on.
DropReadLoses ==
  /\ "read" \in CanDrop
  /\ BetweenPolls
  /\ reader # "away"
  /\ reader' = "away"
  /\ held' = None
  /\ read' = <<>>
  /\ UNCHANGED <<execVars, llq, llVars, cmd, lost>>

\* The host drops the future, and with it a response it waits to send on.
DropRead ==
  /\ "read" \in CanDrop
  /\ BetweenPolls
  /\ reader # "away"
  /\ reader' = "away"
  /\ held' = None
  /\ UNCHANGED <<execVars, llq, llVars, read, cmd, lost>>
--------------------------------------------------------------------------------
CallStep(c) ==
  AllocFails(c) \/ Discard(c) \/ Submit(c) \/ Await(c) \/ TakeResponse(c)

LLStep == LLGet \/ LLJoin \/ Respond \/ EventDone \/ \E p \in {Other, Bad, NoOp} : Notify(p)

ReadPoll == ReadResponse \/ SendResponse \/ ReadPacket
ReadStep == Read \/ ReadPoll

Next ==
  \/ \E c \in Call : Exec(c) \/ CallStep(c) \/ DropExec(c)
  \/ LLStep
  \/ \E e \in RadioEvent : RadioPut(e)
  \/ ReadStep \/ DropRead

Spec == Init /\ [][Next]_vars

(***************************************************************************)
(* The executor polls woken tasks in turn, and ble_ll_task yields before   *)
(* every event (embassy.rs:84-86), so a task that is ready again and again *)
(* is polled: strong fairness for each task.  The host is assumed to go on *)
(* calling read, and not to drop every read before its first poll.         *)
(* Nothing is assumed of the radio.                                        *)
(***************************************************************************)
Fairness ==
  /\ \A c \in Call : SF_vars(CallStep(c))
  /\ SF_vars(LLStep)
  /\ SF_vars(Read) /\ SF_vars(ReadPoll)

FairSpec == Spec /\ Fairness

--------------------------------------------------------------------------------
TypeOK ==
  /\ pc \in [Call -> {"idle", "lock", "polling", "wait", "done"}]
  /\ result \in [Call -> {"none", "NoMem", "Invalid", "Ok", "Unrelated", "dropped"}]
  /\ lock \in Call \cup {None}
  /\ ptr \in [Call -> Buffer \cup {None}]
  /\ free \subseteq Buffer
  /\ llq \in Seq(Call \cup RadioEvent) /\ Len(llq) <= Cap
  /\ ll \in {"get", "join", "run"}
  /\ cur \in Call \cup RadioEvent \cup {None}
  /\ ready \subseteq {"read", "cmd"}
  /\ sent \in 0..MaxPackets
  /\ answered \in BOOLEAN
  /\ read \in Seq(Call \cup {Other, Bad}) /\ Len(read) <= 1
  /\ cmd \in Seq(Call) /\ Len(cmd) <= 1
  /\ reader \in {"away", "receive", "send"}
  /\ held \in Call \cup {None}
  /\ lost \subseteq Call \cup {Other, Bad}

\* The response to c is somewhere between the link layer and the call.
InFlight(c) == read = <<c>> \/ held = c \/ cmd = <<c>>

\* The link layer has the command of c and is to answer it.
InLinkLayer(c) ==
  \/ \E i \in 1..Len(llq) : llq[i] = c
  \/ cur = c /\ ll # "get" /\ ~answered

\* As long as no call is dropped that waits for its answer.  A response on its
\* way to the host is the response to the call that holds the lock and waits for
\* it, and there is no other command in the link layer: no call can take the
\* answer to another one's command (controller.rs:198, 225, 360), even when their
\* opcodes are equal.
ResponseIsOwn ==
  \A c \in Call :
    InFlight(c) =>
      /\ lock = c /\ pc[c] = "wait"
      /\ \A d \in Call : ~InLinkLayer(d) /\ (InFlight(d) => d = c)

\* As long as no waiting call is dropped, one packet an event.  The command of a
\* call that waits is with the link layer or its answer is on the way: no step
\* between the two channels, and no read that is dropped, loses what the lock is
\* held for (controller.rs:48-52, 225, 360).
AnswerToCome == \A c \in Call : pc[c] = "wait" => InLinkLayer(c) \/ InFlight(c)

\* As long as no waiting call is dropped.  The buffer of a command that the link
\* layer has, in its queue or at hand, has not been freed (controller.rs:217-229).
CommandBufferLive ==
  \A c \in Call : InLinkLayer(c) => ptr[c] \in Buffer \ free

\* As long as no waiting call is dropped.  Every path out of execute_command gives
\* its buffer back: when nobody holds the lock the pool is complete
\* (controller.rs:199-229).
NoBufferLeak == lock = None => free = Buffer

\* Two calls never own the same buffer, and no owned buffer is free, dropped
\* calls included: no buffer can be freed twice (controller.rs:199-229).
BuffersDisjoint ==
  \A c, d \in Call :
    ptr[c] # None => ptr[c] \notin free /\ (ptr[d] = ptr[c] => d = c)

\* As long as no waiting call is dropped.  read never has to wait for room in
\* CMD_SIGNAL, so packets for the host are not held up behind a response, and a
\* read that is dropped takes no response with it (controller.rs:360).
ReaderNeverBlocks == reader # "send"

\* "event to host being overwritten. this should not happen."
\* (controller.rs:51): no packet finds READ_CHANNEL full.
NothingLost == lost = {}

\* However packets and drops interleave, READ_CHANNEL is empty when an event
\* begins to run, so its first packet is never lost (controller.rs:126-132).
FirstPacketFits == ll = "run" /\ sent = 0 => read = <<>>

\* "we want to wait until the read channel is empty and all command responses
\* have been processed before we run an event" (controller.rs:123-124).
ResponsesProcessed == ll = "run" /\ sent = 0 => read = <<>> /\ cmd = <<>>

\* "This only works with the assumption that the nimble controller can only
\* handle one command at a time." (controller.rs:190-191)
OneCommand == \A c, d \in Call : InLinkLayer(c) /\ InLinkLayer(d) => c = d

\* How far a call has come, as its caller and the controller see it.
PhaseOf(c) ==
  CASE pc[c] = "idle" -> "idle"
    [] pc[c] = "lock" -> "waiting"
    [] pc[c] \in {"polling", "wait"} -> IF InFlight(c) THEN "answered" ELSE "submitted"
    [] pc[c] = "done" /\ result[c] = "Ok" -> "returned"
    [] pc[c] = "done" /\ result[c] = "Unrelated" -> "unrelated"
    [] pc[c] = "done" /\ result[c] = "dropped" -> "dropped"
    [] OTHER -> "failed"

Phase == [c \in Call |-> PhaseOf(c)]

Service == INSTANCE CommandService WITH phase <- Phase

\* As long as no waiting call is dropped.  exec keeps its promise: one command at a time, each executed
\* and answered once, and a call returns Ok only with the answer to its own
\* command (controller.rs:186-191).
ImplementsService == Service!Spec

\* As long as no waiting call is dropped, one packet an event.  Every call of exec
\* returns, whatever the radio does and however often the host gives up a read
\* (controller.rs:192-260).
CallsReturn == \A c \in Call : pc[c] = "lock" ~> pc[c] = "done"
================================================================================
