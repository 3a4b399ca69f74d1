-------------------------- MODULE HciControllerProofs --------------------------
(***************************************************************************)
(* Theorems about HciController, for any number of calls, buffers, radio   *)
(* events and packets an event sends.                                      *)
(***************************************************************************)
EXTENDS HciController, SequenceFacts, SequenceTheorems, TLAPS

--------------------------------------------------------------------------------
(***************************************************************************)
(* Type correctness.  The type alone is not inductive: a waiting call has  *)
(* a buffer to free, and read has a response to send on.                   *)
(***************************************************************************)
Owns == \A c \in Call : pc[c] \in {"polling", "wait"} => ptr[c] \in Buffer

Sending == reader = "send" => held \in Call

TInv == TypeOK /\ Owns /\ Sending

\* The initial state has the types.
LEMMA TInit == Init => TInv
<1> SUFFICES ASSUME Init PROVE TInv
  OBVIOUS
<1>1. /\ llq \in Seq(Call \cup RadioEvent) /\ Len(llq) <= Cap
      /\ read \in Seq(Call \cup {Other, Bad}) /\ Len(read) <= 1
      /\ cmd \in Seq(Call) /\ Len(cmd) <= 1
  BY ConstantsAssumption DEF Init, LL!Init
<1>2. sent \in 0..MaxPackets
  BY ConstantsAssumption DEF Init
<1>3. reader # "send" /\ \A c \in Call : pc[c] \notin {"polling", "wait"}
  BY DEF Init
<1> QED BY <1>1, <1>2, <1>3 DEF Init, TInv, TypeOK, Owns, Sending

\* A sequence of at most one element is empty or has its head alone.
LEMMA OneSlot ==
  ASSUME NEW S, NEW s \in Seq(S), Len(s) <= 1, s # <<>>
  PROVE  Head(s) \in S /\ s = <<Head(s)>>
<1>1. Head(s) \in S /\ Head(s) = s[1]
  BY HeadTailProperties
<1>2. Len(s) = 1
  <2>1. Len(s) \in Nat /\ Len(s) # 0
    BY EmptySeq, LenProperties
  <2> QED BY <2>1, SMTT(30)
<1> QED BY <1>1, <1>2

\* What a packet does to READ_CHANNEL keeps its type.
LEMMA ToHostType ==
  ASSUME TypeOK, NEW p \in Call \cup {Other, Bad, NoOp}, ToHost(p)
  PROVE  /\ read' \in Seq(Call \cup {Other, Bad}) /\ Len(read') <= 1
         /\ lost' \subseteq Call \cup {Other, Bad}
<1>1. CASE p = NoOp
  BY <1>1, ConstantsAssumption DEF ToHost, TypeOK, Other, Bad, NoOp
<1>2. CASE p # NoOp /\ read = <<>>
  <2>1. <<p>> \in Seq(Call \cup {Other, Bad}) /\ Len(<<p>>) <= 1
    BY <1>2
  <2> QED BY <1>2, <2>1 DEF ToHost, TypeOK
<1>3. CASE p # NoOp /\ read # <<>>
  BY <1>3 DEF ToHost, TypeOK
<1> QED BY <1>1, <1>2, <1>3

\* Every step keeps the types.
LEMMA TNext == TInv /\ [Next]_vars => TInv'
<1> SUFFICES ASSUME TInv, [Next]_vars PROVE TInv'
  OBVIOUS
<1> USE ConstantsAssumption DEF TInv, Owns, Sending, execVars, llVars, hostVars, Locks
<1>1. ASSUME NEW c \in Call, Exec(c) PROVE TInv'
  BY <1>1 DEF Exec, TypeOK
<1>2. ASSUME NEW c \in Call, AllocFails(c) PROVE TInv'
  BY <1>2 DEF AllocFails, Return, TypeOK
<1>3. ASSUME NEW c \in Call, Discard(c) PROVE TInv'
  BY <1>3 DEF Discard, Return, TypeOK
<1>4. ASSUME NEW c \in Call, Submit(c) PROVE TInv'
  <2>1. PICK b \in free : free' = free \ {b} /\ ptr' = [ptr EXCEPT ![c] = b]
    BY <1>4 DEF Submit
  <2>2. llq' \in Seq(Call \cup RadioEvent) /\ Len(llq') <= Cap
    BY <1>4, AppendFacts, LenProperties DEF Submit, LL!Put, TypeOK
  <2> QED BY <1>4, <2>1, <2>2 DEF Submit, TypeOK
<1>5. ASSUME NEW c \in Call, Await(c) PROVE TInv'
  BY <1>5 DEF Await, TypeOK
<1>6. ASSUME NEW c \in Call, TakeResponse(c) PROVE TInv'
  <2>1. pc[c] \in {"polling", "wait"} /\ ptr[c] \in Buffer
    BY <1>6 DEF TakeResponse
  <2>2. cmd' \in Seq(Call) /\ Len(cmd') <= 1
    BY <1>6, EmptySeq DEF TakeResponse
  <2> QED BY <1>6, <2>1, <2>2 DEF TakeResponse, Return, TypeOK
<1>7. ASSUME NEW c \in Call, DropExec(c) PROVE TInv'
  BY <1>7 DEF DropExec, Return, TypeOK
<1>8. CASE LLGet
  <2>1. Head(llq) \in Call \cup RadioEvent
    BY <1>8, TailFacts DEF LLGet, LL!Get, TypeOK
  <2>2. llq' \in Seq(Call \cup RadioEvent) /\ Len(llq') <= Cap
    BY <1>8, TailFacts, LenProperties DEF LLGet, LL!Get, TypeOK
  <2>3. ready' \subseteq {"read", "cmd"} /\ ll' \in {"join", "run"} /\ sent' \in 0..MaxPackets
    BY <1>8 DEF LLGet, PollJoin
  <2> QED BY <1>8, <2>1, <2>2, <2>3 DEF LLGet, TypeOK
<1>9. CASE LLJoin
  BY <1>9 DEF LLJoin, PollJoin, TypeOK
<1>10. CASE Respond
  <2>1. /\ read' \in Seq(Call \cup {Other, Bad}) /\ Len(read') <= 1
        /\ lost' \subseteq Call \cup {Other, Bad}
    BY <1>10, ToHostType DEF Respond
  <2> QED BY <1>10, <2>1 DEF Respond, TypeOK
<1>11. ASSUME NEW p \in {Other, Bad, NoOp}, Notify(p) PROVE TInv'
  <2>1. /\ read' \in Seq(Call \cup {Other, Bad}) /\ Len(read') <= 1
        /\ lost' \subseteq Call \cup {Other, Bad}
    BY <1>11, ToHostType DEF Notify
  <2>2. sent' \in 0..MaxPackets
    BY <1>11 DEF Notify, TypeOK
  <2> QED BY <1>11, <2>1, <2>2 DEF Notify, TypeOK
<1>12. CASE EventDone
  BY <1>12 DEF EventDone, TypeOK
<1>13. ASSUME NEW e \in RadioEvent, RadioPut(e) PROVE TInv'
  <2>1. llq' \in Seq(Call \cup RadioEvent) /\ Len(llq') <= Cap
    BY <1>13, AppendFacts, LenProperties DEF RadioPut, LL!Put, TypeOK
  <2> QED BY <1>13, <2>1 DEF RadioPut, TypeOK
<1>14. CASE Read
  BY <1>14 DEF Read, TypeOK
<1>15. CASE ReadResponse
  <2>1. read = <<Head(read)>> /\ Head(read) \in Call
    BY <1>15, OneSlot DEF ReadResponse, TypeOK
  <2>2. read' \in Seq(Call \cup {Other, Bad}) /\ Len(read') <= 1
    BY <1>15, EmptySeq DEF ReadResponse
  <2>3. <<Head(read)>> \in Seq(Call) /\ Len(<<Head(read)>>) <= 1
    BY <2>1
  <2> QED BY <1>15, <2>1, <2>2, <2>3 DEF ReadResponse, TypeOK
<1>16. CASE SendResponse
  BY <1>16 DEF SendResponse, TypeOK
<1>17. CASE ReadPacket
  <2>1. read' \in Seq(Call \cup {Other, Bad}) /\ Len(read') <= 1
    BY <1>17, EmptySeq DEF ReadPacket
  <2> QED BY <1>17, <2>1 DEF ReadPacket, TypeOK
<1>18. CASE DropRead
  BY <1>18 DEF DropRead, TypeOK
<1>19. CASE UNCHANGED vars
  BY <1>19 DEF vars, TypeOK
<1> QED
  BY <1>1, <1>2, <1>3, <1>4, <1>5, <1>6, <1>7, <1>8, <1>9, <1>10, <1>11, <1>12,
     <1>13, <1>14, <1>15, <1>16, <1>17, <1>18, <1>19
     DEF Next, CallStep, LLStep, ReadStep, ReadPoll

\* Every variable keeps its type, whatever is dropped or lost.
THEOREM TypeCorrect == Spec => []TypeOK
<1>1. TInv => TypeOK
  BY DEF TInv
<1> QED BY <1>1, TInit, TNext, PTL DEF Spec
--------------------------------------------------------------------------------
(***************************************************************************)
(* Room in READ_CHANNEL.  join's memory that READ_CHANNEL was empty stays  *)
(* right, because only an event fills it; nothing here depends on drops.   *)
(***************************************************************************)
Room ==
  /\ ll = "run" => "read" \in ready
  /\ ll = "join" => sent = 0
  /\ ll # "get" /\ "read" \in ready /\ sent = 0 => read = <<>>

\* A step outside ble_ll_task can only empty READ_CHANNEL.
LEMMA RoomOutside ==
  ASSUME Room, UNCHANGED llVars, read' = read \/ read' = <<>>
  PROVE  Room'
BY DEF Room, llVars

\* Every step keeps what join remembers of READ_CHANNEL right.
LEMMA RoomNext == TInv /\ Room /\ [Next]_vars => Room'
<1> SUFFICES ASSUME TInv, Room, [Next]_vars PROVE Room'
  OBVIOUS
<1>1. CASE \E c \in Call : Exec(c) \/ CallStep(c) \/ DropExec(c)
  BY <1>1, RoomOutside
     DEF Exec, CallStep, AllocFails, Discard, Submit, Await, TakeResponse, DropExec
<1>2. CASE LLGet
  BY <1>2 DEF LLGet, PollJoin, Room
<1>3. CASE LLJoin
  BY <1>3 DEF LLJoin, PollJoin, Room
<1>4. CASE Respond \/ \E p \in {Other, Bad, NoOp} : Notify(p)
  <2>1. ll' = "run" /\ ready' = ready /\ sent' = sent + 1 /\ ll = "run"
    BY <1>4 DEF Respond, Notify
  <2>2. sent' # 0
    BY <2>1, ConstantsAssumption DEF TInv, TypeOK
  <2> QED BY <2>1, <2>2 DEF Room
<1>5. CASE EventDone
  BY <1>5 DEF EventDone, Room
<1>6. CASE (\E e \in RadioEvent : RadioPut(e)) \/ ReadStep \/ DropRead
  BY <1>6, RoomOutside
     DEF RadioPut, ReadStep, ReadPoll, Read, ReadResponse, SendResponse, ReadPacket, DropRead
<1>7. CASE UNCHANGED vars
  BY <1>7, RoomOutside DEF vars
<1> QED
  BY <1>1, <1>2, <1>3, <1>4, <1>5, <1>6, <1>7 DEF Next, LLStep

\* So it is always right.
LEMMA RoomAlways == Spec => [](TInv /\ Room)
<1>1. Init => TInv /\ Room
  BY TInit DEF Init, Room
<1> QED BY <1>1, TNext, RoomNext, PTL DEF Spec

\* READ_CHANNEL is empty when an event begins to run, so that its first packet
\* is never lost, whatever the host drops (controller.rs:126-132).
THEOREM FirstPacketAlwaysFits == Spec => []FirstPacketFits
<1>1. Room => FirstPacketFits
  BY DEF Room, FirstPacketFits
<1> QED BY <1>1, RoomAlways, PTL

\* When no event sends more than one packet, no packet is ever lost
\* (controller.rs:48-52), also when the host drops futures.
THEOREM OnePacketLosesNothing ==
  ASSUME MaxPackets = 1
  PROVE  Spec => []NothingLost
<1>1. TInv /\ Room /\ NothingLost /\ [Next]_vars => NothingLost'
  <2> SUFFICES ASSUME TInv, Room, NothingLost, [Next]_vars PROVE NothingLost'
    OBVIOUS
  <2>1. CASE Respond \/ \E p \in {Other, Bad, NoOp} : Notify(p)
    <3>1. ll = "run" /\ (sent < 1 \/ sent < 0)
      BY <2>1 DEF Respond, Notify
    <3>2. sent = 0
      <4>1. sent \in 0..1
        BY DEF TInv, TypeOK
      <4> QED BY <3>1, <4>1
    <3>3. read = <<>>
      BY <3>1, <3>2 DEF Room
    <3> QED BY <2>1, <3>3 DEF Respond, Notify, ToHost, NothingLost
  <2>2. CASE UNCHANGED lost
    BY <2>2 DEF NothingLost
  <2>3. Respond \/ (\E p \in {Other, Bad, NoOp} : Notify(p)) \/ UNCHANGED lost
    BY DEF Next, CallStep, LLStep, ReadStep, ReadPoll, Exec, AllocFails, Discard, Submit,
           Await, TakeResponse, DropExec, LLGet, LLJoin, EventDone, RadioPut, Read,
           ReadResponse, SendResponse, ReadPacket, DropRead, vars
  <2> QED BY <2>1, <2>2, <2>3
<1>2. Init => NothingLost
  BY DEF Init, NothingLost
<1> QED BY <1>1, <1>2, RoomAlways, PTL DEF Spec
--------------------------------------------------------------------------------
(***************************************************************************)
(* Command buffers, with or without drops.                                 *)
(***************************************************************************)
\* Only a submission takes a buffer from the pool, and only a call that has its
\* answer gives one back.
LEMMA BufferSteps ==
  ASSUME [Next]_vars
  PROVE  \/ \E c \in Call : Submit(c) \/ TakeResponse(c)
         \/ UNCHANGED <<ptr, free>>
BY DEF Next, CallStep, LLStep, ReadStep, ReadPoll, Exec, AllocFails, Discard, Await,
       DropExec, LLGet, LLJoin, Respond, Notify, EventDone, RadioPut, Read,
       ReadResponse, SendResponse, ReadPacket, DropRead, vars, execVars

\* No buffer has two owners, and none that has an owner is in the pool, also
\* after the futures of exec have been dropped: no buffer is freed twice
\* (controller.rs:199-229).
THEOREM BuffersStayDisjoint == Spec => []BuffersDisjoint
<1>1. TInv /\ BuffersDisjoint /\ [Next]_vars => BuffersDisjoint'
  <2> SUFFICES ASSUME TInv, BuffersDisjoint, [Next]_vars PROVE BuffersDisjoint'
    OBVIOUS
  <2> USE ConstantsAssumption DEF TInv, TypeOK
  <2>1. ASSUME NEW c \in Call, Submit(c) PROVE BuffersDisjoint'
    <3>1. PICK b \in free : free' = free \ {b} /\ ptr' = [ptr EXCEPT ![c] = b]
      BY <2>1 DEF Submit
    <3> QED BY <3>1 DEF BuffersDisjoint
  <2>2. ASSUME NEW c \in Call, TakeResponse(c) PROVE BuffersDisjoint'
    <3>1. ptr[c] # None /\ free' = free \cup {ptr[c]} /\ ptr' = [ptr EXCEPT ![c] = None]
      BY <2>2 DEF TakeResponse, Owns
    <3> QED BY <3>1 DEF BuffersDisjoint
  <2>3. CASE UNCHANGED <<ptr, free>>
    BY <2>3 DEF BuffersDisjoint
  <2> QED BY <2>1, <2>2, <2>3, BufferSteps
<1>2. Init => BuffersDisjoint
  BY DEF Init, BuffersDisjoint
<1> QED BY <1>1, <1>2, TInit, TNext, PTL DEF Spec
--------------------------------------------------------------------------------
(***************************************************************************)
(* The link layer's queue, with or without drops: the guard of Put never   *)
(* holds a call or the radio up, as the code would not hold them up but    *)
(* panic.                                                                  *)
(***************************************************************************)
\* Everything is in the queue once, and a command after its call has the lock.
QueuedOnce ==
  /\ Distinct(llq)
  /\ \A c \in Call : Member(llq, c) => pc[c] \notin {"idle", "lock"}

\* A step puts one event on the queue, takes one off, or leaves it alone.
LEMMA QueueSteps ==
  ASSUME [Next]_vars
  PROVE  \/ \E c \in Call : Submit(c)
         \/ \E e \in RadioEvent : RadioPut(e)
         \/ LLGet
         \/ /\ UNCHANGED llq
            /\ \/ UNCHANGED pc
               \/ \E c \in Call, p \in {"lock", "wait", "done"} :
                    /\ p = "lock" => pc[c] = "idle"
                    /\ pc' = [pc EXCEPT ![c] = p]
<1> SUFFICES ASSUME ~\E c \in Call : Submit(c), ~\E e \in RadioEvent : RadioPut(e), ~LLGet
             PROVE  /\ UNCHANGED llq
                    /\ \/ UNCHANGED pc
                       \/ \E c \in Call, p \in {"lock", "wait", "done"} :
                            /\ p = "lock" => pc[c] = "idle"
                            /\ pc' = [pc EXCEPT ![c] = p]
  OBVIOUS
<1>1. ASSUME NEW c \in Call,
             Exec(c) \/ AllocFails(c) \/ Discard(c) \/ Await(c) \/ TakeResponse(c) \/ DropExec(c)
      PROVE  /\ UNCHANGED llq
             /\ \E p \in {"lock", "wait", "done"} :
                  /\ p = "lock" => pc[c] = "idle"
                  /\ pc' = [pc EXCEPT ![c] = p]
  BY <1>1 DEF Exec, AllocFails, Discard, Await, TakeResponse, DropExec, Return
<1>2. CASE LLJoin \/ Respond \/ EventDone \/ (\E p \in {Other, Bad, NoOp} : Notify(p))
           \/ Read \/ ReadResponse \/ SendResponse \/ ReadPacket \/ DropRead \/ UNCHANGED vars
  BY <1>2 DEF LLJoin, Respond, Notify, EventDone, Read, ReadResponse, SendResponse,
              ReadPacket, DropRead, vars, execVars
<1> QED BY <1>1, <1>2 DEF Next, CallStep, LLStep, ReadStep, ReadPoll

LEMMA QueuedOnceNext == TInv /\ QueuedOnce /\ [Next]_vars => QueuedOnce'
<1> SUFFICES ASSUME TInv, QueuedOnce, [Next]_vars PROVE QueuedOnce'
  OBVIOUS
<1>t. /\ llq \in Seq(Call \cup RadioEvent)
      /\ pc \in [Call -> {"idle", "lock", "polling", "wait", "done"}]
  BY DEF TInv, TypeOK
<1>1. ASSUME NEW c \in Call, Submit(c) PROVE QueuedOnce'
  <2>1. pc[c] = "lock" /\ llq' = Append(llq, c) /\ pc' = [pc EXCEPT ![c] = "polling"]
    BY <1>1 DEF Submit, Locks, LL!Put
  <2>2. ~Member(llq, c)
    BY <2>1 DEF QueuedOnce
  <2>3. Distinct(llq') /\ \A d \in Call : Member(llq', d) => Member(llq, d) \/ d = c
    BY <1>t, <2>1, <2>2, AppendFacts DEF QueuedOnce
  <2> QED BY <1>t, <2>1, <2>3 DEF QueuedOnce
<1>2. ASSUME NEW e \in RadioEvent, RadioPut(e) PROVE QueuedOnce'
  <2>1. ~Member(llq, e) /\ llq' = Append(llq, e) /\ pc' = pc
    BY <1>2 DEF RadioPut, LL!Put, Member, execVars
  <2>2. Distinct(llq') /\ \A d \in Call : Member(llq', d) => Member(llq, d)
    BY <1>t, <2>1, AppendFacts, ConstantsAssumption DEF QueuedOnce
  <2> QED BY <2>1, <2>2 DEF QueuedOnce
<1>3. CASE LLGet
  <2>1. llq # <<>> /\ llq' = Tail(llq) /\ pc' = pc
    BY <1>3 DEF LLGet, LL!Get, execVars
  <2>2. Distinct(llq') /\ \A d : Member(llq', d) => Member(llq, d)
    BY <1>t, <2>1, TailFacts DEF QueuedOnce
  <2> QED BY <2>1, <2>2 DEF QueuedOnce
<1>4. CASE UNCHANGED llq /\ UNCHANGED pc
  BY <1>4 DEF QueuedOnce, Member, Distinct
<1>5. ASSUME NEW c \in Call, NEW p \in {"lock", "wait", "done"}, UNCHANGED llq,
             p = "lock" => pc[c] = "idle", pc' = [pc EXCEPT ![c] = p]
      PROVE  QueuedOnce'
  BY <1>t, <1>5 DEF QueuedOnce, Member, Distinct
<1> QED BY <1>1, <1>2, <1>3, <1>4, <1>5, QueueSteps

\* A call that has the lock finds room for its command, and so does the radio for an
\* event that is not on the queue yet, also when calls have been dropped and their
\* commands are still there: the put does not find the channel full, where it would
\* panic (controller.rs:217, embassy.rs:115).  ConstantsAssumption has Cap larger than
\* the number of calls and radio events together.
QueueHasRoom ==
  /\ \A c \in Call : pc[c] = "lock" => Len(llq) < Cap
  /\ \A e \in RadioEvent : ~Member(llq, e) => Len(llq) < Cap

THEOREM CommandsFindRoom == Spec => []QueueHasRoom
<1>1. Init => QueuedOnce
  BY DEF Init, LL!Init, QueuedOnce, Distinct, Member
<1>2. TInv /\ QueuedOnce => QueueHasRoom
  <2> SUFFICES ASSUME TInv, QueuedOnce,
                      NEW x \in Call \cup RadioEvent, ~Member(llq, x)
               PROVE  Len(llq) < Cap
    BY DEF QueueHasRoom, QueuedOnce
  <2> DEFINE All == Call \cup RadioEvent
  <2>1. llq \in Seq(All) /\ Distinct(llq)
    BY DEF TInv, TypeOK, QueuedOnce
  <2>2. IsFiniteSet(All) /\ Cardinality(All) <= Cardinality(Call) + Cardinality(RadioEvent)
    <3>1. /\ IsFiniteSet(Call) /\ IsFiniteSet(RadioEvent) /\ Call \cap RadioEvent = {}
      BY ConstantsAssumption
    <3>2. /\ Cardinality(All) = Cardinality(Call) + Cardinality(RadioEvent)
                                 - Cardinality(Call \cap RadioEvent)
          /\ IsFiniteSet(All)
      BY <3>1, FS_Union
    <3>3. Cardinality(Call \cap RadioEvent) = 0
      BY <3>1, FS_EmptySet
    <3>4. Cardinality(Call) \in Nat /\ Cardinality(RadioEvent) \in Nat
      BY <3>1, FS_CardinalityType
    <3> QED BY <3>2, <3>3, <3>4
  <2>3. Len(llq) < Cardinality(All)
    BY <2>1, <2>2, DistinctIsShort
  <2>4. /\ Len(llq) \in Nat /\ Cardinality(All) \in Nat
        /\ Cardinality(Call) \in Nat /\ Cardinality(RadioEvent) \in Nat
    BY <2>1, <2>2, LenProperties, FS_CardinalityType, ConstantsAssumption
  <2> QED BY <2>2, <2>3, <2>4, ConstantsAssumption
<1> QED BY <1>1, <1>2, TInit, TNext, QueuedOnceNext, PTL DEF Spec
--------------------------------------------------------------------------------
(***************************************************************************)
(* Commands and their answers, when the host drops no call that waits for  *)
(* its answer; calls that wait for their turn, and reads, it may drop.     *)
(* The invariant follows a command from the call that holds the lock       *)
(* through the link layer and back: it is in at most one place at any      *)
(* time, so that its answer comes once and nobody else can be waiting for  *)
(* it.                                                                     *)
(***************************************************************************)
WaitersStay == "wait" \notin CanDrop

AtHand(c) == cur = c /\ ll # "get" /\ ~answered

\* The lock is held by the call that waits for its answer.
LockHeld == \A c \in Call : lock = c <=> pc[c] \in {"polling", "wait"}

\* That call has the one buffer that is not in the pool.
Pool == \/ lock = None /\ free = Buffer
        \/ \E c \in Call : lock = c /\ free = Buffer \ {ptr[c]}

\* No event runs during a poll of exec.
PollAlone == \A c \in Call : pc[c] = "polling" => ll # "run"

\* A command and its answer belong to the call that holds the lock.
Placed == \A c \in Call : InFlight(c) \/ Member(llq, c) \/ AtHand(c) => lock = c

\* The call waits when its answer is on the way.
Awaited == \A c \in Call : InFlight(c) => pc[c] = "wait"

\* A command is in one place at a time, and in the queue once.
OnePlace ==
  /\ Distinct(llq)
  /\ \A c \in Call :
       /\ Member(llq, c) => ~AtHand(c) /\ ~InFlight(c)
       /\ AtHand(c) => ~InFlight(c)
       /\ read = <<c>> => cmd # <<c>>

\* read never waits to send a response on.
NothingHeld == reader # "send" /\ held = None

SInv ==
  /\ LockHeld /\ Pool /\ PollAlone /\ Placed /\ Awaited /\ OnePlace /\ NothingHeld

\* What a single slot holds, by name.
LEMMA Slots ==
  ASSUME TypeOK
  PROVE  /\ cmd # <<>> => Head(cmd) \in Call /\ cmd = <<Head(cmd)>>
         /\ read # <<>> => Head(read) \in Call \cup {Other, Bad} /\ read = <<Head(read)>>
BY OneSlot DEF TypeOK

\* Nothing is anywhere at the start.
LEMMA SInit == Init => SInv
<1> SUFFICES ASSUME Init PROVE SInv
  OBVIOUS
<1> USE ConstantsAssumption
<1>1. \A c \in Call : c # None /\ ~Member(llq, c) /\ ~AtHand(c) /\ ~InFlight(c)
  BY DEF Init, LL!Init, Member, AtHand, InFlight
<1>2. Distinct(llq)
  BY DEF Init, LL!Init, Distinct
<1> QED
  BY <1>1, <1>2
     DEF Init, SInv, LockHeld, Pool, PollAlone, Placed, Awaited, OnePlace, NothingHeld

\* The steps of exec.
LEMMA SExec ==
  ASSUME WaitersStay, TInv, SInv, NEW c \in Call,
         Exec(c) \/ AllocFails(c) \/ Discard(c) \/ Await(c) \/ DropExec(c)
  PROVE  SInv'
<1> USE ConstantsAssumption DEF execVars, llVars, hostVars
<1>1. /\ UNCHANGED <<lock, ptr, free, llq, llVars, read, cmd, hostVars>>
      /\ \A d \in Call \ {c} : pc'[d] = pc[d]
      /\ \/ pc[c] = "polling" /\ pc'[c] = "wait"
         \/ {pc[c], pc'[c]} \subseteq {"idle", "lock", "done"}
  BY DEF WaitersStay, TInv, TypeOK, Exec, AllocFails, Discard, Await, DropExec, Return, Locks,
         SInv, LockHeld
<1>2. (\A d \in Call : InFlight(d)' <=> InFlight(d)) /\ (\A d \in Call : AtHand(d)' <=> AtHand(d))
  BY <1>1 DEF InFlight, AtHand
<1>3. LockHeld' /\ PollAlone' /\ Awaited'
  BY <1>1, <1>2 DEF SInv, LockHeld, PollAlone, Awaited
<1>4. Pool' /\ Placed' /\ OnePlace' /\ NothingHeld'
  BY <1>1, <1>2 DEF SInv, Pool, Placed, OnePlace, NothingHeld
<1> QED BY <1>3, <1>4 DEF SInv

\* A submission finds nothing under way, and its command is in the queue alone.
LEMMA SSubmit ==
  ASSUME TInv, SInv, NEW c \in Call, Submit(c)
  PROVE  SInv'
<1> USE ConstantsAssumption DEF execVars, llVars, hostVars
<1>1. /\ lock = None /\ lock' = c /\ ll # "run"
      /\ pc' = [pc EXCEPT ![c] = "polling"]
      /\ UNCHANGED <<llVars, read, cmd, hostVars>>
      /\ llq' = Append(llq, c)
  BY DEF Submit, Locks, BetweenPolls, LL!Put
<1>2. PICK b \in free : free' = free \ {b} /\ ptr' = [ptr EXCEPT ![c] = b]
  BY DEF Submit
<1>3. \A d \in Call : ~InFlight(d) /\ ~Member(llq, d) /\ ~AtHand(d)
                      /\ pc[d] \notin {"polling", "wait"}
  BY <1>1 DEF SInv, Placed, LockHeld
<1>4. \A d \in Call : ~InFlight(d)' /\ ~AtHand(d)' /\ (Member(llq', d) => d = c)
  <2>1. \A d \in Call : ~InFlight(d)' /\ ~AtHand(d)'
    BY <1>1, <1>3 DEF InFlight, AtHand
  <2> QED BY <1>1, <1>3, <2>1, AppendFacts DEF TInv, TypeOK
<1>5. Distinct(llq')
  BY <1>1, <1>3, AppendFacts DEF TInv, TypeOK, SInv, OnePlace
<1>6. LockHeld' /\ PollAlone' /\ Awaited'
  BY <1>1, <1>3, <1>4 DEF TInv, TypeOK, LockHeld, PollAlone, Awaited
<1>7. Pool'
  BY <1>1, <1>2 DEF TInv, TypeOK, SInv, Pool
<1>8. Placed'
  BY <1>1, <1>4 DEF Placed
<1>9. OnePlace'
  <2>1. \A d \in Call : read' # <<d>>
    BY <1>4 DEF InFlight
  <2> QED BY <1>4, <1>5, <2>1 DEF OnePlace
<1>10. NothingHeld'
  BY <1>1 DEF SInv, NothingHeld
<1> QED BY <1>6, <1>7, <1>8, <1>9, <1>10 DEF SInv

\* The response in CMD_SIGNAL is the one the waiting call has asked for.
LEMMA OwnResponse ==
  ASSUME TInv, SInv, NEW c \in Call, TakeResponse(c)
  PROVE  cmd = <<c>> /\ lock = c /\ pc[c] = "wait"
<1>1. Head(cmd) \in Call /\ cmd = <<Head(cmd)>>
  BY Slots DEF TInv, TakeResponse
<1>2. InFlight(Head(cmd))
  BY <1>1 DEF InFlight
<1>3. lock = c
  BY DEF TakeResponse, SInv, LockHeld
<1>4. lock = Head(cmd)
  BY <1>1, <1>2 DEF SInv, Placed
<1> QED BY <1>1, <1>2, <1>3, <1>4 DEF SInv, Awaited

\* The answer that is taken was in CMD_SIGNAL alone.
LEMMA STakeResponse ==
  ASSUME TInv, SInv, NEW c \in Call, TakeResponse(c)
  PROVE  SInv'
<1> USE ConstantsAssumption DEF execVars, llVars, hostVars
<1>1. cmd = <<c>> /\ lock = c /\ pc[c] = "wait" /\ ptr[c] \in Buffer
  BY OwnResponse DEF TInv, Owns
<1>2. /\ lock' = None /\ pc' = [pc EXCEPT ![c] = "done"]
      /\ free' = free \cup {ptr[c]} /\ cmd' = <<>>
      /\ UNCHANGED <<llq, llVars, read, hostVars>>
  BY DEF TakeResponse, Return
<1>3. \A d \in Call : ~Member(llq, d) /\ ~AtHand(d) /\ read # <<d>> /\ held # d
  <2>1. InFlight(c)
    BY <1>1 DEF InFlight
  <2>2. \A d \in Call : d # c => ~InFlight(d) /\ ~Member(llq, d) /\ ~AtHand(d)
    BY <1>1 DEF SInv, Placed
  <2>3. ~Member(llq, c) /\ ~AtHand(c) /\ read # <<c>>
    BY <1>1, <2>1 DEF SInv, OnePlace
  <2> QED BY <2>2, <2>3 DEF InFlight, SInv, NothingHeld
<1>4. \A d \in Call : ~InFlight(d)' /\ ~AtHand(d)' /\ ~Member(llq', d)
  BY <1>2, <1>3 DEF InFlight, AtHand
<1>5. LockHeld' /\ PollAlone' /\ Awaited'
  BY <1>1, <1>2, <1>4 DEF TInv, TypeOK, SInv, LockHeld, PollAlone, Awaited
<1>6. Pool'
  BY <1>1, <1>2 DEF TInv, TypeOK, SInv, Pool
<1>7. Placed' /\ OnePlace' /\ NothingHeld'
  BY <1>2, <1>3, <1>4 DEF SInv, Placed, OnePlace, NothingHeld
<1> QED BY <1>5, <1>6, <1>7 DEF SInv

\* The steps of ble_ll_task, and the radio's.
LEMMA SLLGet == TInv /\ SInv /\ LLGet => SInv'
<1> SUFFICES ASSUME TInv, SInv, LLGet PROVE SInv'
  OBVIOUS
<1> USE ConstantsAssumption DEF execVars, llVars, hostVars
<1>1. /\ ll = "get" /\ ll' # "get" /\ cur' = Head(llq) /\ ~answered'
      /\ llq # <<>> /\ llq' = Tail(llq)
      /\ UNCHANGED <<execVars, read, cmd, hostVars>>
      /\ \A c \in Call : pc[c] # "polling"
  BY DEF LLGet, LL!Get, PollJoin, BetweenPolls
<1>2. \A c \in Call : /\ ~AtHand(c)
                      /\ InFlight(c)' <=> InFlight(c)
                      /\ AtHand(c)' <=> c = Head(llq)
                      /\ Member(llq, c) <=> c = Head(llq) \/ Member(llq', c)
  <2>1. \A c \in Call : Member(llq, c) <=> c = Head(llq) \/ Member(Tail(llq), c)
    BY <1>1, TailFacts DEF TInv, TypeOK
  <2> QED BY <1>1, <2>1 DEF AtHand, InFlight
<1>3. Distinct(llq') /\ ~Member(llq', Head(llq))
  BY <1>1, TailFacts DEF TInv, TypeOK, SInv, OnePlace
<1>4. LockHeld' /\ Pool' /\ PollAlone' /\ Awaited' /\ NothingHeld'
  BY <1>1, <1>2 DEF SInv, LockHeld, Pool, PollAlone, Awaited, NothingHeld
<1>5. Placed'
  BY <1>1, <1>2 DEF SInv, Placed
<1>6. OnePlace'
  BY <1>1, <1>2, <1>3 DEF SInv, OnePlace
<1> QED BY <1>4, <1>5, <1>6 DEF SInv

\* Waiting for room moves nothing.
LEMMA SLLJoin == TInv /\ SInv /\ LLJoin => SInv'
<1> SUFFICES ASSUME TInv, SInv, LLJoin PROVE SInv'
  OBVIOUS
<1> USE DEF execVars, llVars, hostVars
<1>1. /\ ll # "get" /\ ll' # "get"
      /\ UNCHANGED <<execVars, llq, cur, answered, read, cmd, hostVars>>
      /\ \A c \in Call : pc[c] # "polling"
  BY DEF LLJoin, PollJoin, BetweenPolls
<1>2. \A c \in Call : (InFlight(c)' <=> InFlight(c)) /\ (AtHand(c)' <=> AtHand(c))
  BY <1>1 DEF InFlight, AtHand
<1> QED
  BY <1>1, <1>2
     DEF SInv, LockHeld, Pool, PollAlone, Placed, Awaited, OnePlace, NothingHeld

\* A packet that is not a response leaves every command and answer where it is.
LEMMA SNotify ==
  ASSUME TInv, SInv, NEW p \in {Other, Bad, NoOp}, Notify(p)
  PROVE  SInv'
<1> USE ConstantsAssumption DEF execVars, llVars, hostVars
<1>1. /\ UNCHANGED <<execVars, llq, ll, cur, answered, cmd, hostVars>>
      /\ read' = read \/ (read = <<>> /\ read' = <<p>>)
  BY DEF Notify, ToHost
<1>2. \A c \in Call : read' = <<c>> <=> read = <<c>>
  <2> SUFFICES ASSUME NEW c \in Call, read = <<>>, read' = <<p>> PROVE <<p>> # <<c>>
    BY <1>1
  <2>1. p # c
    OBVIOUS
  <2> QED BY <2>1
<1>3. \A c \in Call : (InFlight(c)' <=> InFlight(c)) /\ (AtHand(c)' <=> AtHand(c))
  BY <1>1, <1>2 DEF InFlight, AtHand
<1> QED
  BY <1>1, <1>2, <1>3
     DEF SInv, LockHeld, Pool, PollAlone, Placed, Awaited, OnePlace, NothingHeld

\* The command at hand becomes its answer.
LEMMA SRespond == TInv /\ SInv /\ Respond => SInv'
<1> SUFFICES ASSUME TInv, SInv, Respond PROVE SInv'
  OBVIOUS
<1> USE ConstantsAssumption DEF execVars, llVars, hostVars
<1>1. /\ ll = "run" /\ cur \in Call /\ ~answered /\ answered'
      /\ UNCHANGED <<execVars, llq, ll, cur, cmd, hostVars>>
      /\ read' = read \/ (read = <<>> /\ read' = <<cur>>)
  BY DEF Respond, ToHost
<1>2. AtHand(cur) /\ lock = cur /\ pc[cur] = "wait"
  <2>1. AtHand(cur) /\ lock = cur
    BY <1>1 DEF AtHand, SInv, Placed
  <2> QED BY <1>1, <2>1 DEF SInv, LockHeld, PollAlone
<1>3. ~Member(llq, cur) /\ ~InFlight(cur)
  BY <1>1, <1>2 DEF SInv, OnePlace
<1>4. \A c \in Call : ~AtHand(c)' /\ (read' = <<c>> => c = cur \/ read = <<c>>)
  <2>1. \A c \in Call : <<cur>> = <<c>> => c = cur
    OBVIOUS
  <2> QED BY <1>1, <2>1 DEF AtHand
<1>5. \A c \in Call : InFlight(c)' => c = cur \/ InFlight(c)
  BY <1>1, <1>4 DEF InFlight
<1>6. LockHeld' /\ Pool' /\ PollAlone' /\ NothingHeld'
  <2>1. PollAlone'
    BY <1>1 DEF SInv, PollAlone
  <2> QED BY <1>1, <2>1 DEF SInv, LockHeld, Pool, NothingHeld
<1>7. Placed' /\ Awaited'
  BY <1>1, <1>2, <1>4, <1>5 DEF SInv, Placed, Awaited
<1>8. OnePlace'
  <2>1. \A c \in Call : Member(llq, c) => ~InFlight(c)'
    BY <1>3, <1>5 DEF SInv, OnePlace
  <2>2. \A c \in Call : read' = <<c>> => cmd' # <<c>>
    BY <1>1, <1>3, <1>4 DEF SInv, OnePlace, InFlight
  <2> QED BY <1>1, <1>4, <2>1, <2>2 DEF SInv, OnePlace
<1> QED BY <1>6, <1>7, <1>8 DEF SInv

\* An event that has answered leaves nothing at hand.
LEMMA SEventDone == TInv /\ SInv /\ EventDone => SInv'
<1> SUFFICES ASSUME TInv, SInv, EventDone PROVE SInv'
  OBVIOUS
<1> USE ConstantsAssumption DEF execVars, llVars, hostVars
<1>1. ll' = "get" /\ UNCHANGED <<execVars, llq, read, cmd, hostVars>>
  BY DEF EventDone
<1>2. \A c \in Call : ~AtHand(c)' /\ (InFlight(c)' <=> InFlight(c))
  BY <1>1 DEF AtHand, InFlight
<1> QED
  BY <1>1, <1>2
     DEF SInv, LockHeld, Pool, PollAlone, Placed, Awaited, OnePlace, NothingHeld

\* The radio's events are not commands.
LEMMA SRadioPut ==
  ASSUME TInv, SInv, NEW e \in RadioEvent, RadioPut(e)
  PROVE  SInv'
<1> USE ConstantsAssumption DEF execVars, llVars, hostVars
<1>1. /\ ~Member(llq, e) /\ llq' = Append(llq, e)
      /\ UNCHANGED <<execVars, llVars, read, cmd, hostVars>>
  BY DEF RadioPut, LL!Put, Member
<1>2. Distinct(llq') /\ \A c \in Call : Member(llq', c) <=> Member(llq, c)
  BY <1>1, AppendFacts DEF TInv, TypeOK, SInv, OnePlace
<1>3. \A c \in Call : (AtHand(c)' <=> AtHand(c)) /\ (InFlight(c)' <=> InFlight(c))
  BY <1>1 DEF AtHand, InFlight
<1> QED
  BY <1>1, <1>2, <1>3
     DEF SInv, LockHeld, Pool, PollAlone, Placed, Awaited, OnePlace, NothingHeld

\* read finds room in CMD_SIGNAL for a response.
LEMMA ResponseHasRoom ==
  ASSUME TInv, SInv, ReadResponse
  PROVE  cmd = <<>> /\ \E c \in Call : read = <<c>> /\ lock = c
<1>1. PICK c \in Call : read = <<c>>
  BY Slots DEF ReadResponse, TInv
<1>2. InFlight(c) /\ lock = c
  BY <1>1 DEF InFlight, SInv, Placed
<1>3. ASSUME cmd # <<>> PROVE FALSE
  <2>1. PICK d \in Call : cmd = <<d>>
    BY <1>3, Slots DEF TInv
  <2>2. d = c
    BY <1>2, <2>1 DEF InFlight, SInv, Placed
  <2> QED BY <1>1, <2>1, <2>2 DEF SInv, OnePlace
<1> QED BY <1>1, <1>2, <1>3

\* The steps of read.
LEMMA SReadResponse == TInv /\ SInv /\ ReadResponse => SInv'
<1> SUFFICES ASSUME TInv, SInv, ReadResponse PROVE SInv'
  OBVIOUS
<1> USE ConstantsAssumption DEF execVars, llVars, hostVars
<1>1. PICK c \in Call : read = <<c>>
  BY ResponseHasRoom
<1>2. cmd = <<>>
  BY ResponseHasRoom
<1>3. read' = <<>> /\ cmd' = <<c>> /\ UNCHANGED <<execVars, llq, llVars, hostVars>>
  BY <1>1, <1>2 DEF ReadResponse
<1>4. \A d \in Call : (AtHand(d)' <=> AtHand(d)) /\ (InFlight(d)' <=> InFlight(d))
  <2>1. \A d \in Call : (read = <<d>> <=> d = c) /\ (cmd' = <<d>> <=> d = c)
    BY <1>1, <1>3
  <2> QED BY <1>2, <1>3, <2>1 DEF AtHand, InFlight
<1> QED
  BY <1>3, <1>4
     DEF SInv, LockHeld, Pool, PollAlone, Placed, Awaited, OnePlace, NothingHeld

\* The other steps of read move no answer: one that is dropped has none.
LEMMA SRead == TInv /\ SInv /\ (Read \/ SendResponse \/ ReadPacket \/ DropRead) => SInv'
<1> SUFFICES ASSUME TInv, SInv, Read \/ SendResponse \/ ReadPacket \/ DropRead PROVE SInv'
  OBVIOUS
<1> USE ConstantsAssumption DEF execVars, llVars, hostVars
<1>1. /\ reader' # "send" /\ UNCHANGED <<execVars, llq, llVars, cmd, held>>
      /\ read' = read \/ (read' = <<>> /\ \A c \in Call : read # <<c>>)
  BY DEF Read, SendResponse, ReadPacket, DropRead, SInv, NothingHeld
<1>2. \A c \in Call : read' = <<c>> <=> read = <<c>>
  BY <1>1
<1>3. \A c \in Call : (AtHand(c)' <=> AtHand(c)) /\ (InFlight(c)' <=> InFlight(c))
  BY <1>1, <1>2 DEF AtHand, InFlight
<1> QED
  BY <1>1, <1>2, <1>3
     DEF SInv, LockHeld, Pool, PollAlone, Placed, Awaited, OnePlace, NothingHeld

\* Every step keeps the invariant when no waiting call is dropped.
LEMMA SNext == WaitersStay /\ TInv /\ SInv /\ [Next]_vars => SInv'
<1> SUFFICES ASSUME WaitersStay, TInv, SInv, [Next]_vars PROVE SInv'
  OBVIOUS
<1>1. ASSUME NEW c \in Call, Exec(c) \/ CallStep(c) \/ DropExec(c) PROVE SInv'
  <2>1. CASE Exec(c) \/ AllocFails(c) \/ Discard(c) \/ Await(c) \/ DropExec(c)
    BY <2>1, SExec
  <2>2. CASE Submit(c)
    BY <2>2, SSubmit
  <2>3. CASE TakeResponse(c)
    BY <2>3, STakeResponse
  <2> QED BY <1>1, <2>1, <2>2, <2>3 DEF CallStep
<1>2. CASE LLStep
  BY <1>2, SLLGet, SLLJoin, SRespond, SNotify, SEventDone DEF LLStep
<1>3. CASE ReadStep \/ DropRead
  BY <1>3, SReadResponse, SRead DEF ReadStep, ReadPoll
<1>4. CASE UNCHANGED vars
  <2>1. \A c \in Call : (AtHand(c)' <=> AtHand(c)) /\ (InFlight(c)' <=> InFlight(c))
    BY <1>4 DEF vars, execVars, llVars, hostVars, AtHand, InFlight
  <2> QED
    BY <1>4, <2>1
       DEF vars, execVars, llVars, hostVars, SInv, LockHeld, Pool, PollAlone, Placed,
           Awaited, OnePlace, NothingHeld
<1> QED BY <1>1, <1>2, <1>3, <1>4, SRadioPut DEF Next

\* So it always holds.
LEMMA SAlways ==
  ASSUME WaitersStay
  PROVE  Spec => [](TInv /\ SInv)
<1>1. Init => TInv /\ SInv
  BY TInit, SInit
<1>2. TInv /\ SInv /\ [Next]_vars => (TInv /\ SInv)'
  BY TNext, SNext, WaitersStay
<1> QED BY <1>1, <1>2, PTL DEF Spec

\* When the host drops no waiting call, a response on its way belongs to the call
\* that waits, no other command is with the link layer, the buffer of a command
\* is not freed under the link layer, no path loses a buffer, and read never
\* waits (controller.rs:192-260, 335-372).
THEOREM ExecSafe ==
  ASSUME WaitersStay
  PROVE  Spec => [](/\ ResponseIsOwn /\ CommandBufferLive /\ NoBufferLeak
                    /\ ReaderNeverBlocks /\ OneCommand)
<1> SUFFICES ASSUME TInv, SInv
             PROVE  /\ ResponseIsOwn /\ CommandBufferLive /\ NoBufferLeak
                    /\ ReaderNeverBlocks /\ OneCommand
  BY SAlways, WaitersStay, PTL
<1> USE ConstantsAssumption
<1>1. ASSUME NEW c \in Call
      PROVE  InLinkLayer(c) <=> Member(llq, c) \/ AtHand(c)
  BY DEF InLinkLayer, Member, AtHand
<1>2. ASSUME NEW c \in Call, InLinkLayer(c) PROVE lock = c
  BY <1>1, <1>2 DEF SInv, Placed
<1>3. ResponseIsOwn
  <2> SUFFICES ASSUME NEW c \in Call, InFlight(c)
               PROVE  /\ lock = c /\ pc[c] = "wait"
                      /\ \A d \in Call : ~InLinkLayer(d) /\ (InFlight(d) => d = c)
    BY DEF ResponseIsOwn
  <2>1. lock = c /\ pc[c] = "wait" /\ ~InLinkLayer(c)
    BY <1>1 DEF SInv, Placed, Awaited, OnePlace
  <2> QED BY <1>2, <2>1 DEF SInv, Placed
<1>4. CommandBufferLive
  <2> SUFFICES ASSUME NEW c \in Call, InLinkLayer(c) PROVE ptr[c] \in Buffer \ free
    BY DEF CommandBufferLive
  <2>1. lock = c /\ ptr[c] \in Buffer
    BY <1>2 DEF SInv, LockHeld, TInv, Owns
  <2> QED BY <2>1 DEF SInv, Pool
<1>5. NoBufferLeak /\ ReaderNeverBlocks /\ OneCommand
  BY <1>2 DEF SInv, Pool, NothingHeld, NoBufferLeak, ReaderNeverBlocks, OneCommand
<1> QED BY <1>3, <1>4, <1>5

\* When no waiting call is dropped the link layer never works on a command buffer
\* that has been freed (controller.rs:217-229).
THEOREM BuffersOutliveCommands ==
  ASSUME WaitersStay
  PROVE  Spec => []CommandBufferLive
BY ExecSafe, WaitersStay, PTL

\* When no waiting call is dropped every way out of execute_command gives its buffer
\* back (controller.rs:199-229).
THEOREM PoolRecovers ==
  ASSUME WaitersStay
  PROVE  Spec => []NoBufferLeak
BY ExecSafe, WaitersStay, PTL

\* When no waiting call is dropped read never waits for room in CMD_SIGNAL, however
\* many packets an event sends and however often the host gives up a read: no
\* response is lost with a read (controller.rs:360).
THEOREM ReadGoesOn ==
  ASSUME WaitersStay
  PROVE  Spec => []ReaderNeverBlocks
BY ExecSafe, WaitersStay, PTL
--------------------------------------------------------------------------------
(***************************************************************************)
(* What makes calls return, but for the fairness: a call that waits has    *)
(* something to wait for.                                                  *)
(***************************************************************************)
\* The command of c, or its answer, has not been lost.
OnItsWay(c) == Member(llq, c) \/ AtHand(c) \/ InFlight(c)

Followed == \A c \in Call : pc[c] \in {"polling", "wait"} => OnItsWay(c)

\* Taking an event from the queue loses no command.
LEMMA FollowedGet ==
  ASSUME TInv, NEW c \in Call, LLGet, OnItsWay(c)
  PROVE  OnItsWay(c)'
<1>1. /\ ll = "get" /\ ll' # "get" /\ cur' = Head(llq) /\ ~answered'
      /\ llq # <<>> /\ llq' = Tail(llq) /\ UNCHANGED <<read, cmd, held>>
  BY DEF LLGet, LL!Get, PollJoin, hostVars
<1>2. Member(llq, c) <=> c = Head(llq) \/ Member(Tail(llq), c)
  BY <1>1, TailFacts DEF TInv, TypeOK
<1> QED BY <1>1, <1>2 DEF OnItsWay, AtHand, InFlight

\* Nor do the steps of read.
LEMMA FollowedRead ==
  ASSUME TInv, SInv, NEW c \in Call, ReadStep \/ DropRead, OnItsWay(c)
  PROVE  OnItsWay(c)'
<1>1. llq' = llq /\ UNCHANGED llVars /\ UNCHANGED held
  <2>1. ReadResponse => cmd = <<>>
    BY ResponseHasRoom
  <2> QED
    BY <2>1 DEF ReadStep, ReadPoll, Read, ReadResponse, SendResponse, ReadPacket, DropRead,
                hostVars, SInv, NothingHeld
<1>2. CASE ReadResponse
  <2>1. cmd = <<>> /\ cmd' = read
    BY <1>2, ResponseHasRoom DEF ReadResponse
  <2> QED BY <1>1, <2>1 DEF OnItsWay, AtHand, InFlight, llVars
<1>3. CASE ~ReadResponse
  <2>1. cmd' = cmd /\ (read = <<c>> => read' = read)
    BY <1>3 DEF ReadStep, ReadPoll, Read, SendResponse, ReadPacket, DropRead, SInv, NothingHeld
  <2> QED BY <1>1, <2>1 DEF OnItsWay, AtHand, InFlight, llVars
<1> QED BY <1>2, <1>3

\* Without lost packets every step keeps track of the waiting calls.
LEMMA FollowedNext ==
  ASSUME WaitersStay, TInv, SInv, Followed, NothingLost', [Next]_vars
  PROVE  Followed'
<1> USE ConstantsAssumption DEF execVars, llVars, hostVars
<1> SUFFICES ASSUME NEW c \in Call, pc'[c] \in {"polling", "wait"} PROVE OnItsWay(c)'
  BY DEF Followed
<1>1. CASE \E d \in Call : Submit(d)
  <2>1. PICK d \in Call : Submit(d)
    BY <1>1
  <2>2. lock = None /\ llq' = Append(llq, d) /\ pc' = [pc EXCEPT ![d] = "polling"]
    BY <2>1 DEF Submit, Locks, LL!Put
  <2>3. c = d
    BY <2>2 DEF SInv, LockHeld, TInv, TypeOK
  <2>4. Member(llq', d)
    BY <2>2, AppendFacts DEF TInv, TypeOK
  <2> QED BY <2>3, <2>4 DEF OnItsWay
<1>2. CASE \E d \in Call : TakeResponse(d)
  <2>1. PICK d \in Call : TakeResponse(d)
    BY <1>2
  <2>2. lock = d /\ pc' = [pc EXCEPT ![d] = "done"]
    BY <2>1, OwnResponse DEF TakeResponse, Return
  <2>3. FALSE
    BY <2>2 DEF SInv, LockHeld, TInv, TypeOK
  <2> QED BY <2>3
<1>3. (\E d \in Call : Submit(d)) \/ OnItsWay(c)
  <2>1. (\E d \in Call : Submit(d)) \/ pc[c] \in {"polling", "wait"}
    BY DEF Next, CallStep, LLStep, ReadStep, ReadPoll, Exec, AllocFails, Discard, Await,
           TakeResponse, DropExec, Return, Locks, LLGet, LLJoin, Respond, Notify, EventDone,
           RadioPut, Read, ReadResponse, SendResponse, ReadPacket, DropRead, vars, TInv, TypeOK
  <2> QED BY <2>1 DEF Followed
<1>4. CASE \E d \in Call : Exec(d) \/ AllocFails(d) \/ Discard(d) \/ Await(d) \/ DropExec(d)
  <2>1. UNCHANGED <<llq, llVars, read, cmd, held>>
    BY <1>4 DEF Exec, AllocFails, Discard, Await, DropExec
  <2> QED BY <1>1, <1>3, <2>1 DEF OnItsWay, AtHand, InFlight
<1>5. CASE LLGet
  BY <1>1, <1>3, <1>5, FollowedGet
<1>6. CASE ReadStep \/ DropRead
  BY <1>1, <1>3, <1>6, FollowedRead
<1>7. CASE LLJoin
  <2>1. ll # "get" /\ ll' # "get" /\ UNCHANGED <<llq, cur, answered, read, cmd, held>>
    BY <1>7 DEF LLJoin, PollJoin
  <2> QED BY <1>1, <1>3, <2>1 DEF OnItsWay, AtHand, InFlight
<1>8. CASE Respond
  <2>1. /\ cur \in Call /\ ll = "run" /\ UNCHANGED <<llq, ll, cur, cmd, held>>
        /\ ToHost(cur)
    BY <1>8 DEF Respond
  <2>2. read = <<>> /\ read' = <<cur>>
    BY <2>1 DEF ToHost, NothingLost
  <2> QED BY <1>1, <1>3, <2>1, <2>2 DEF OnItsWay, AtHand, InFlight
<1>9. CASE \E p \in {Other, Bad, NoOp} : Notify(p)
  <2>1. UNCHANGED <<llq, ll, cur, answered, cmd, held>> /\ (read' = read \/ read = <<>>)
    BY <1>9 DEF Notify, ToHost
  <2> QED BY <1>1, <1>3, <2>1 DEF OnItsWay, AtHand, InFlight
<1>10. CASE EventDone
  <2>1. ~AtHand(c) /\ UNCHANGED <<llq, read, cmd, held>>
    BY <1>10 DEF EventDone, AtHand
  <2> QED BY <1>1, <1>3, <2>1 DEF OnItsWay, InFlight
<1>11. CASE \E e \in RadioEvent : RadioPut(e)
  <2>1. PICK e \in RadioEvent : RadioPut(e)
    BY <1>11
  <2>2. llq' = Append(llq, e) /\ UNCHANGED <<llVars, read, cmd, held>>
    BY <2>1 DEF RadioPut, LL!Put
  <2>3. Member(llq, c) => Member(llq', c)
    BY <2>2, AppendFacts DEF TInv, TypeOK
  <2> QED BY <1>1, <1>3, <2>2, <2>3 DEF OnItsWay, AtHand, InFlight
<1>12. CASE UNCHANGED vars
  BY <1>1, <1>3, <1>12 DEF vars, OnItsWay, AtHand, InFlight
<1> QED
  BY <1>1, <1>2, <1>4, <1>5, <1>6, <1>7, <1>8, <1>9, <1>10, <1>11, <1>12
     DEF Next, CallStep, LLStep

\* When no waiting call is dropped and no event sends two packets, what a call waits
\* for is always on its way: no response is lost between the link layer and the call,
\* however the tasks interleave and however often the host gives up a read
\* (controller.rs:48-52, 225, 360).
THEOREM AnswersAreToCome ==
  ASSUME WaitersStay, MaxPackets = 1
  PROVE  Spec => []AnswerToCome
<1>1. Init => Followed
  BY DEF Init, Followed
<1>2. TInv /\ SInv /\ Followed /\ NothingLost' /\ [Next]_vars => Followed'
  BY FollowedNext, WaitersStay
<1>3. Followed => AnswerToCome
  BY DEF Followed, AnswerToCome, OnItsWay, InLinkLayer, Member, AtHand
<1> QED
  BY <1>1, <1>2, <1>3, SAlways, OnePacketLosesNothing, WaitersStay, MaxPackets = 1, PTL DEF Spec
--------------------------------------------------------------------------------
(***************************************************************************)
(* exec implements CommandService when no waiting call is dropped: every   *)
(* step moves at most one call, the one that has the lock but for Begin    *)
(* and GiveUp.                                                             *)
(***************************************************************************)
\* A step that leaves where c is, and whether its answer is on the way, leaves
\* its phase.
LEMMA SamePhase ==
  ASSUME NEW c \in Call, pc'[c] = pc[c], result'[c] = result[c], InFlight(c)' <=> InFlight(c)
  PROVE  PhaseOf(c)' = PhaseOf(c)
BY DEF PhaseOf

\* The phase of one call changes, that of the others does not.
LEMMA MovePhase ==
  ASSUME NEW c \in Call, NEW a, NEW b, PhaseOf(c) = a, PhaseOf(c)' = b,
         \A d \in Call \ {c} : PhaseOf(d)' = PhaseOf(d)
  PROVE  Service!Move(c, a, b)
<1>1. Phase' = [d \in Call |-> PhaseOf(d)']
  BY DEF Phase
<1>2. Phase = [d \in Call |-> PhaseOf(d)]
  BY DEF Phase
<1>3. Phase' = [Phase EXCEPT ![c] = b]
  BY <1>1, <1>2
<1> QED BY <1>2, <1>3 DEF Service!Move

\* Only the call that holds the lock has a command outstanding.
LEMMA OutstandingHoldsLock ==
  ASSUME SInv, NEW d \in Call, Service!Outstanding(d)
  PROVE  lock = d
<1>1. PhaseOf(d) \in {"submitted", "answered"}
  BY DEF Service!Outstanding, Phase
<1>2. pc[d] \in {"polling", "wait"}
  BY <1>1 DEF PhaseOf
<1> QED BY <1>2 DEF SInv, LockHeld

\* Every step is a step of the service or leaves it as it is.
LEMMA Simulation ==
  WaitersStay /\ TInv /\ SInv /\ [Next]_vars => [Service!Next]_Phase
<1> SUFFICES ASSUME WaitersStay, TInv, SInv, [Next]_vars
             PROVE  Service!Next \/ UNCHANGED Phase
  OBVIOUS
<1> USE ConstantsAssumption DEF execVars, llVars, hostVars
<1>s. ASSUME \A c \in Call : PhaseOf(c)' = PhaseOf(c) PROVE UNCHANGED Phase
  BY <1>s DEF Phase
<1>n. ASSUME lock = None PROVE \A d \in Call : ~Service!Outstanding(d)
  BY <1>n, OutstandingHoldsLock
<1>1. ASSUME NEW c \in Call, Exec(c) PROVE Service!Next
  <2>1. PhaseOf(c) = "idle" /\ PhaseOf(c)' = "waiting"
    BY <1>1 DEF Exec, PhaseOf, TInv, TypeOK
  <2>2. \A d \in Call \ {c} : PhaseOf(d)' = PhaseOf(d)
    BY <1>1, SamePhase DEF Exec, InFlight, TInv, TypeOK
  <2>3. Service!Begin(c)
    BY <2>1, <2>2, MovePhase DEF Service!Begin
  <2> QED BY <2>3 DEF Service!Next
<1>2. ASSUME NEW c \in Call, AllocFails(c) \/ Discard(c) PROVE Service!Next
  <2>1. /\ lock = None /\ pc[c] = "lock" /\ pc' = [pc EXCEPT ![c] = "done"]
        /\ \E r \in {"NoMem", "Invalid"} : result' = [result EXCEPT ![c] = r]
        /\ UNCHANGED <<read, cmd, held>>
    BY <1>2 DEF AllocFails, Discard, Return, Locks
  <2>2. PhaseOf(c) = "waiting" /\ PhaseOf(c)' = "failed"
    BY <2>1 DEF PhaseOf, TInv, TypeOK
  <2>3. \A d \in Call \ {c} : PhaseOf(d)' = PhaseOf(d)
    BY <2>1, SamePhase DEF InFlight, TInv, TypeOK
  <2>4. Service!Fail(c)
    BY <1>n, <2>1, <2>2, <2>3, MovePhase DEF Service!Fail
  <2> QED BY <2>4 DEF Service!Next
<1>3. ASSUME NEW c \in Call, Submit(c) PROVE Service!Next
  <2>1. /\ lock = None /\ pc[c] = "lock" /\ pc' = [pc EXCEPT ![c] = "polling"]
        /\ UNCHANGED <<result, read, cmd, held>>
    BY <1>3 DEF Submit, Locks
  <2>2. ~InFlight(c)'
    <3>1. ~InFlight(c)
      BY <2>1 DEF SInv, Placed
    <3> QED BY <2>1, <3>1 DEF InFlight
  <2>3. PhaseOf(c) = "waiting" /\ PhaseOf(c)' = "submitted"
    BY <2>1, <2>2 DEF PhaseOf, TInv, TypeOK
  <2>4. \A d \in Call \ {c} : PhaseOf(d)' = PhaseOf(d)
    BY <2>1, SamePhase DEF InFlight, TInv, TypeOK
  <2>5. Service!Submit(c)
    BY <1>n, <2>1, <2>3, <2>4, MovePhase DEF Service!Submit
  <2> QED BY <2>5 DEF Service!Next
<1>d. ASSUME NEW c \in Call, DropExec(c) PROVE Service!Next
  <2>1. /\ pc[c] = "lock" /\ pc' = [pc EXCEPT ![c] = "done"]
        /\ result' = [result EXCEPT ![c] = "dropped"] /\ UNCHANGED <<read, cmd, held>>
    BY <1>d DEF WaitersStay, DropExec, Return
  <2>2. PhaseOf(c) = "waiting" /\ PhaseOf(c)' = "dropped"
    BY <2>1 DEF PhaseOf, TInv, TypeOK
  <2>3. \A d \in Call \ {c} : PhaseOf(d)' = PhaseOf(d)
    BY <2>1, SamePhase DEF InFlight, TInv, TypeOK
  <2>4. Service!GiveUp(c)
    BY <2>2, <2>3, MovePhase DEF Service!GiveUp
  <2> QED BY <2>4 DEF Service!Next
<1>4. ASSUME NEW c \in Call, Await(c) PROVE UNCHANGED Phase
  <2>1. PhaseOf(c)' = PhaseOf(c)
    BY <1>4 DEF Await, PhaseOf, InFlight, TInv, TypeOK
  <2>2. \A d \in Call \ {c} : PhaseOf(d)' = PhaseOf(d)
    BY <1>4, SamePhase DEF Await, InFlight, TInv, TypeOK
  <2> QED BY <1>s, <2>1, <2>2
<1>5. ASSUME NEW c \in Call, TakeResponse(c) PROVE Service!Next
  <2>1. cmd = <<c>> /\ lock = c /\ pc[c] = "wait" /\ InFlight(c)
    BY <1>5, OwnResponse DEF InFlight
  <2>2. pc' = [pc EXCEPT ![c] = "done"] /\ result' = [result EXCEPT ![c] = "Ok"]
    BY <1>5, <2>1 DEF TakeResponse, Return
  <2>3. PhaseOf(c) = "answered" /\ PhaseOf(c)' = "returned"
    BY <2>1, <2>2 DEF PhaseOf, TInv, TypeOK
  <2>4. ASSUME NEW d \in Call \ {c} PROVE PhaseOf(d)' = PhaseOf(d)
    <3>1. pc[d] \notin {"polling", "wait"}
      BY <2>1 DEF SInv, LockHeld
    <3>2. pc'[d] = pc[d] /\ result'[d] = result[d]
      BY <2>2 DEF TInv, TypeOK
    <3> QED BY <3>1, <3>2 DEF PhaseOf
  <2>5. Service!Return(c)
    BY <2>3, <2>4, MovePhase DEF Service!Return
  <2> QED BY <2>5 DEF Service!Next
<1>6. CASE Respond
  <2>1. /\ AtHand(cur) /\ cur \in Call /\ UNCHANGED <<pc, result, cmd, held>>
        /\ read' = read \/ (read = <<>> /\ read' = <<cur>>)
    BY <1>6 DEF Respond, ToHost, AtHand
  <2>2. CASE read' = read
    BY <1>s, <2>1, <2>2, SamePhase DEF InFlight
  <2>3. CASE read = <<>> /\ read' = <<cur>>
    <3>1. lock = cur /\ ~InFlight(cur)
      BY <2>1 DEF SInv, Placed, OnePlace
    <3>2. pc[cur] \in {"polling", "wait"}
      BY <2>1, <3>1 DEF SInv, LockHeld
    <3>3. PICK c \in Call : c = cur
      BY <2>1
    <3>4. InFlight(c)'
      BY <2>3, <3>3 DEF InFlight
    <3>5. PhaseOf(c) = "submitted" /\ PhaseOf(c)' = "answered"
      BY <2>1, <3>1, <3>2, <3>3, <3>4 DEF PhaseOf
    <3>6. ASSUME NEW d \in Call \ {c} PROVE PhaseOf(d)' = PhaseOf(d)
      <4>1. pc[d] \notin {"polling", "wait"}
        BY <3>1, <3>3 DEF SInv, LockHeld
      <4> QED BY <2>1, <4>1 DEF PhaseOf
    <3>7. Service!Answer(c)
      BY <3>5, <3>6, MovePhase DEF Service!Answer
    <3> QED BY <3>7 DEF Service!Next
  <2> QED BY <2>1, <2>2, <2>3
<1>7. CASE \E p \in {Other, Bad, NoOp} : Notify(p)
  <2>1. PICK p \in {Other, Bad, NoOp} : Notify(p)
    BY <1>7
  <2>2. /\ UNCHANGED <<pc, result, cmd, held>>
        /\ read' = read \/ (read = <<>> /\ read' = <<p>>)
    BY <2>1 DEF Notify, ToHost
  <2>3. \A c \in Call : read' = <<c>> <=> read = <<c>>
    <3>1. \A c \in Call : p # c
      OBVIOUS
    <3>2. \A c \in Call : <<p>> # <<c>>
      BY <3>1
    <3> QED BY <2>2, <3>2
  <2> QED BY <1>s, <2>2, <2>3, SamePhase DEF InFlight
<1>8. CASE ReadResponse
  <2>1. PICK c \in Call : read = <<c>>
    BY <1>8, ResponseHasRoom
  <2>2. cmd = <<>>
    BY <1>8, ResponseHasRoom
  <2>3. read' = <<>> /\ cmd' = <<c>> /\ UNCHANGED <<pc, result, held>>
    BY <1>8, <2>1, <2>2 DEF ReadResponse
  <2>4. \A d \in Call : InFlight(d)' <=> InFlight(d)
    <3>1. \A d \in Call : (read = <<d>> <=> d = c) /\ (cmd' = <<d>> <=> d = c)
      BY <2>1, <2>3
    <3> QED BY <2>2, <2>3, <3>1 DEF InFlight
  <2> QED BY <1>s, <2>3, <2>4, SamePhase
<1>9. CASE ReadPacket
  <2>1. /\ UNCHANGED <<pc, result, cmd, held>>
        /\ \A c \in Call : read # <<c>> /\ read' # <<c>>
    BY <1>9 DEF ReadPacket
  <2> QED BY <1>s, <2>1, SamePhase DEF InFlight
<1>10. CASE \/ LLGet \/ LLJoin \/ EventDone \/ Read \/ DropRead
            \/ (\E e \in RadioEvent : RadioPut(e)) \/ UNCHANGED vars
  <2>1. UNCHANGED <<pc, result, read, cmd, held>>
    BY <1>10 DEF LLGet, LLJoin, EventDone, Read, DropRead, RadioPut, vars, SInv, NothingHeld
  <2> QED BY <1>s, <2>1, SamePhase DEF InFlight
<1> QED
  BY <1>1, <1>2, <1>3, <1>d, <1>4, <1>5, <1>6, <1>7, <1>8, <1>9, <1>10
     DEF Next, CallStep, LLStep, ReadStep, ReadPoll, SendResponse, SInv, NothingHeld

\* exec keeps its promise to its callers when they drop no call that waits for its
\* answer: one command at a time, each answered once, and Ok only for the answer to
\* the call's own command (controller.rs:186-260).
THEOREM ExecImplementsService ==
  ASSUME WaitersStay
  PROVE  Spec => ImplementsService
<1>1. Init => Service!Init
  <2> SUFFICES ASSUME Init PROVE Service!Init
    OBVIOUS
  <2>1. \A c \in Call : PhaseOf(c) = "idle"
    BY DEF Init, PhaseOf
  <2> QED BY <2>1 DEF Service!Init, Phase
<1>2. TInv /\ SInv /\ [Next]_vars => [Service!Next]_Phase
  BY Simulation, WaitersStay
<1> QED BY <1>1, <1>2, SAlways, WaitersStay, PTL DEF Spec, ImplementsService, Service!Spec
================================================================================
