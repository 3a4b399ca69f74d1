----------------------------- MODULE StartupProofs -----------------------------
(***************************************************************************)
(* Theorems about Startup, for any number of contexts, channels, queues,   *)
(* tasks and events, and whatever has been built.                          *)
(***************************************************************************)
EXTENDS Startup, FiniteSetTheorems, TLAPS

--------------------------------------------------------------------------------
(***************************************************************************)
(* The invariant.                                                          *)
(***************************************************************************)
\* The channels of the pool: ChannelsOwned slot by slot, and what a context has
\* in hand.
Pool ==
  /\ \A s : s \in taken <=> \/ s # 0 /\ \E q \in Queue : ch[q] = s
                            \/ \E c \in Context : got[c] /\ slot[c] = s
  /\ \A q, r \in Queue : ch[q] # 0 /\ ch[q] = ch[r] => q = r
  /\ \A c, d \in Context : got[c] /\ got[d] /\ slot[c] = slot[d] => c = d
  /\ \A q \in Queue, c \in Context : got[c] => ch[q] # slot[c] /\ slot[c] # 0
  /\ \A c \in Context : got[c] => evq[c] # None
  /\ \A c \in Context : evq[c] # None => ch[evq[c]] = 0
  /\ \A c, d \in Context : evq[c] # None /\ evq[c] = evq[d] => c = d

\* One context at a time, and in all only one, goes through initialize_nimble.
Where ==
  /\ \A c \in Context :
       /\ evq[c] = LLQ => pc[c] = "ll"
       /\ evq[c] = Dflt => pc[c] = "dflt"
       /\ evq[c] \in Extra => pc[c] = "idle"
       /\ pc[c] # "idle" => initialized
       /\ pc[c] = "ll" => ch[LLQ] = 0
       /\ pc[c] \in {"ll", "rng", "dflt"} => ch[Dflt] = 0
  /\ \A c, d \in Context : pc[c] # "idle" /\ pc[d] # "idle" => c = d
  /\ ~initialized => ch[LLQ] = 0 /\ ch[Dflt] = 0

\* What has a channel by when.
Ready ==
  /\ \A c \in Context :
       /\ pc[c] = "rng" => ch[LLQ] # 0
       /\ pc[c] \in {"dflt", "pools", "hs", "clock"} /\ image.controller => ch[LLQ] # 0
       /\ pc[c] \in {"pools", "hs", "clock"} /\ image.host => ch[Dflt] # 0
  /\ returned /\ image.controller => ch[LLQ] # 0
  /\ returned /\ image.host => ch[Dflt] # 0
  /\ handler # {} => ch[LLQ] # 0
  /\ tasks > 0 => handler # {}
  /\ inUse => image.controller
  /\ QueueReady

IInv == TypeOK /\ Pool /\ Where /\ Ready

\* Queues and their names.
LEMMA Names ==
  /\ LLQ \in Queue /\ Dflt \in Queue /\ LLQ # Dflt
  /\ None \notin Queue
  /\ \A q \in Extra : q \in Queue /\ q # LLQ /\ q # Dflt
  /\ \A q \in Queue : q = LLQ \/ q = Dflt \/ q \in Extra
BY ConstantsAssumption DEF Queue, LLQ, Dflt, None

LEMMA IInit == Init => IInv
<1> SUFFICES ASSUME Init PROVE IInv
  OBVIOUS
<1>1. TypeOK
  <2>1. 0 \in 0..Slots /\ 0 \in 0..Slots + 1 /\ 0 \in 0..MaxTasks /\ 0 \in 0..MaxPending
    BY ConstantsAssumption
  <2>2. ch \in [Queue -> 0..Slots] /\ pending \in [{LLQ, Dflt} -> 0..MaxPending]
    BY <2>1 DEF Init, Reset
  <2>3. /\ pc \in [Context -> {"idle", "ll", "rng", "dflt", "pools", "hs", "clock"}]
        /\ evq \in [Context -> Queue \cup {None}]
        /\ slot \in [Context -> 0..Slots + 1]
        /\ got \in [Context -> BOOLEAN]
    BY <2>1 DEF Init, Reset
  <2>4. image \in Image /\ taken = {} /\ handler = {} /\ tasks \in 0..MaxTasks /\ panic = "no"
        /\ {initialized, inUse, returned} \subseteq BOOLEAN
    BY <2>1 DEF Init, Reset
  <2> QED BY <2>2, <2>3, <2>4 DEF TypeOK
<1>2. Pool /\ Where
  BY Names DEF Init, Reset, Pool, Where, Context
<1>3. Ready
  BY DEF Init, Reset, Ready, QueueReady
<1> QED BY <1>1, <1>2, <1>3 DEF IInv

\* A queue that begins to be initialised had no channel, so that nothing is lost
\* by zeroing it.
LEMMA BeginFacts ==
  ASSUME TypeOK, Pool, NEW c \in Context, NEW q \in Queue, BeginQueue(c, q),
         ch[q] = 0, evq[c] = None, \A d \in Context : evq[d] # q
  PROVE  /\ ch' = ch /\ taken' = taken /\ got' = got
         /\ evq' = [evq EXCEPT ![c] = q]
         /\ evq' \in [Context -> Queue \cup {None}]
         /\ slot' \in [Context -> 0..Slots + 1]
         /\ Pool'
<1>1. /\ ch' = ch /\ taken' = taken /\ got' = got
      /\ evq' = [evq EXCEPT ![c] = q] /\ slot' = [slot EXCEPT ![c] = 1]
  BY DEF BeginQueue, TypeOK
<1>2. slot' \in [Context -> 0..Slots + 1] /\ evq' \in [Context -> Queue \cup {None}]
  BY <1>1, ConstantsAssumption DEF TypeOK
<1>3. ~got[c] /\ \A d \in Context : d # c => slot'[d] = slot[d] /\ evq'[d] = evq[d]
  BY <1>1 DEF Pool, TypeOK
<1>4. evq'[c] = q
  BY <1>1 DEF TypeOK
<1>5. \A d \in Context : got[d] => slot'[d] = slot[d] /\ evq'[d] = evq[d]
  BY <1>3
<1> QED BY <1>1, <1>2, <1>3, <1>4, <1>5 DEF Pool

\* Everything that one of the three parts depends on is as it was.
LEMMA Frame ==
  /\ Pool /\ UNCHANGED poolVars => Pool'
  /\ Where /\ UNCHANGED <<evq, ch, pc, initialized>> => Where'
BY DEF Pool, Where, poolVars

\* The steps of ble_npl_eventq_init.
LEMMA QueueStepKeeps ==
  ASSUME IInv, NEW c \in Context, QueueStep(c)
  PROVE  IInv'
<1> USE ConstantsAssumption
<1>1. TypeOK /\ Pool /\ Where /\ Ready
  BY DEF IInv
<1>2. CASE TakeSlot(c)
  <2>1. /\ evq[c] # None /\ ~got[c] /\ slot[c] \in 1..Slots /\ slot[c] \notin taken
        /\ taken' = taken \cup {slot[c]}
        /\ got' = [got EXCEPT ![c] = TRUE]
        /\ UNCHANGED <<image, initVars, evq, slot, ch, runVars, panic>>
    BY <1>2 DEF TakeSlot, Searching
  <2>2. TypeOK'
    BY <1>1, <2>1 DEF TypeOK, initVars, runVars
  <2>3. got'[c] /\ \A d \in Context : d # c => got'[d] = got[d]
    BY <1>1, <2>1 DEF TypeOK
  <2>4. Pool'
    <3>1. \A q \in Queue : ch[q] # 0 => ch[q] # slot[c]
      BY <1>1, <2>1 DEF Pool
    <3>2. \A d \in Context : got[d] => slot[d] # slot[c]
      BY <1>1, <2>1 DEF Pool
    <3>3. slot[c] # 0
      BY <2>1
    <3>4. \A s : s \in taken' <=> \/ s # 0 /\ \E q \in Queue : ch'[q] = s
                                  \/ \E d \in Context : got'[d] /\ slot'[d] = s
      BY <1>1, <2>1, <2>3 DEF Pool
    <3>5. \A d, e \in Context : got'[d] /\ got'[e] /\ slot'[d] = slot'[e] => d = e
      BY <1>1, <2>1, <2>3, <3>2 DEF Pool
    <3>6. \A q \in Queue, d \in Context : got'[d] => ch'[q] # slot'[d] /\ slot'[d] # 0
      BY <1>1, <2>1, <2>3, <3>1, <3>3 DEF Pool
    <3> QED BY <1>1, <2>1, <2>3, <3>4, <3>5, <3>6 DEF Pool
  <2>5. Where' /\ Ready'
    BY <1>1, <2>1 DEF Where, Ready, QueueReady, initVars, runVars
  <2> QED BY <2>2, <2>4, <2>5 DEF IInv
<1>3. CASE NextSlot(c)
  <2>1. /\ ~got[c] /\ slot[c] \in 1..Slots /\ slot' = [slot EXCEPT ![c] = @ + 1]
        /\ UNCHANGED <<image, initVars, evq, got, taken, ch, runVars, panic>>
    BY <1>1, <1>3 DEF NextSlot, Searching, TypeOK
  <2>2. slot' \in [Context -> 0..Slots + 1]
    BY <1>1, <2>1 DEF TypeOK
  <2>3. TypeOK'
    BY <1>1, <2>1, <2>2 DEF TypeOK, initVars, runVars
  <2>4. \A d \in Context : got[d] => slot'[d] = slot[d]
    BY <1>1, <2>1 DEF TypeOK
  <2>5. Pool'
    BY <1>1, <2>1, <2>4 DEF Pool
  <2>6. Where' /\ Ready'
    BY <1>1, <2>1 DEF Where, Ready, QueueReady, initVars, runVars
  <2> QED BY <2>3, <2>5, <2>6 DEF IInv
<1>4. CASE NoSlot(c)
  <2>1. panic' = "queues" /\ UNCHANGED <<image, initVars, poolVars, runVars>>
    BY <1>4 DEF NoSlot, Panic
  <2>2. TypeOK'
    BY <1>1, <2>1 DEF TypeOK, initVars, poolVars, runVars
  <2>3. Pool' /\ Where' /\ Ready'
    BY <1>1, <2>1, Frame DEF Ready, QueueReady, initVars, poolVars, runVars
  <2> QED BY <2>2, <2>3 DEF IInv
<1>5. CASE Assign(c)
  <2>1. PICK q \in Queue : q = evq[c]
    BY <1>1, <1>5 DEF Assign, TypeOK
  <2>2. /\ evq[c] = q /\ got[c]
        /\ ch' = [ch EXCEPT ![q] = slot[c]]
        /\ evq' = [evq EXCEPT ![c] = None]
        /\ slot' = [slot EXCEPT ![c] = 0]
        /\ got' = [got EXCEPT ![c] = FALSE]
        /\ pc' = [pc EXCEPT ![c] = AfterQueue(pc[c])]
        /\ UNCHANGED <<image, initialized, inUse, returned, taken, handler, tasks, pending, panic>>
    BY <1>5, <2>1 DEF Assign, Goto, runVars
  <2>3. slot[c] \in taken /\ slot[c] \in 1..Slots /\ ch[q] = 0 /\ q # None
    BY <1>1, <2>2, Names DEF Pool, TypeOK
  <2>4. AfterQueue(pc[c]) \in {"idle", "rng", "pools", "hs", "clock"}
    BY <1>1 DEF AfterQueue, TypeOK
  <2>5. TypeOK'
    BY <1>1, <2>2, <2>3, <2>4 DEF TypeOK
  <2>6. /\ ch'[q] = slot[c] /\ \A r \in Queue : r # q => ch'[r] = ch[r]
        /\ ~got'[c] /\ evq'[c] = None /\ pc'[c] = AfterQueue(pc[c])
        /\ \A d \in Context : d # c =>
             slot'[d] = slot[d] /\ got'[d] = got[d] /\ evq'[d] = evq[d] /\ pc'[d] = pc[d]
    BY <1>1, <2>2 DEF TypeOK
  <2>7. Pool'
    <3>1. \A s : s \in taken' <=> \/ s # 0 /\ \E r \in Queue : ch'[r] = s
                                  \/ \E d \in Context : got'[d] /\ slot'[d] = s
      <4> SUFFICES ASSUME NEW s
                   PROVE  s \in taken <=> \/ s # 0 /\ \E r \in Queue : ch'[r] = s
                                          \/ \E d \in Context : got'[d] /\ slot'[d] = s
        BY <2>2
      <4>1. CASE s = slot[c]
        BY <2>3, <2>6, <4>1
      <4>2. CASE s # slot[c]
        <5>1. (s # 0 /\ \E r \in Queue : ch'[r] = s) <=> (s # 0 /\ \E r \in Queue : ch[r] = s)
          BY <2>3, <2>6, <4>2
        <5>2. (\E d \in Context : got'[d] /\ slot'[d] = s) <=> (\E d \in Context : got[d] /\ slot[d] = s)
          BY <2>6, <4>2
        <5> QED BY <1>1, <5>1, <5>2 DEF Pool
      <4> QED BY <4>1, <4>2
    <3>2. \A r, t \in Queue : ch'[r] # 0 /\ ch'[r] = ch'[t] => r = t
      BY <1>1, <2>2, <2>6 DEF Pool
    <3>3. \A d, e \in Context : got'[d] /\ got'[e] /\ slot'[d] = slot'[e] => d = e
      BY <1>1, <2>6 DEF Pool
    <3>4. \A r \in Queue, d \in Context : got'[d] => ch'[r] # slot'[d] /\ slot'[d] # 0
      BY <1>1, <2>2, <2>6 DEF Pool
    <3>5. \A d \in Context : got'[d] => evq'[d] # None
      BY <1>1, <2>6 DEF Pool
    <3>6. \A d \in Context : evq'[d] # None => ch'[evq'[d]] = 0
      <4>1. \A d \in Context : evq[d] # None => evq[d] \in Queue
        BY <1>1 DEF TypeOK
      <4> QED BY <1>1, <2>2, <2>3, <2>6, <4>1 DEF Pool
    <3>7. \A d, e \in Context : evq'[d] # None /\ evq'[d] = evq'[e] => d = e
      BY <1>1, <2>6 DEF Pool
    <3> QED BY <3>1, <3>2, <3>3, <3>4, <3>5, <3>6, <3>7 DEF Pool
  <2>8. Where'
    <3>1. pc[c] = "ll" => pc'[c] = "rng" /\ q # Dflt
      BY <1>1, <2>2, <2>6, Names DEF AfterQueue, Where
    <3>2. pc[c] = "dflt" => pc'[c] = "pools"
      BY <2>6 DEF AfterQueue
    <3>3. pc[c] \notin {"ll", "dflt"} => pc'[c] = pc[c] /\ q # LLQ /\ q # Dflt
      BY <1>1, <2>2, <2>6 DEF AfterQueue, Where
    <3>4. pc[c] \in {"ll", "dflt", "idle"}
      BY <1>1, <2>2, Names DEF Where
    <3>5. \A d \in Context : d # c /\ pc[d] # "idle" => pc[c] = "idle"
      BY <1>1 DEF Where
    <3>6. ch'[LLQ] = ch[LLQ] \/ pc[c] = "ll"
      BY <2>6, <3>3, <3>4, <1>1, <2>2, Names DEF Where
    <3>7. ch'[Dflt] = ch[Dflt] \/ pc[c] = "dflt"
      BY <2>6, <3>1, <3>3, <3>4, Names
    <3>8. \A d \in Context :
            /\ evq'[d] = LLQ => pc'[d] = "ll"
            /\ evq'[d] = Dflt => pc'[d] = "dflt"
            /\ evq'[d] \in Extra => pc'[d] = "idle"
            /\ pc'[d] # "idle" => initialized'
      <4>1. None # LLQ /\ None # Dflt /\ None \notin Extra
        BY Names
      <4>2. pc'[c] # "idle" => pc[c] # "idle"
        BY <3>3
      <4> QED BY <1>1, <2>2, <2>6, <4>1, <4>2 DEF Where
    <3>9. \A d \in Context : pc'[d] = "ll" => ch'[LLQ] = 0
      BY <1>1, <2>6, <3>1, <3>2, <3>3, <3>4, <3>5, <3>6 DEF Where
    <3>10. \A d \in Context : pc'[d] \in {"ll", "rng", "dflt"} => ch'[Dflt] = 0
      BY <1>1, <2>6, <3>1, <3>2, <3>3, <3>4, <3>5, <3>7 DEF Where
    <3>11. \A d, e \in Context : pc'[d] # "idle" /\ pc'[e] # "idle" => d = e
      <4>1. \A d \in Context : pc'[d] # "idle" => pc[d] # "idle"
        BY <2>6, <3>3
      <4> QED BY <1>1, <4>1 DEF Where
    <3>12. ~initialized' => ch'[LLQ] = 0 /\ ch'[Dflt] = 0
      BY <1>1, <2>2, <3>6, <3>7 DEF Where
    <3> QED BY <3>8, <3>9, <3>10, <3>11, <3>12 DEF Where
  <2>9. Ready'
    <3>1. \A r \in Queue : ch[r] # 0 => ch'[r] # 0
      BY <2>3, <2>6
    <3>2. ch'[q] # 0
      BY <2>3, <2>6
    <3>3. pc[c] = "ll" => q = LLQ /\ pc'[c] = "rng"
      BY <1>1, <2>1, <2>6, Names DEF Where, AfterQueue
    <3>4. pc[c] = "dflt" => q = Dflt /\ pc'[c] = "pools"
      BY <1>1, <2>1, <2>6, Names DEF Where, AfterQueue
    <3>5. pc[c] \notin {"ll", "dflt"} => pc'[c] = pc[c]
      BY <2>6 DEF AfterQueue
    <3>6. \A d \in Context :
            /\ pc'[d] = "rng" => ch'[LLQ] # 0
            /\ pc'[d] \in {"dflt", "pools", "hs", "clock"} /\ image.controller => ch'[LLQ] # 0
            /\ pc'[d] \in {"pools", "hs", "clock"} /\ image.host => ch'[Dflt] # 0
      BY <1>1, <2>6, <3>1, <3>2, <3>3, <3>4, <3>5, Names DEF Ready
    <3> QED BY <1>1, <2>2, <3>1, <3>6, Names DEF Ready, QueueReady
  <2> QED BY <2>5, <2>7, <2>8, <2>9 DEF IInv
<1> QED BY <1>2, <1>3, <1>4, <1>5 DEF QueueStep

\* One context goes from one place of initialize_nimble to the next.
LEMMA MoveFacts ==
  ASSUME TypeOK, Where, NEW c \in Context, NEW l, Goto(c, l), pc[c] # "idle",
         UNCHANGED <<evq, ch, initialized>>, evq[c] = None,
         l \in {"idle", "dflt", "pools", "hs", "clock"},
         l = "dflt" => pc[c] \in {"ll", "rng"}
  PROVE  /\ pc' \in [Context -> {"idle", "ll", "rng", "dflt", "pools", "hs", "clock"}]
         /\ pc'[c] = l /\ \A d \in Context : d # c => pc'[d] = pc[d]
         /\ Where'
<1>1. pc' = [pc EXCEPT ![c] = l]
  BY DEF Goto
<1>2. pc' \in [Context -> {"idle", "ll", "rng", "dflt", "pools", "hs", "clock"}]
  BY <1>1 DEF TypeOK
<1>3. pc'[c] = l /\ \A d \in Context : d # c => pc'[d] = pc[d]
  BY <1>1 DEF TypeOK
<1>4. None # LLQ /\ None # Dflt /\ None \notin Extra
  BY Names
<1> QED BY <1>2, <1>3, <1>4 DEF Where

\* The steps of initialize_nimble: each part gets its queue before anything that
\* could put an event on it.
LEMMA InitStepKeeps ==
  ASSUME IInv, NEW c \in Context, InitStep(c)
  PROVE  IInv'
<1> USE ConstantsAssumption
<1>1. TypeOK /\ Pool /\ Where /\ Ready
  BY DEF IInv
<1>2. CASE InitLinkLayer(c)
  <2>1. pc[c] = "ll" /\ evq[c] = None /\ UNCHANGED <<image, initialized, inUse, returned, runVars, panic>>
    BY <1>2 DEF InitLinkLayer, At
  <2>2. CASE BeginQueue(c, LLQ) /\ UNCHANGED pc
    <3>1. ch[LLQ] = 0 /\ \A d \in Context : evq[d] # LLQ
      BY <1>1, <2>1, Names DEF Where
    <3>2. /\ ch' = ch /\ taken' = taken /\ got' = got
          /\ evq' = [evq EXCEPT ![c] = LLQ]
          /\ evq' \in [Context -> Queue \cup {None}]
          /\ slot' \in [Context -> 0..Slots + 1]
          /\ Pool'
      BY <1>1, <2>1, <2>2, <3>1, BeginFacts, Names
    <3>3. TypeOK'
      BY <1>1, <2>1, <2>2, <3>2 DEF TypeOK, runVars
    <3>4. evq'[c] = LLQ /\ \A d \in Context : d # c => evq'[d] = evq[d]
      BY <1>1, <3>2 DEF TypeOK
    <3>5. Where'
      BY <1>1, <2>1, <2>2, <3>2, <3>4, Names DEF Where
    <3>6. Ready'
      BY <1>1, <2>1, <2>2, <3>2 DEF Ready, QueueReady, runVars
    <3> QED BY <3>2, <3>3, <3>5, <3>6 DEF IInv
  <2>3. CASE ~image.controller /\ Goto(c, "dflt") /\ UNCHANGED poolVars
    <3>1. /\ pc' \in [Context -> {"idle", "ll", "rng", "dflt", "pools", "hs", "clock"}]
          /\ pc'[c] = "dflt" /\ \A d \in Context : d # c => pc'[d] = pc[d]
          /\ Where'
      BY <1>1, <2>1, <2>3, MoveFacts DEF poolVars
    <3>2. TypeOK'
      BY <1>1, <2>1, <2>3, <3>1 DEF TypeOK, poolVars, runVars
    <3>3. Ready'
      BY <1>1, <2>1, <2>3, <3>1 DEF Ready, QueueReady, poolVars, runVars
    <3> QED BY <1>1, <2>3, <3>1, <3>2, <3>3, Frame DEF IInv
  <2> QED BY <1>2, <2>2, <2>3 DEF InitLinkLayer
<1>3. CASE InstallRng(c)
  <2>1. /\ pc[c] = "rng" /\ evq[c] = None /\ Goto(c, "dflt") /\ handler' = handler \cup {"RNG"}
        /\ UNCHANGED <<image, initialized, inUse, returned, poolVars, tasks, pending, panic>>
    BY <1>3 DEF InstallRng, At
  <2>2. /\ pc' \in [Context -> {"idle", "ll", "rng", "dflt", "pools", "hs", "clock"}]
        /\ pc'[c] = "dflt" /\ \A d \in Context : d # c => pc'[d] = pc[d]
        /\ Where'
    BY <1>1, <2>1, MoveFacts DEF poolVars
  <2>3. TypeOK'
    BY <1>1, <2>1, <2>2 DEF TypeOK, poolVars, Irq
  <2>4. Ready'
    BY <1>1, <2>1, <2>2 DEF Ready, QueueReady, poolVars
  <2> QED BY <1>1, <2>1, <2>2, <2>3, <2>4, Frame DEF IInv
<1>4. CASE InitHostQueue(c)
  <2>1. pc[c] = "dflt" /\ evq[c] = None /\ UNCHANGED <<image, initialized, inUse, returned, runVars, panic>>
    BY <1>4 DEF InitHostQueue, At
  <2>2. CASE BeginQueue(c, Dflt) /\ UNCHANGED pc
    <3>1. ch[Dflt] = 0 /\ \A d \in Context : evq[d] # Dflt
      BY <1>1, <2>1, Names DEF Where
    <3>2. /\ ch' = ch /\ taken' = taken /\ got' = got
          /\ evq' = [evq EXCEPT ![c] = Dflt]
          /\ evq' \in [Context -> Queue \cup {None}]
          /\ slot' \in [Context -> 0..Slots + 1]
          /\ Pool'
      BY <1>1, <2>1, <2>2, <3>1, BeginFacts, Names
    <3>3. TypeOK'
      BY <1>1, <2>1, <2>2, <3>2 DEF TypeOK, runVars
    <3>4. evq'[c] = Dflt /\ \A d \in Context : d # c => evq'[d] = evq[d]
      BY <1>1, <3>2 DEF TypeOK
    <3>5. Where'
      BY <1>1, <2>1, <2>2, <3>2, <3>4, Names DEF Where
    <3>6. Ready'
      BY <1>1, <2>1, <2>2, <3>2 DEF Ready, QueueReady, runVars
    <3> QED BY <3>2, <3>3, <3>5, <3>6 DEF IInv
  <2>3. CASE ~image.host /\ Goto(c, "pools") /\ UNCHANGED poolVars
    <3>1. /\ pc' \in [Context -> {"idle", "ll", "rng", "dflt", "pools", "hs", "clock"}]
          /\ pc'[c] = "pools" /\ \A d \in Context : d # c => pc'[d] = pc[d]
          /\ Where'
      BY <1>1, <2>1, <2>3, MoveFacts DEF poolVars
    <3>2. TypeOK'
      BY <1>1, <2>1, <2>3, <3>1 DEF TypeOK, poolVars, runVars
    <3>3. Ready'
      BY <1>1, <2>1, <2>3, <3>1 DEF Ready, QueueReady, poolVars, runVars
    <3> QED BY <1>1, <2>3, <3>1, <3>2, <3>3, Frame DEF IInv
  <2> QED BY <1>4, <2>2, <2>3 DEF InitHostQueue
<1>5. CASE InitPools(c)
  <2>1. /\ pc[c] = "pools" /\ evq[c] = None /\ Goto(c, "hs")
        /\ UNCHANGED <<image, initialized, inUse, returned, poolVars, runVars, panic>>
    BY <1>5 DEF InitPools, At
  <2>2. /\ pc' \in [Context -> {"idle", "ll", "rng", "dflt", "pools", "hs", "clock"}]
        /\ pc'[c] = "hs" /\ \A d \in Context : d # c => pc'[d] = pc[d]
        /\ Where'
    BY <1>1, <2>1, MoveFacts DEF poolVars
  <2>3. TypeOK'
    BY <1>1, <2>1, <2>2 DEF TypeOK, poolVars, runVars
  <2>4. Ready'
    BY <1>1, <2>1, <2>2 DEF Ready, QueueReady, poolVars, runVars
  <2> QED BY <1>1, <2>1, <2>2, <2>3, <2>4, Frame DEF IInv
<1>6. CASE InitHost(c)
  <2>1. /\ pc[c] = "hs" /\ evq[c] = None /\ Goto(c, "clock")
        /\ UNCHANGED <<image, initialized, inUse, returned, poolVars, handler, tasks>>
    BY <1>6 DEF InitHost, At
  <2>2. /\ pc' \in [Context -> {"idle", "ll", "rng", "dflt", "pools", "hs", "clock"}]
        /\ pc'[c] = "clock" /\ \A d \in Context : d # c => pc'[d] = pc[d]
        /\ Where'
    BY <1>1, <2>1, MoveFacts DEF poolVars
  <2>3. pending' \in [{LLQ, Dflt} -> 0..MaxPending] /\ panic' = panic
    BY <1>1, <1>6, <2>1 DEF InitHost, Put, Ready, TypeOK
  <2>4. TypeOK'
    BY <1>1, <2>1, <2>2, <2>3 DEF TypeOK, poolVars
  <2>5. Ready'
    BY <1>1, <2>1, <2>2, <2>3 DEF Ready, QueueReady, poolVars
  <2> QED BY <1>1, <2>1, <2>2, <2>4, <2>5, Frame DEF IInv
<1>7. CASE InitClock(c)
  <2>1. /\ pc[c] = "clock" /\ evq[c] = None /\ Goto(c, "idle") /\ returned' = TRUE
        /\ handler' = IF image.controller /\ image.clock THEN handler \cup {"RTC0"} ELSE handler
        /\ UNCHANGED <<image, initialized, inUse, poolVars, tasks, pending, panic>>
    BY <1>7 DEF InitClock, At
  <2>2. /\ pc' \in [Context -> {"idle", "ll", "rng", "dflt", "pools", "hs", "clock"}]
        /\ pc'[c] = "idle" /\ \A d \in Context : d # c => pc'[d] = pc[d]
        /\ Where'
    BY <1>1, <2>1, MoveFacts DEF poolVars
  <2>3. TypeOK'
    BY <1>1, <2>1, <2>2 DEF TypeOK, poolVars, Irq
  <2>4. /\ image.controller => ch[LLQ] # 0
        /\ image.host => ch[Dflt] # 0
    BY <1>1, <2>1 DEF Ready
  <2>5. Ready'
    BY <1>1, <2>1, <2>2, <2>4 DEF Ready, QueueReady, poolVars
  <2> QED BY <1>1, <2>1, <2>2, <2>3, <2>5, Frame DEF IInv
<1> QED BY <1>2, <1>3, <1>4, <1>5, <1>6, <1>7 DEF InitStep

\* The steps of initialize_nimble's callers, the tasks and the interrupts.
LEMMA OtherStepKeeps ==
  ASSUME IInv,
         \/ \E c \in Context : Initialize(c) \/ NewController(c) \/ \E q \in Extra : OtherQueue(c, q)
         \/ StartTask \/ LinkLayerTask \/ HostTask
         \/ \E irq \in Irq : Interrupt(irq)
         \/ UNCHANGED vars
  PROVE  IInv'
<1> USE ConstantsAssumption
<1>1. TypeOK /\ Pool /\ Where /\ Ready
  BY DEF IInv
<1>2. ASSUME NEW why \in {"initialized", "controller", "phy"}, Panic(why) PROVE IInv'
  <2>1. panic' = why /\ UNCHANGED <<image, initVars, poolVars, runVars>>
    BY <1>2 DEF Panic
  <2>2. TypeOK'
    BY <1>1, <2>1 DEF TypeOK, initVars, poolVars, runVars
  <2> QED BY <1>1, <2>1, <2>2, Frame DEF IInv, Ready, QueueReady, initVars, poolVars, runVars
<1>3. ASSUME NEW c \in Context, Initialize(c) PROVE IInv'
  <2>1. CASE ~initialized
    <3>1. /\ initialized' = TRUE /\ pc' = [pc EXCEPT ![c] = "ll"] /\ evq[c] = None
          /\ UNCHANGED <<image, inUse, returned, poolVars, runVars, panic>>
      BY <1>3, <2>1 DEF Initialize, Goto, Idle
    <3>2. TypeOK'
      BY <1>1, <3>1 DEF TypeOK, poolVars, runVars
    <3>3. pc'[c] = "ll" /\ \A d \in Context : d # c => pc'[d] = pc[d] /\ pc[d] = "idle"
      BY <1>1, <2>1, <3>1 DEF TypeOK, Where
    <3>4. Where'
      BY <1>1, <2>1, <3>1, <3>3, Names DEF Where, poolVars
    <3>5. Ready'
      BY <1>1, <3>1, <3>3 DEF Ready, QueueReady, poolVars, runVars
    <3> QED BY <1>1, <3>1, <3>2, <3>4, <3>5, Frame DEF IInv
  <2> QED BY <1>2, <1>3, <2>1 DEF Initialize
<1>4. ASSUME NEW c \in Context, NewController(c) PROVE IInv'
  <2>1. CASE ~inUse
    <3>1. /\ inUse' = TRUE /\ image.controller
          /\ UNCHANGED <<image, initialized, pc, returned, poolVars, runVars, panic>>
      BY <1>4, <2>1 DEF NewController
    <3>2. TypeOK'
      BY <1>1, <3>1 DEF TypeOK, poolVars, runVars
    <3> QED BY <1>1, <3>1, <3>2, Frame DEF IInv, Where, Ready, QueueReady, poolVars, runVars
  <2> QED BY <1>2, <1>4, <2>1 DEF NewController
<1>5. ASSUME NEW c \in Context, NEW q \in Extra, OtherQueue(c, q) PROVE IInv'
  <2>1. /\ ch[q] = 0 /\ BeginQueue(c, q) /\ pc[c] = "idle" /\ evq[c] = None
        /\ \A d \in Context : evq[d] # q
        /\ UNCHANGED <<image, initVars, runVars, panic>>
    BY <1>5 DEF OtherQueue, Idle
  <2>2. /\ ch' = ch /\ taken' = taken /\ got' = got
        /\ evq' = [evq EXCEPT ![c] = q]
        /\ evq' \in [Context -> Queue \cup {None}]
        /\ slot' \in [Context -> 0..Slots + 1]
        /\ Pool'
    BY <1>1, <2>1, BeginFacts, Names
  <2>3. TypeOK'
    BY <1>1, <2>1, <2>2 DEF TypeOK, initVars, runVars
  <2>4. evq'[c] = q /\ \A d \in Context : d # c => evq'[d] = evq[d]
    BY <1>1, <2>2 DEF TypeOK
  <2>5. Where'
    BY <1>1, <2>1, <2>2, <2>4, Names DEF Where, initVars
  <2>6. Ready'
    BY <1>1, <2>1, <2>2 DEF Ready, QueueReady, initVars, runVars
  <2> QED BY <2>2, <2>3, <2>5, <2>6 DEF IInv
<1>6. CASE StartTask
  <2>1. CASE Panic("phy")
    BY <1>2, <2>1
  <2>2. CASE ~Panic("phy")
    <3>1. /\ inUse /\ returned /\ tasks < MaxTasks
          /\ tasks' = tasks + 1 /\ handler' = handler \cup {"RADIO"}
          /\ UNCHANGED <<image, initVars, poolVars, pending, panic>>
      BY <1>6, <2>2 DEF StartTask
    <3>2. TypeOK'
      BY <1>1, <3>1 DEF TypeOK, initVars, poolVars, Irq
    <3>3. ch[LLQ] # 0
      BY <1>1, <3>1 DEF Ready
    <3>4. Ready'
      BY <1>1, <3>1, <3>3 DEF Ready, QueueReady, initVars, poolVars
    <3>5. Where'
      BY <1>1, <3>1, Frame DEF initVars, poolVars
    <3> QED BY <1>1, <3>1, <3>2, <3>4, <3>5, Frame DEF IInv
  <2> QED BY <2>1, <2>2
<1>7. ASSUME UNCHANGED <<image, initVars, poolVars, handler, tasks>>,
             pending' \in [{LLQ, Dflt} -> 0..MaxPending],
             panic' \in {panic, "unimplemented"}
      PROVE  IInv'
  <2>1. TypeOK'
    BY <1>1, <1>7 DEF TypeOK, initVars, poolVars
  <2> QED BY <1>1, <1>7, <2>1, Frame DEF IInv, Ready, QueueReady, initVars, poolVars
<1>8. CASE LinkLayerTask
  <2>1. tasks > 0 /\ ch[LLQ] # 0
    BY <1>1, <1>8 DEF LinkLayerTask, Ready
  <2>2. pending[LLQ] > 0 /\ pending' = [pending EXCEPT ![LLQ] = @ - 1] /\ panic' = panic
    BY <1>8, <2>1 DEF LinkLayerTask
  <2>3. pending' \in [{LLQ, Dflt} -> 0..MaxPending]
    BY <1>1, <2>2 DEF TypeOK
  <2> QED BY <1>7, <1>8, <2>2, <2>3 DEF LinkLayerTask
<1>9. CASE HostTask
  <2>1. ch[Dflt] # 0 /\ (image.controller => ch[LLQ] # 0)
    BY <1>1, <1>9 DEF HostTask, Ready
  <2>2. CASE panic' = "unimplemented" /\ UNCHANGED pending
    BY <1>1, <1>7, <1>9, <2>2 DEF HostTask, TypeOK
  <2>3. CASE /\ pending[Dflt] > 0 /\ pending[LLQ] < MaxPending
             /\ pending' = [pending EXCEPT ![Dflt] = @ - 1, ![LLQ] = @ + 1]
             /\ UNCHANGED panic
    <3>1. pending' \in [{LLQ, Dflt} -> 0..MaxPending]
      BY <1>1, <2>3, Names DEF TypeOK
    <3> QED BY <1>7, <1>9, <2>3, <3>1 DEF HostTask
  <2> QED BY <1>9, <2>1, <2>2, <2>3 DEF HostTask
<1>10. ASSUME NEW irq \in Irq, Interrupt(irq) PROVE IInv'
  <2>1. ch[LLQ] # 0
    BY <1>1, <1>10 DEF Interrupt, Ready
  <2>2. pending[LLQ] < MaxPending /\ pending' = [pending EXCEPT ![LLQ] = @ + 1] /\ panic' = panic
    BY <1>10, <2>1 DEF Interrupt, Put
  <2>3. pending' \in [{LLQ, Dflt} -> 0..MaxPending]
    BY <1>1, <2>2 DEF TypeOK
  <2> QED BY <1>7, <1>10, <2>2, <2>3 DEF Interrupt
<1>11. CASE UNCHANGED vars
  BY <1>1, <1>7, <1>11 DEF vars, runVars, TypeOK
<1> QED BY <1>3, <1>4, <1>5, <1>6, <1>8, <1>9, <1>10, <1>11

LEMMA IStep == IInv /\ [Next]_vars => IInv'
BY QueueStepKeeps, InitStepKeeps, OtherStepKeeps DEF Next

LEMMA IAlways == Spec => []IInv
BY IInit, IStep, PTL DEF Spec
--------------------------------------------------------------------------------
\* Start-up keeps its types: no index of the pool is out of bounds
\* (embassy.rs:61-68).
THEOREM TypeCorrect == Spec => []TypeOK
<1>1. IInv => TypeOK
  BY DEF IInv
<1> QED BY <1>1, IAlways, PTL

LEMMA InvOwned == IInv => ChannelsOwned
<1> SUFFICES ASSUME IInv PROVE ChannelsOwned
  OBVIOUS
<1>1. Pool
  BY DEF IInv
<1>2. taken = {ch[q] : q \in {r \in Queue : ch[r] # 0}}
              \cup {slot[c] : c \in {d \in Context : got[d]}}
  <2>1. \A s : s \in taken <=> \/ \E q \in Queue : ch[q] # 0 /\ ch[q] = s
                               \/ \E c \in Context : got[c] /\ slot[c] = s
    BY <1>1 DEF Pool
  <2> QED BY <2>1
<1> QED BY <1>1, <1>2 DEF Pool, ChannelsOwned

\* No two queues share a channel and none is lost, however many contexts
\* initialise queues, and whatever the size of the pool (embassy.rs:61-68).
THEOREM PoolOwned == Spec => []ChannelsOwned
BY InvOwned, IAlways, PTL

\* Nobody follows the null pointer of a queue: whatever is built, a queue has its
\* channel before any interrupt, task or host event can use it (lib.rs:30-54).
THEOREM QueuesReady == Spec => []QueueReady
<1>1. IInv => QueueReady
  BY DEF IInv, Ready
<1> QED BY <1>1, IAlways, PTL
--------------------------------------------------------------------------------
(***************************************************************************)
(* When the pool is large enough.                                          *)
(***************************************************************************)
\* Every slot that a search has passed is taken, for none is ever given back.
Looked ==
  \A c \in Context : evq[c] # None /\ ~got[c] =>
    \A s \in 1..Slots : s < slot[c] => s \in taken

\* The steps that have to do with the pool.
LEMMA PoolSteps ==
  ASSUME [Next]_vars
  PROVE  \/ UNCHANGED poolVars
         \/ \E c \in Context : \/ TakeSlot(c) \/ NextSlot(c) \/ Assign(c)
                               \/ \E q \in Queue : BeginQueue(c, q)
<1> USE Names
<1>1. ASSUME NEW c \in Context, InitStep(c)
      PROVE  UNCHANGED poolVars \/ \E q \in Queue : BeginQueue(c, q)
  BY <1>1 DEF InitStep, InitLinkLayer, InstallRng, InitHostQueue, InitPools, InitHost, InitClock
<1>2. ASSUME NEW c \in Context, QueueStep(c)
      PROVE  UNCHANGED poolVars \/ TakeSlot(c) \/ NextSlot(c) \/ Assign(c)
  BY <1>2 DEF QueueStep, NoSlot, Panic
<1>3. ASSUME NEW c \in Context, Initialize(c) \/ NewController(c) PROVE UNCHANGED poolVars
  BY <1>3 DEF Initialize, NewController, Panic
<1>4. ASSUME NEW c \in Context, NEW q \in Extra, OtherQueue(c, q) PROVE BeginQueue(c, q) /\ q \in Queue
  BY <1>4 DEF OtherQueue
<1>5. ASSUME \/ StartTask \/ LinkLayerTask \/ HostTask
             \/ \E irq \in Irq : Interrupt(irq)
             \/ UNCHANGED vars
      PROVE  UNCHANGED poolVars
  BY <1>5 DEF StartTask, LinkLayerTask, HostTask, Interrupt, Panic, vars
<1> QED BY <1>1, <1>2, <1>3, <1>4, <1>5 DEF Next

LEMMA LookedKeeps ==
  ASSUME TypeOK, Looked, [Next]_vars
  PROVE  Looked'
<1>1. CASE UNCHANGED poolVars
  BY <1>1 DEF Looked, poolVars
<1>2. ASSUME NEW c \in Context, TakeSlot(c) PROVE Looked'
  <2>1. /\ taken \subseteq taken' /\ UNCHANGED <<evq, slot>>
        /\ got'[c] /\ \A d \in Context : d # c => got'[d] = got[d]
    BY <1>2 DEF TakeSlot, TypeOK
  <2> QED BY <2>1 DEF Looked
<1>3. ASSUME NEW c \in Context, NextSlot(c) PROVE Looked'
  <2>1. /\ UNCHANGED <<evq, got, taken>> /\ slot[c] \in taken /\ slot[c] \in 0..Slots + 1
        /\ slot'[c] = slot[c] + 1 /\ \A d \in Context : d # c => slot'[d] = slot[d]
    BY <1>3 DEF NextSlot, TypeOK
  <2> SUFFICES ASSUME NEW d \in Context, evq[d] # None, ~got[d], NEW s \in 1..Slots, s < slot'[d]
               PROVE  s \in taken
    BY <2>1 DEF Looked
  <2>2. CASE d = c /\ s = slot[c]
    BY <2>1, <2>2
  <2>3. CASE ~(d = c /\ s = slot[c])
    <3>1. s < slot[d]
      BY <2>1, <2>3
    <3> QED BY <3>1 DEF Looked
  <2> QED BY <2>2, <2>3
<1>4. ASSUME NEW c \in Context, Assign(c) PROVE Looked'
  <2>1. /\ UNCHANGED taken /\ evq'[c] = None
        /\ \A d \in Context : d # c => slot'[d] = slot[d] /\ evq'[d] = evq[d] /\ got'[d] = got[d]
    BY <1>4 DEF Assign, TypeOK
  <2> QED BY <2>1 DEF Looked
<1>5. ASSUME NEW c \in Context, NEW q \in Queue, BeginQueue(c, q) PROVE Looked'
  <2>1. /\ UNCHANGED <<got, taken>> /\ slot'[c] = 1
        /\ \A d \in Context : d # c => slot'[d] = slot[d] /\ evq'[d] = evq[d]
    BY <1>5 DEF BeginQueue, TypeOK
  <2>2. ASSUME NEW d \in Context, evq'[d] # None, ~got[d], NEW s \in 1..Slots, s < slot'[d]
        PROVE  s \in taken
    <3>1. d # c
      BY <2>1, <2>2
    <3> QED BY <2>1, <2>2, <3>1 DEF Looked
  <2> QED BY <2>1, <2>2 DEF Looked
<1> QED BY <1>1, <1>2, <1>3, <1>4, <1>5, PoolSteps

LEMMA QueueFinite ==
  ASSUME IsFiniteSet(Extra)
  PROVE  IsFiniteSet(Queue) /\ Cardinality(Queue) \in Nat
<1>1. IsFiniteSet(Extra \cup {LLQ})
  BY FS_AddElement
<1>2. IsFiniteSet((Extra \cup {LLQ}) \cup {Dflt})
  BY <1>1, FS_AddElement
<1>3. Queue = (Extra \cup {LLQ}) \cup {Dflt}
  BY DEF Queue
<1> QED BY <1>2, <1>3, FS_CardinalityType

\* A search that has come to the end of the pool has found each slot with a queue
\* other than its own, so there are more queues than slots.
LEMMA PoolTooSmall ==
  ASSUME IInv, Looked, IsFiniteSet(Extra), NEW c \in Context, NoSlot(c)
  PROVE  Cardinality(Queue) > Slots
<1>1. /\ evq[c] \in Queue /\ ~got[c] /\ slot[c] > Slots /\ Slots \in Nat /\ slot[c] \in Nat
  BY ConstantsAssumption DEF NoSlot, Searching, IInv, TypeOK
<1> DEFINE mine == evq[c]
           others == Queue \ {mine}
           Has(q, s) == ch[q] = s \/ \E d \in Context : got[d] /\ slot[d] = s /\ evq[d] = q
<1>2. ASSUME NEW s \in 1..Slots PROVE \E q \in others : Has(q, s)
  <2>1. s \in taken
    BY <1>1 DEF Looked, NoSlot, Searching
  <2>2. CASE \E q \in Queue : ch[q] = s
    <3>1. ch[mine] = 0
      BY <1>1 DEF IInv, Pool, NoSlot, Searching
    <3> QED BY <2>2, <3>1
  <2>3. CASE \E d \in Context : got[d] /\ slot[d] = s
    <3>1. PICK d \in Context : got[d] /\ slot[d] = s
      BY <2>3
    <3>2. evq[d] \in Queue
      BY <3>1 DEF IInv, Pool, TypeOK
    <3>3. evq[d] # mine
      BY <1>1, <3>1 DEF IInv, Pool, NoSlot, Searching
    <3> QED BY <3>1, <3>2, <3>3
  <2> QED BY <2>1, <2>2, <2>3 DEF IInv, Pool
<1>3. ASSUME NEW q \in Queue, NEW s \in 1..Slots, NEW t \in 1..Slots, Has(q, s), Has(q, t)
      PROVE  s = t
  BY <1>3 DEF IInv, Pool
<1> DEFINE owner == [s \in 1..Slots |-> CHOOSE q \in others : Has(q, s)]
<1>4. \A s \in 1..Slots : owner[s] \in others /\ Has(owner[s], s)
  BY <1>2
<1> HIDE DEF owner, Has
<1>5. owner \in Injection(1..Slots, others)
  <2>1. owner \in [1..Slots -> others]
    BY <1>4 DEF owner
  <2>2. \A s, t \in 1..Slots : owner[s] = owner[t] => s = t
    BY <1>3, <1>4
  <2>3. IsInjective(owner)
    BY <2>1, <2>2 DEF IsInjective
  <2> QED BY <2>1, <2>3 DEF Injection
<1>6. IsFiniteSet(Queue) /\ Cardinality(Queue) \in Nat
  BY QueueFinite
<1>7. /\ IsFiniteSet(others) /\ Cardinality(others) = Cardinality(Queue) - 1
  BY <1>1, <1>6, FS_RemoveElement
<1>8. IsFiniteSet(1..Slots) /\ Cardinality(1..Slots) = Slots
  BY <1>1, FS_Interval
<1>9. Cardinality(1..Slots) <= Cardinality(others)
  BY <1>5, <1>7, <1>8, FS_Injection
<1> QED BY <1>1, <1>6, <1>7, <1>8, <1>9

\* When the pool has a channel for each queue no search fails, however many contexts
\* search it at once and in whatever order they take slots from each other: the panic
\* of ble_npl_eventq_init means that there are too many queues (embassy.rs:61-71).
THEOREM EnoughChannels ==
  ASSUME IsFiniteSet(Extra), Cardinality(Queue) <= Slots
  PROVE  Spec => [](panic # "queues")
<1>1. Init => Looked /\ panic # "queues"
  BY DEF Init, Reset, Looked
<1>2. IInv /\ IInv' /\ Looked /\ panic # "queues" /\ [Next]_vars => (Looked /\ panic # "queues")'
  <2> SUFFICES ASSUME IInv, Looked, panic # "queues", [Next]_vars
               PROVE  Looked' /\ panic' # "queues"
    OBVIOUS
  <2>1. Looked'
    BY LookedKeeps DEF IInv
  <2>2. ASSUME NEW c \in Context PROVE ~NoSlot(c)
    <3>1. Cardinality(Queue) \in Nat /\ Slots \in Nat
      BY ConstantsAssumption, QueueFinite
    <3> QED BY <3>1, PoolTooSmall
  <2>3. ASSUME NEW c \in Context, InitStep(c) PROVE panic' # "queues"
    BY <2>3 DEF InitStep, InitLinkLayer, InstallRng, InitHostQueue, InitPools, InitHost,
       InitClock, Put
  <2>4. ASSUME NEW c \in Context, QueueStep(c) PROVE panic' # "queues"
    BY <2>2, <2>4 DEF QueueStep, TakeSlot, NextSlot, Assign
  <2>5. ASSUME NEW c \in Context, Initialize(c) \/ NewController(c) \/ \E q \in Extra : OtherQueue(c, q)
        PROVE  panic' # "queues"
    BY <2>5 DEF Initialize, NewController, OtherQueue, Panic
  <2>6. ASSUME \/ StartTask \/ LinkLayerTask \/ HostTask
               \/ \E irq \in Irq : Interrupt(irq)
               \/ UNCHANGED vars
        PROVE  panic' # "queues"
    BY <2>6 DEF StartTask, LinkLayerTask, HostTask, Interrupt, Put, Panic, vars
  <2> QED BY <2>1, <2>3, <2>4, <2>5, <2>6 DEF Next
<1> QED BY <1>1, <1>2, IAlways, PTL DEF Spec
================================================================================
