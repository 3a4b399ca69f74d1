---------------------------- MODULE EventQueueProofs ----------------------------
(***************************************************************************)
(* Theorems about EventQueue, for any number of events, interrupts and     *)
(* slots.  Those about events and flags do not depend on when interrupts   *)
(* preempt: they hold for every interleaving of the contexts' steps, and   *)
(* for every choice of masked interrupts.                                  *)
(***************************************************************************)
EXTENDS EventQueue, SequenceFacts

--------------------------------------------------------------------------------
(***************************************************************************)
(* Type correctness.                                                       *)
(***************************************************************************)
LEMMA StoreLenType ==
  ASSUME TypeOK, NEW n \in Int, StoreLen(n)
  PROVE  len' \in 0..(LenMod - 1) /\ panic' \in {panic, "overflow"}
BY ConstantsAssumption DEF StoreLen

\* The initial state has the types.
LEMMA TypeInit == Init => TypeOK
BY ConstantsAssumption DEF Init, TypeOK, Ctx, Nobody

\* Every step of any context keeps the types.
LEMMA TypeNext == TypeOK /\ [Next]_vars => TypeOK'
<1> SUFFICES ASSUME TypeOK, [Next]_vars PROVE TypeOK'
  OBVIOUS
<1> USE ConstantsAssumption DEF At, Goto, Panic
<1> Thread \in Ctx /\ LenMod \in Nat /\ LenMod > 0
  BY DEF Thread, Ctx
<1>1. ASSUME NEW p \in Ctx, NEW e \in Event, PutCall(p, e) PROVE TypeOK'
  BY <1>1 DEF PutCall, TypeOK
<1>2. ASSUME NEW p \in Ctx, PutMark(p) PROVE TypeOK'
  BY <1>2 DEF PutMark, TypeOK
<1>3. ASSUME NEW p \in Ctx, PutLoad(p) PROVE TypeOK'
  BY <1>3 DEF PutLoad, TypeOK
<1>4. ASSUME NEW p \in Ctx, PutStore(p) PROVE TypeOK'
  <2>1. len' \in 0..(LenMod - 1) /\ panic' \in {panic, "overflow"}
    <3>1. reg[p] + 1 \in Int
      BY DEF TypeOK
    <3> QED BY <1>4, <3>1, StoreLenType DEF PutStore
  <2> QED BY <1>4, <2>1 DEF PutStore, TypeOK
<1>5. ASSUME NEW p \in Ctx, PutSend(p) PROVE TypeOK'
  BY <1>5 DEF PutSend, Borrow, TypeOK
<1>6. ASSUME NEW p \in Ctx, PutSent(p) PROVE TypeOK'
  <2>1. arg[p] \in Event
    BY <1>6 DEF PutSent, TypeOK
  <2>2. /\ Append(chan, arg[p]) \in Seq(Event)
        /\ Len(Append(chan, arg[p])) = Len(chan) + 1
        /\ Len(chan) \in Nat
    BY <2>1, AppendFacts, LenProperties DEF TypeOK
  <2>3. chan' \in Seq(Event) /\ Len(chan') <= Cap /\ panic' \in {panic, "full"}
    <3>1. CASE Len(chan) < Cap /\ chan' = Append(chan, arg[p]) /\ UNCHANGED panic
      BY <2>2, <3>1
    <3>2. CASE UNCHANGED chan /\ panic' = "full"
      BY <3>2 DEF TypeOK
    <3> QED BY <1>6, <3>1, <3>2 DEF PutSent
  <2> QED BY <1>6, <2>3 DEF PutSent, TypeOK
<1>7. CASE GetPoll
  BY <1>7 DEF GetPoll, MayBegin, TypeOK
<1>8. CASE GetReceive
  <2>1. CASE chan = <<>>
    BY <1>8, <2>1 DEF GetReceive, TypeOK
  <2>2. CASE chan # <<>>
    <3>1. Head(chan) \in Event /\ Tail(chan) \in Seq(Event)
          /\ Len(Tail(chan)) = Len(chan) - 1 /\ Len(chan) \in Nat
      BY <2>2, TailFacts DEF TypeOK
    <3>2. chan' = Tail(chan) /\ Len(Tail(chan)) <= Cap
      BY <1>8, <2>2, <3>1 DEF GetReceive, TypeOK
    <3>3. chan' \in Seq(Event) /\ Len(chan') <= Cap
      BY <3>1, <3>2
    <3> QED BY <1>8, <2>2, <3>1, <3>3, ZenonT(30) DEF GetReceive, TypeOK
  <2> QED BY <2>1, <2>2
<1>9. CASE GetClear
  BY <1>9 DEF GetClear, TypeOK
<1>10. CASE GetLoad
  BY <1>10 DEF GetLoad, TypeOK
<1>11. CASE GetStore
  <2>1. len' \in 0..(LenMod - 1) /\ panic' \in {panic, "overflow"}
    <3>1. reg[Thread] - 1 \in Int
      BY DEF TypeOK
    <3> QED BY <1>11, <3>1, StoreLenType DEF GetStore
  <2> QED BY <1>11, <2>1 DEF GetStore, TypeOK
<1>12. ASSUME NEW e \in Event, RemoveCall(e) PROVE TypeOK'
  BY <1>12 DEF RemoveCall, TypeOK
<1>13. CASE RemoveStep
  <2>1. todo' \in 0..(LenMod - 1)
    BY <1>13 DEF RemoveStep, TypeOK
  <2>2. /\ chan' \in Seq(Event) /\ Len(chan') <= Cap
        /\ queued' \in [Event -> BOOLEAN]
        /\ len' \in 0..(LenMod - 1)
        /\ panic' \in {panic, "unwrap", "overflow"}
    <3>1. CASE chan = <<>>
      BY <1>13, <3>1 DEF RemoveStep, TypeOK
    <3>2. CASE chan # <<>>
      <4>1. /\ Head(chan) \in Event /\ Tail(chan) \in Seq(Event)
            /\ Len(Tail(chan)) = Len(chan) - 1 /\ Len(chan) \in Nat
        BY <3>2, TailFacts, LenProperties DEF TypeOK
      <4>2. /\ Append(Tail(chan), Head(chan)) \in Seq(Event)
            /\ Len(Append(Tail(chan), Head(chan))) = Len(chan)
        BY <4>1, AppendFacts
      <4>3. CASE Head(chan) = arg[Thread]
        <5>1. /\ chan' = Tail(chan) /\ StoreLen(len - 1)
              /\ queued' = [queued EXCEPT ![arg[Thread]] = FALSE]
          BY <1>13, <3>2, <4>3 DEF RemoveStep
        <5>2. len - 1 \in Int
          BY DEF TypeOK
        <5>3. len' \in 0..(LenMod - 1) /\ panic' \in {panic, "overflow"}
          BY <5>1, <5>2, StoreLenType
        <5>4. Len(Tail(chan)) <= Cap
          BY <4>1 DEF TypeOK
        <5>5. chan' \in Seq(Event) /\ Len(chan') <= Cap
          BY <4>1, <5>1, <5>4
        <5>6. queued' \in [Event -> BOOLEAN]
          BY <5>1 DEF TypeOK
        <5> QED BY <5>3, <5>5, <5>6
      <4>4. CASE Head(chan) # arg[Thread]
        BY <1>13, <3>2, <4>2, <4>4 DEF RemoveStep, TypeOK
      <4> QED BY <4>3, <4>4
    <3> QED BY <3>1, <3>2
  <2> QED BY <1>13, <2>1, <2>2 DEF RemoveStep, TypeOK
<1>14. CASE RemoveReturn
  BY <1>14 DEF RemoveReturn, TypeOK
<1>15. CASE UNCHANGED vars
  BY <1>15 DEF vars, TypeOK
<1> QED
  BY <1>1, <1>2, <1>3, <1>4, <1>5, <1>6, <1>7, <1>8, <1>9, <1>10, <1>11,
     <1>12, <1>13, <1>14, <1>15
  DEF Next, PutStep, GetStep, RemoveLoop

\* Every variable keeps its range, the counter its width and the channel its
\* capacity, in both kinds of build (embassy.rs:36-145).
THEOREM TypeCorrect == Spec => []TypeOK
BY TypeInit, TypeNext, PTL DEF Spec
--------------------------------------------------------------------------------
(***************************************************************************)
(* The callers' discipline, and what it gives.                             *)
(***************************************************************************)
Discipline ==
  /\ ChecksQueued
  /\ \A e \in Event : \A p, h \in Putters[e] : p = h

Putting(p) == pc[p] \in {"mark", "load", "store", "send", "sending"}
Marked(p)  == pc[p] \in {"load", "store", "send", "sending"}

\* A put is made by the owner of the event.
OwnersPut == \A p \in Ctx : Putting(p) => p \in Putters[arg[p]]

\* The flag seen down by the caller's test stays down until it is marked, and
\* then the event stays off the queue until it is sent.
FlagOfPut ==
  \A p \in Ctx :
    /\ pc[p] = "mark" => ~queued[arg[p]]
    /\ Marked(p) => queued[arg[p]] /\ ~InChan(arg[p])

\* Between taking an event and clearing its flag, get is alone with it.
TakenAlone ==
  pc[Thread] = "clear" =>
    /\ queued[arg[Thread]] /\ ~InChan(arg[Thread])
    /\ \A p \in Ctx : Putting(p) => arg[p] # arg[Thread]

QueuedFlagged == \A e \in Event : InChan(e) => queued[e]

\* A flag is up for a reason.
FlagJustified ==
  \A e \in Event : queued[e] =>
    \/ InChan(e)
    \/ \E p \in Ctx : Marked(p) /\ arg[p] = e
    \/ pc[Thread] = "clear" /\ arg[Thread] = e

DInv ==
  /\ TypeOK
  /\ OwnersPut /\ FlagOfPut /\ TakenAlone /\ QueuedFlagged
  /\ FlagJustified /\ NoDuplicate /\ NoOverflow

\* The discipline holds of the empty queue.
LEMMA DInit == Init => DInv
<1> SUFFICES ASSUME Init PROVE DInv
  OBVIOUS
<1>1. TypeOK
  BY TypeInit
<1>2. Thread \in Ctx /\ ~(\E e \in Event : InChan(e))
  BY ConstantsAssumption DEF Init, InChan, Thread, Ctx
<1> QED
  BY <1>1, <1>2 DEF Init, DInv, OwnersPut, FlagOfPut, TakenAlone, QueuedFlagged,
     FlagJustified, NoDuplicate, NoOverflow, Putting, Marked

\* Steps that leave the channel alone.
LEMMA DUnchanged ==
  ASSUME UNCHANGED chan
  PROVE  /\ \A e : InChan(e)' <=> InChan(e)
         /\ NoDuplicate' <=> NoDuplicate
BY DEF InChan, NoDuplicate

\* Every step keeps it.
LEMMA DNext ==
  ASSUME Discipline, Cardinality(Event) <= Cap, DInv, [Next]_vars
  PROVE  DInv'
<1> USE DEF At, Goto, Panic
<1>t. TypeOK /\ TypeOK' /\ Thread \in Ctx
  BY TypeNext, ConstantsAssumption DEF DInv, Thread, Ctx
<1> DEFINE Rest == OwnersPut /\ FlagOfPut /\ TakenAlone /\ QueuedFlagged
                   /\ FlagJustified /\ NoDuplicate /\ NoOverflow
<1>r. Rest
  BY DEF DInv
<1> SUFFICES Rest'
  BY <1>t DEF DInv
<1>1. ASSUME NEW p \in Ctx, NEW e \in Event, PutCall(p, e) PROVE Rest'
  <2>1. /\ ~queued[e] /\ p \in Putters[e] /\ pc[p] = "idle" /\ arg[p]' = e
        /\ pc' = [pc EXCEPT ![p] = "mark"] /\ arg' = [arg EXCEPT ![p] = e]
        /\ UNCHANGED <<chan, queued, panic>>
    BY <1>1, <1>t DEF PutCall, MayBegin, Discipline, TypeOK
  <2>2. \A x : InChan(x)' <=> InChan(x)
    BY <2>1, DUnchanged
  <2>3. NoDuplicate' /\ NoOverflow'
    BY <2>1, <1>r, DUnchanged DEF NoOverflow
  <2>4. OwnersPut' /\ FlagOfPut' /\ TakenAlone'
    BY <2>1, <2>2, <1>r, <1>t, SMTT(30)
    DEF TypeOK, OwnersPut, FlagOfPut, TakenAlone, Putting, Marked
  <2>5. QueuedFlagged'
    BY <2>1, <2>2, <1>r DEF QueuedFlagged
  <2>6. \A h \in Ctx : Marked(h) => Marked(h)' /\ arg'[h] = arg[h]
    BY <2>1, <1>t DEF TypeOK, Marked
  <2>7. pc[Thread] = "clear" => pc'[Thread] = "clear" /\ arg'[Thread] = arg[Thread]
    BY <2>1, <1>t DEF TypeOK
  <2>8. FlagJustified'
    BY <2>1, <2>2, <2>6, <2>7, <1>r DEF FlagJustified
  <2> QED BY <2>3, <2>4, <2>5, <2>8
<1>2. ASSUME NEW p \in Ctx, PutMark(p) PROVE Rest'
  <2>1. /\ pc[p] = "mark" /\ arg[p] \in Event
        /\ pc' = [pc EXCEPT ![p] = "load"]
        /\ queued' = [queued EXCEPT ![arg[p]] = TRUE]
        /\ UNCHANGED <<chan, arg, panic>>
    BY <1>2, <1>t DEF PutMark, TypeOK
  <2>2. \A x : InChan(x)' <=> InChan(x)
    BY <2>1, DUnchanged
  <2>3. NoDuplicate' /\ NoOverflow'
    BY <2>1, <1>r, DUnchanged DEF NoOverflow
  <2>4. ~InChan(arg[p])
    BY <2>1, <1>r DEF FlagOfPut, QueuedFlagged
  <2>5. OwnersPut'
    BY <2>1, <1>r, <1>t DEF TypeOK, OwnersPut, Putting
  <2>6. \A h \in Ctx : h # p /\ Putting(h) => arg[h] # arg[p]
    BY <2>1, <1>r DEF OwnersPut, Discipline, Putting
  <2>7. FlagOfPut'
    BY <2>1, <2>2, <2>4, <2>6, <1>r, <1>t DEF TypeOK, FlagOfPut, Putting, Marked
  <2>8. TakenAlone'
    BY <2>1, <2>2, <1>r, <1>t DEF TypeOK, TakenAlone, Putting
  <2>9. QueuedFlagged' /\ FlagJustified'
    BY <2>1, <2>2, <1>r, <1>t DEF TypeOK, QueuedFlagged, FlagJustified, Marked
  <2> QED BY <2>3, <2>5, <2>7, <2>8, <2>9
\* The steps between marking and sending.
<1>3. ASSUME NEW p \in Ctx, Marked(p), Marked(p)',
             \E label \in {"store", "send", "sending"} : pc' = [pc EXCEPT ![p] = label],
             UNCHANGED <<chan, queued, arg>>, panic' # "full"
      PROVE  Rest'
  <2>1. PICK label \in {"store", "send", "sending"} : pc' = [pc EXCEPT ![p] = label]
    BY <1>3
  <2>2. \A h \in Ctx : /\ Putting(h)' <=> Putting(h)
                       /\ Marked(h)' <=> Marked(h)
                       /\ pc'[h] = "mark" <=> pc[h] = "mark"
                       /\ pc'[h] = "clear" <=> pc[h] = "clear"
    BY <2>1, <1>3, <1>t DEF TypeOK, Putting, Marked
  <2>3. /\ \A x : InChan(x)' <=> InChan(x)
        /\ NoDuplicate' /\ NoOverflow'
    BY <1>3, <1>r, DUnchanged DEF NoOverflow
  <2> QED
    BY <2>2, <2>3, <1>3, <1>r, <1>t
    DEF OwnersPut, FlagOfPut, TakenAlone, QueuedFlagged, FlagJustified
<1>4. ASSUME NEW p \in Ctx, PutLoad(p) \/ PutStore(p) \/ PutSend(p) PROVE Rest'
  <2>1. /\ Marked(p) /\ Marked(p)'
        /\ \E label \in {"store", "send", "sending"} : pc' = [pc EXCEPT ![p] = label]
        /\ UNCHANGED <<chan, queued, arg>>
    BY <1>4, <1>t DEF PutLoad, PutStore, PutSend, Marked, TypeOK
  <2>2. panic' # "full"
    BY <1>4, <1>r DEF PutLoad, PutStore, PutSend, StoreLen, Borrow, NoOverflow
  <2> QED BY <1>3, <2>1, <2>2
<1>5. ASSUME NEW p \in Ctx, PutSent(p) PROVE Rest'
  <2>1. /\ pc[p] = "sending" /\ arg[p] \in Event /\ Marked(p) /\ Putting(p)
        /\ pc' = [pc EXCEPT ![p] = "idle"]
        /\ UNCHANGED <<queued, arg>>
    BY <1>5, <1>t DEF PutSent, TypeOK, Marked, Putting
  <2>2. queued[arg[p]] /\ ~InChan(arg[p]) /\ chan \in Seq(Event)
    BY <2>1, <1>r, <1>t DEF FlagOfPut, TypeOK
  <2>3. Len(chan) < Cap
    <3>1. Len(chan) < Cardinality(Event)
      BY <2>1, <2>2, <1>r, DistinctIsShort, ConstantsAssumption
      DEF InChan, Member, NoDuplicate, Distinct
    <3>2. Len(chan) \in Nat /\ Cardinality(Event) \in Nat /\ Cap \in Nat
      BY <2>2, LenProperties, FS_CardinalityType, ConstantsAssumption
    <3> QED BY <3>1, <3>2
  <2>4. chan' = Append(chan, arg[p]) /\ UNCHANGED panic
    BY <1>5, <2>2, <2>3, LenProperties, ConstantsAssumption DEF PutSent
  <2>5. /\ \A x : InChan(x)' <=> InChan(x) \/ x = arg[p]
        /\ NoDuplicate' /\ NoOverflow'
    BY <2>1, <2>2, <2>4, <1>r, AppendFacts, SMTT(30)
    DEF InChan, NoDuplicate, Member, Distinct, NoOverflow
  <2>6. \A h \in Ctx : h # p /\ Putting(h) => arg[h] # arg[p]
    BY <2>1, <1>r DEF OwnersPut, Discipline
  <2>7. OwnersPut' /\ FlagOfPut'
    BY <2>1, <2>5, <2>6, <1>r, <1>t DEF TypeOK, OwnersPut, FlagOfPut, Putting, Marked
  <2>8. TakenAlone'
    BY <2>1, <2>5, <1>r, <1>t DEF TypeOK, TakenAlone, Putting
  <2>9. QueuedFlagged'
    BY <2>1, <2>2, <2>5, <1>r, <1>t DEF TypeOK, QueuedFlagged
  <2>10. FlagJustified'
    <3> SUFFICES ASSUME NEW e \in Event, queued[e], e # arg[p], ~InChan(e)
                 PROVE  \/ \E h \in Ctx : Marked(h)' /\ arg[h] = e
                        \/ pc'[Thread] = "clear" /\ arg[Thread] = e
      BY <2>1, <2>5 DEF FlagJustified
    <3>1. CASE \E h \in Ctx : Marked(h) /\ arg[h] = e
      BY <2>1, <3>1, <1>t DEF TypeOK, Marked
    <3>2. CASE pc[Thread] = "clear" /\ arg[Thread] = e
      BY <2>1, <3>2, <1>t DEF TypeOK
    <3> QED BY <3>1, <3>2, <1>r DEF FlagJustified
  <2> QED BY <2>5, <2>7, <2>8, <2>9, <2>10
\* The steps of the thread that touch neither the channel nor a flag.
<1>6. ASSUME pc[Thread] \notin {"mark", "load", "store", "send", "sending", "clear"},
             NEW label \in {"idle", "receive", "get_load", "get_store", "remove"},
             pc' = [pc EXCEPT ![Thread] = label],
             \A p \in Ctx : p # Thread => arg'[p] = arg[p],
             UNCHANGED <<chan, queued>>, panic' # "full"
      PROVE  Rest'
  <2>1. \A p \in Ctx : /\ Putting(p)' <=> Putting(p)
                       /\ Marked(p)' <=> Marked(p)
                       /\ pc'[p] = "mark" <=> pc[p] = "mark"
                       /\ pc'[p] # "idle" /\ Putting(p) => arg'[p] = arg[p]
    BY <1>6, <1>t DEF TypeOK, Putting, Marked
  <2>2. pc[Thread] # "clear" /\ pc'[Thread] # "clear"
    BY <1>6, <1>t DEF TypeOK
  <2>3. \A p \in Ctx : Putting(p) => p # Thread
    BY <1>6 DEF Putting
  <2>4. \A p \in Ctx : Marked(p) \/ pc[p] = "mark" => Putting(p)
    BY DEF Marked, Putting
  <2>5. /\ \A x : InChan(x)' <=> InChan(x)
        /\ NoDuplicate' /\ NoOverflow'
    BY <1>6, <1>r, DUnchanged DEF NoOverflow
  <2>6. OwnersPut' /\ FlagOfPut' /\ TakenAlone' /\ QueuedFlagged'
    BY <2>1, <2>2, <2>3, <2>4, <2>5, <1>6, <1>r
    DEF OwnersPut, FlagOfPut, TakenAlone, QueuedFlagged
  <2>7. FlagJustified'
    BY <2>1, <2>2, <2>3, <2>4, <2>5, <1>6, <1>r DEF FlagJustified
  <2> QED BY <2>5, <2>6, <2>7
<1>7. CASE GetPoll
  BY <1>6, <1>7, <1>r, <1>t DEF GetPoll, MayBegin, TypeOK, NoOverflow
<1>8. CASE GetReceive
  <2>1. CASE chan = <<>>
    BY <1>6, <1>8, <2>1, <1>r, <1>t DEF GetReceive, TypeOK, NoOverflow
  <2>2. CASE chan # <<>>
    <3>0. PICK e \in Event : e = Head(chan)
      BY <2>2, <1>t, TailFacts DEF TypeOK
    <3>1. /\ pc[Thread] = "receive" /\ pc' = [pc EXCEPT ![Thread] = "clear"]
          /\ arg' = [arg EXCEPT ![Thread] = e] /\ chan' = Tail(chan)
          /\ UNCHANGED <<queued, panic>>
      BY <1>8, <2>2, <3>0 DEF GetReceive
    <3>2. /\ \A x : InChan(x) <=> x = e \/ InChan(x)'
          /\ NoDuplicate' /\ ~InChan(e)'
      <4>1. chan \in Seq(Event) /\ Distinct(chan)
        BY <1>r, <1>t DEF TypeOK, NoDuplicate, Distinct
      <4>2. \A x : InChan(x) <=> Member(chan, x)
        BY DEF InChan, Member
      <4>3. /\ \A x : InChan(x)' <=> Member(Tail(chan), x)
            /\ NoDuplicate' <=> Distinct(Tail(chan))
        BY <3>1 DEF InChan, Member, NoDuplicate, Distinct
      <4> QED BY <2>2, <3>0, <4>1, <4>2, <4>3, TailFacts
    <3>3. queued[e] /\ InChan(e)
      BY <3>2, <1>r DEF QueuedFlagged
    <3>4. pc'[Thread] = "clear" /\ arg'[Thread] = e
      BY <3>1, <1>t DEF TypeOK
    <3>5. \A p \in Ctx : /\ Putting(p)' => Putting(p) /\ arg'[p] = arg[p]
                         /\ Marked(p)' <=> Marked(p)
                         /\ Marked(p) => arg'[p] = arg[p]
                         /\ pc'[p] = "mark" <=> pc[p] = "mark"
      BY <3>1, <1>t DEF TypeOK, Putting, Marked
    <3>6. \A p \in Ctx : Putting(p) <=> pc[p] = "mark" \/ Marked(p)
      BY DEF Putting, Marked
    <3>7. \A p \in Ctx : Putting(p) => arg[p] # e
      BY <3>3, <3>6, <1>r DEF FlagOfPut
    <3>8. OwnersPut' /\ NoOverflow'
      BY <3>1, <3>5, <1>r DEF OwnersPut, NoOverflow
    <3>9. TakenAlone'
      <4>1. queued'[e] /\ ~InChan(e)'
        BY <3>1, <3>2, <3>3
      <4>2. \A p \in Ctx : Putting(p)' => arg'[p] # e
        BY <3>5, <3>7
      <4> QED BY <3>4, <4>1, <4>2 DEF TakenAlone
    <3>10. pc[Thread] # "clear"
      BY <3>1
    <3>11. FlagOfPut'
      <4> SUFFICES ASSUME NEW p \in Ctx, NEW x, x = arg'[p],
                          pc'[p] = "mark" \/ Marked(p)'
                   PROVE  /\ pc'[p] = "mark" => ~queued[x]
                          /\ Marked(p)' => queued[x] /\ ~InChan(x)'
        BY <3>1 DEF FlagOfPut
      <4>1. arg[p] = x
        BY <3>1, <3>5, <1>t DEF TypeOK
      <4>2. /\ pc[p] = "mark" => ~queued[x]
            /\ Marked(p) => queued[x] /\ ~InChan(x)
        BY <4>1, <1>r DEF FlagOfPut
      <4> QED BY <3>2, <3>5, <4>2
    <3>12. QueuedFlagged' /\ FlagJustified'
      BY <3>1, <3>2, <3>4, <3>5, <3>10, <1>r DEF QueuedFlagged, FlagJustified
    <3> QED BY <3>2, <3>8, <3>9, <3>11, <3>12
  <2> QED BY <2>1, <2>2
<1>9. CASE GetClear
  <2> DEFINE e == arg[Thread]
  <2>1. /\ pc[Thread] = "clear" /\ pc' = [pc EXCEPT ![Thread] = "get_load"]
        /\ e \in Event
        /\ queued' = [queued EXCEPT ![e] = FALSE]
        /\ UNCHANGED <<chan, arg, panic>>
    BY <1>9, <1>t DEF GetClear, TypeOK
  <2>2. /\ \A x : InChan(x)' <=> InChan(x)
        /\ NoDuplicate' /\ NoOverflow'
    BY <2>1, <1>r, DUnchanged DEF NoOverflow
  <2>3. ~InChan(e) /\ \A p \in Ctx : Putting(p) => arg[p] # e
    BY <2>1, <1>r DEF TakenAlone
  <2>4. \A p \in Ctx : /\ Putting(p)' <=> Putting(p)
                       /\ Marked(p)' <=> Marked(p)
                       /\ pc'[p] = "mark" <=> pc[p] = "mark"
                       /\ Putting(p) <=> pc[p] = "mark" \/ Marked(p)
    BY <2>1, <1>t DEF TypeOK, Putting, Marked
  <2>5. pc'[Thread] # "clear"
    BY <2>1, <1>t DEF TypeOK
  <2>6. \A x \in Event : queued'[x] <=> queued[x] /\ x # e
    BY <2>1, <1>t DEF TypeOK
  <2>7. \A p \in Ctx : Putting(p) => arg[p] \in Event
    BY <1>t DEF TypeOK, Putting
  <2>8. OwnersPut' /\ FlagOfPut' /\ TakenAlone' /\ QueuedFlagged'
    BY <2>1, <2>2, <2>3, <2>4, <2>5, <2>6, <2>7, <1>r
    DEF OwnersPut, FlagOfPut, TakenAlone, QueuedFlagged
  <2>9. FlagJustified'
    BY <2>1, <2>2, <2>4, <2>6, <1>r DEF FlagJustified
  <2> QED BY <2>2, <2>8, <2>9
<1>10. CASE GetLoad
  BY <1>6, <1>10, <1>r, <1>t DEF GetLoad, TypeOK, NoOverflow
<1>11. CASE GetStore
  <2>1. panic' # "full"
    BY <1>11, <1>r DEF GetStore, StoreLen, NoOverflow
  <2> QED BY <1>6, <1>11, <2>1, <1>t DEF GetStore, TypeOK
<1>12. ASSUME NEW e \in Event, RemoveCall(e) PROVE Rest'
  BY <1>6, <1>12, <1>r, <1>t DEF RemoveCall, MayBegin, TypeOK, NoOverflow
<1>14. CASE RemoveReturn
  BY <1>6, <1>14, <1>r, <1>t DEF RemoveReturn, TypeOK, NoOverflow
\* Steps after which the same events are on the queue, with the same flags.
<1>15. ASSUME \A x : InChan(x)' <=> InChan(x), NoDuplicate',
              UNCHANGED <<pc, arg, queued>>, panic' # "full"
       PROVE  Rest'
  BY <1>15, <1>r
  DEF OwnersPut, FlagOfPut, TakenAlone, QueuedFlagged, FlagJustified,
      Putting, Marked, NoOverflow
<1>16. CASE UNCHANGED vars
  <2>1. /\ \A x : InChan(x)' <=> InChan(x)
        /\ NoDuplicate' /\ panic' # "full"
    BY <1>16, <1>r, DUnchanged DEF vars, NoOverflow
  <2> QED BY <1>15, <1>16, <2>1 DEF vars
<1>17. CASE RemoveStep
  <2>0. pc[Thread] = "remove" /\ UNCHANGED <<pc, arg>>
    BY <1>17 DEF RemoveStep
  <2>1. CASE chan = <<>>
    <3>1. UNCHANGED <<chan, queued>> /\ panic' # "full"
      BY <1>17, <2>1 DEF RemoveStep
    <3> QED BY <1>15, <2>0, <3>1, <1>r, DUnchanged
  <2>2. CASE chan # <<>>
    <3>0. PICK e \in Event : e = Head(chan)
      BY <2>2, <1>t, TailFacts DEF TypeOK
    <3>1. /\ chan \in Seq(Event) /\ Distinct(chan)
          /\ \A x : InChan(x) <=> Member(chan, x)
      BY <1>r, <1>t DEF TypeOK, NoDuplicate, InChan, Member, Distinct
    <3>2. /\ Tail(chan) \in Seq(Event) /\ Distinct(Tail(chan))
          /\ \A x : InChan(x) <=> x = e \/ Member(Tail(chan), x)
          /\ ~Member(Tail(chan), e)
      BY <2>2, <3>0, <3>1, TailFacts
    <3>3. /\ \A x : InChan(x)' <=> Member(chan', x)
          /\ NoDuplicate' <=> Distinct(chan')
      BY DEF InChan, Member, NoDuplicate, Distinct
    <3>4. CASE e # arg[Thread]
      <4>1. /\ chan' = Append(Tail(chan), e)
            /\ UNCHANGED queued /\ panic' # "full"
        BY <1>17, <1>r, <2>2, <3>0, <3>4 DEF RemoveStep, NoOverflow
      <4>2. /\ Distinct(Append(Tail(chan), e))
            /\ \A x : Member(Append(Tail(chan), e), x) <=> Member(Tail(chan), x) \/ x = e
        BY <3>2, AppendFacts
      <4> QED BY <1>15, <2>0, <3>2, <3>3, <4>1, <4>2
    <3>5. CASE e = arg[Thread]
      <4>1. /\ chan' = Tail(chan) /\ panic' # "full"
            /\ queued' = [queued EXCEPT ![e] = FALSE]
        BY <1>17, <1>r, <2>2, <3>0, <3>5 DEF RemoveStep, StoreLen, NoOverflow
      <4>2. /\ \A x : InChan(x)' <=> InChan(x) /\ x # e
            /\ NoDuplicate' /\ InChan(e) /\ queued[e]
        BY <3>2, <3>3, <4>1, <1>r DEF QueuedFlagged
      <4>3. \A x \in Event : queued'[x] <=> queued[x] /\ x # e
        BY <4>1, <1>t DEF TypeOK
      <4>4. \A p \in Ctx : Putting(p) => arg[p] # e /\ arg[p] \in Event
        BY <4>2, <1>r, <1>t DEF FlagOfPut, Putting, Marked, TypeOK
      <4>5. \A p \in Ctx : /\ Putting(p)' <=> Putting(p)
                           /\ Marked(p)' <=> Marked(p)
                           /\ Marked(p) \/ pc[p] = "mark" => Putting(p)
        BY <2>0 DEF Putting, Marked
      <4>6. OwnersPut' /\ TakenAlone' /\ NoOverflow'
        BY <2>0, <4>1, <4>5, <1>r DEF OwnersPut, TakenAlone, NoOverflow
      <4>7. FlagOfPut'
        <5> SUFFICES ASSUME NEW p \in Ctx, NEW x, x = arg[p], Putting(p)
                     PROVE  /\ pc[p] = "mark" => ~queued'[x]
                            /\ Marked(p) => queued'[x] /\ ~InChan(x)'
          BY <2>0, <4>5 DEF FlagOfPut
        <5>1. /\ pc[p] = "mark" => ~queued[x]
              /\ Marked(p) => queued[x] /\ ~InChan(x)
          BY <1>r DEF FlagOfPut
        <5> QED BY <4>2, <4>3, <4>4, <5>1
      <4>8. QueuedFlagged'
        BY <4>2, <4>3, <1>r DEF QueuedFlagged
      <4>9. FlagJustified'
        BY <2>0, <4>2, <4>3, <4>5, <1>r DEF FlagJustified
      <4> QED BY <4>2, <4>6, <4>7, <4>8, <4>9
    <3> QED BY <3>4, <3>5
  <2> QED BY <2>1, <2>2
<1> QED
  BY <1>1, <1>2, <1>4, <1>5, <1>7, <1>8, <1>9, <1>10, <1>11, <1>12, <1>14,
     <1>16, <1>17
  DEF Next, PutStep, GetStep, RemoveLoop

\* For callers that keep the discipline, with no more events than slots: every
\* event is on the queue at most once, its flag tells whether it is, and no put
\* panics (embassy.rs:80-145).  The inductive invariant says where a flag that
\* is up without an event on the queue comes from: a put or a get in progress.
THEOREM DisciplineSafe ==
  ASSUME Discipline, Cardinality(Event) <= Cap
  PROVE  Spec => [](NoDuplicate /\ FlagMatchesChannel /\ NoOverflow)
<1>1. DInv /\ [Next]_vars => DInv'
  BY DNext
<1>2. DInv => NoDuplicate /\ FlagMatchesChannel /\ NoOverflow
  <2> SUFFICES ASSUME DInv, NEW e \in Event
               PROVE  (InChan(e) => queued[e]) /\ (Quiescent /\ queued[e] => InChan(e))
    BY DEF DInv, FlagMatchesChannel
  <2>1. Quiescent => pc[Thread] # "clear" /\ \A p \in Ctx : ~Marked(p)
    BY ConstantsAssumption DEF Quiescent, Marked, Thread, Ctx
  <2> QED BY <2>1 DEF DInv, QueuedFlagged, FlagJustified
<1> QED BY <1>1, <1>2, DInit, PTL DEF Spec

\* Under the discipline an event on the queue has its flag up, and outside of
\* any operation a flag that is up means that the event is on the queue: callers
\* can go by ble_npl_event_is_queued (embassy.rs:102, 113).
THEOREM FlagsTold ==
  ASSUME Discipline, Cardinality(Event) <= Cap
  PROVE  Spec => []FlagMatchesChannel
BY DisciplineSafe, Discipline, Cardinality(Event) <= Cap, PTL

\* Under the discipline no put finds the channel full, so none panics
\* (embassy.rs:115-117).
THEOREM NeverFull ==
  ASSUME Discipline, Cardinality(Event) <= Cap
  PROVE  Spec => []NoOverflow
BY DisciplineSafe, Discipline, Cardinality(Event) <= Cap, PTL
--------------------------------------------------------------------------------
(***************************************************************************)
(* The counter, when nothing interrupts.                                   *)
(***************************************************************************)
\* What the counter is at each place of an operation.  A put that will find the
\* channel full may have wrapped it.
CountAt ==
  LET at == pc[Thread]
      n  == Len(chan)
  IN  /\ at \in {"idle", "mark", "load", "store", "receive", "remove"} => len = n
      /\ at \in {"send", "sending"} => len = (n + 1) % LenMod
      /\ at \in {"clear", "get_load", "get_store"} => len = n + 1 /\ n < Cap
      /\ at \in {"store", "get_store"} => reg[Thread] = len
      /\ at = "remove" => todo <= n

LInv == TypeOK /\ panic # "unwrap" /\ (panic = "no" => CountAt)

LEMMA LInit == Init => LInv
<1> SUFFICES ASSUME Init PROVE CountAt
  BY TypeInit DEF LInv, Init
<1> QED BY ConstantsAssumption DEF Init, CountAt, Thread, Ctx

LEMMA LNext ==
  ASSUME Isr = 0
  PROVE  LInv /\ [Next]_vars => LInv'
<1> SUFFICES ASSUME LInv, [Next]_vars PROVE LInv'
  OBVIOUS
<1> SUFFICES ASSUME Next PROVE LInv'
  BY TypeNext DEF LInv, CountAt, vars
<1>1. /\ TypeOK /\ TypeOK' /\ panic = "no" /\ CountAt
      /\ Ctx = {Thread} /\ Thread = 0
      /\ chan \in Seq(Event) /\ Len(chan) \in Nat /\ Len(chan) <= Cap
      /\ DOMAIN pc = Ctx
      /\ reg \in [Ctx -> Nat] /\ len \in Nat /\ len < LenMod /\ todo \in Nat
      /\ Cap \in Nat /\ LenMod \in Nat /\ LenMod > Cap /\ Cap > 0
  <2>1. TypeOK /\ TypeOK' /\ panic = "no" /\ CountAt
    BY TypeNext DEF LInv, Next
  <2>2. Ctx = {Thread} /\ Thread = 0
    BY DEF Ctx, Thread
  <2>3. Len(chan) \in Nat
    BY <2>1, LenProperties DEF TypeOK
  <2>4. reg \in [Ctx -> Nat] /\ DOMAIN pc = Ctx
    BY <2>1, ConstantsAssumption DEF TypeOK
  <2> QED BY <2>1, <2>2, <2>3, <2>4, ConstantsAssumption DEF TypeOK
<1> SUFFICES panic' # "unwrap" /\ (panic' = "no" => CountAt')
  BY <1>1 DEF LInv
<1> USE DEF At, Goto, Panic
<1>2. ASSUME NEW e \in Event, PutCall(Thread, e) PROVE panic' # "unwrap" /\ CountAt'
  BY <1>1, <1>2 DEF PutCall, MayBegin, CountAt
<1>3. ASSUME PutMark(Thread) PROVE panic' # "unwrap" /\ CountAt'
  BY <1>1, <1>3 DEF PutMark, CountAt
<1>4. ASSUME PutLoad(Thread) PROVE panic' # "unwrap" /\ CountAt'
  BY <1>1, <1>4 DEF PutLoad, CountAt
<1>5. ASSUME PutStore(Thread) PROVE panic' # "unwrap" /\ CountAt'
  BY <1>1, <1>5 DEF PutStore, StoreLen, CountAt
<1>6. ASSUME PutSend(Thread) PROVE panic' # "unwrap" /\ CountAt'
  BY <1>1, <1>6 DEF PutSend, Borrow, CountAt
<1>7. ASSUME PutSent(Thread) PROVE panic' # "unwrap" /\ (panic' = "no" => CountAt')
  <2>1. CASE Len(chan) >= Cap
    BY <1>1, <1>7, <2>1 DEF PutSent
  <2>2. CASE Len(chan) < Cap
    <3>1. arg[Thread] \in Event
      BY <1>1, <1>7 DEF PutSent, TypeOK
    <3>2. Len(chan') = Len(chan) + 1 /\ panic' = "no"
      BY <1>1, <1>7, <2>2, <3>1, AppendFacts DEF PutSent
    <3>3. (Len(chan) + 1) % LenMod = Len(chan) + 1
      BY <1>1, <2>2
    <3> QED BY <1>1, <1>7, <3>2, <3>3 DEF PutSent, CountAt
  <2> QED BY <1>1, <2>1, <2>2
<1>8. ASSUME GetPoll PROVE panic' # "unwrap" /\ CountAt'
  BY <1>1, <1>8 DEF GetPoll, MayBegin, CountAt
<1>9. ASSUME GetReceive PROVE panic' # "unwrap" /\ CountAt'
  <2>1. CASE chan = <<>>
    BY <1>1, <1>9, <2>1 DEF GetReceive, CountAt
  <2>2. CASE chan # <<>>
    <3>1. Len(Tail(chan)) = Len(chan) - 1 /\ Len(chan) > 0
      BY <1>1, <2>2, HeadTailProperties, EmptySeq
    <3> QED BY <1>1, <1>9, <2>2, <3>1 DEF GetReceive, CountAt
  <2> QED BY <2>1, <2>2
<1>10. ASSUME GetClear PROVE panic' # "unwrap" /\ CountAt'
  BY <1>1, <1>10 DEF GetClear, CountAt
<1>11. ASSUME GetLoad PROVE panic' # "unwrap" /\ CountAt'
  BY <1>1, <1>11 DEF GetLoad, CountAt
<1>12. ASSUME GetStore PROVE panic' # "unwrap" /\ CountAt'
  <2>1. len - 1 = Len(chan) /\ reg[Thread] = len /\ (len - 1) % LenMod = len - 1
    BY <1>1, <1>12 DEF GetStore, CountAt
  <2> QED BY <1>1, <1>12, <2>1 DEF GetStore, StoreLen, CountAt
<1>13. ASSUME NEW e \in Event, RemoveCall(e) PROVE panic' # "unwrap" /\ CountAt'
  BY <1>1, <1>13 DEF RemoveCall, MayBegin, CountAt
<1>14. ASSUME RemoveStep PROVE panic' # "unwrap" /\ CountAt'
  <2>1. len = Len(chan) /\ todo > 0 /\ todo <= Len(chan) /\ pc[Thread] = "remove"
    BY <1>1, <1>14 DEF RemoveStep, CountAt
  <2>2. chan # <<>>
    BY <1>1, <2>1, EmptySeq
  <2>3. /\ Head(chan) \in Event /\ Tail(chan) \in Seq(Event)
        /\ Len(Tail(chan)) = Len(chan) - 1
    BY <1>1, <2>2, HeadTailProperties
  <2>4. Len(Append(Tail(chan), Head(chan))) = Len(chan)
    BY <1>1, <2>1, <2>3, AppendFacts
  <2>5. CASE Head(chan) = arg[Thread]
    <3>1. (len - 1) % LenMod = len - 1 /\ len - 1 \in 0..(LenMod - 1)
      BY <1>1, <2>1
    <3> QED BY <1>1, <1>14, <2>1, <2>2, <2>3, <2>5, <3>1 DEF RemoveStep, StoreLen, CountAt
  <2>6. CASE Head(chan) # arg[Thread]
    BY <1>1, <1>14, <2>1, <2>2, <2>3, <2>4, <2>6 DEF RemoveStep, CountAt
  <2> QED BY <2>5, <2>6
<1>15. ASSUME RemoveReturn PROVE panic' # "unwrap" /\ CountAt'
  BY <1>1, <1>15 DEF RemoveReturn, CountAt
<1>16. ASSUME NEW p \in Ctx PROVE p = Thread
  BY <1>1
<1> QED BY <1>2, <1>3, <1>4, <1>5, <1>6, <1>7, <1>8, <1>9, <1>10, <1>11, <1>12, <1>13, <1>14,
           <1>15, <1>16
        DEF Next, PutStep, GetStep, RemoveLoop

\* On a queue that no interrupt uses the counter is the number of entries whenever
\* no operation is in progress, also for callers that put an event twice or
\* overflow the queue (embassy.rs:80-145).
THEOREM CountedAlone ==
  ASSUME Isr = 0
  PROVE  Spec => []LenExact
<1>1. LInv => LenExact
  BY ConstantsAssumption DEF LInv, CountAt, LenExact, Quiescent, Thread, Ctx
<1> QED BY <1>1, Isr = 0, LInit, LNext, PTL DEF Spec

\* So ble_npl_eventq_remove finds the entries it counts on: it takes an interrupt
\* to make it panic (embassy.rs:128-129).
THEOREM RemoveSafeAlone ==
  ASSUME Isr = 0
  PROVE  Spec => []RemoveFindsEntries
<1>1. LInv => RemoveFindsEntries
  BY DEF LInv, RemoveFindsEntries
<1> QED BY <1>1, Isr = 0, LInit, LNext, PTL DEF Spec
--------------------------------------------------------------------------------
(***************************************************************************)
(* The counter with interrupts, in a build that checks arithmetic.  The    *)
(* interrupts' increments get lost, and none is counted twice: the counter *)
(* is never above the entries of the channel and those that are counted    *)
(* and not on it.  This rests on run-to-completion, so the proof uses      *)
(* Running.                                                                *)
(***************************************************************************)
\* The contexts whose operation has counted an entry that is not on the channel yet,
\* or is no more.
Ahead == {p \in Ctx : pc[p] \in {"send", "sending", "clear", "get_load", "get_store"}}

Below(p) == {q \in Ahead : q < p}

Bounded ==
  /\ len <= Len(chan) + Cardinality(Ahead)
  /\ \A p \in Ctx : pc[p] = "store" => reg[p] <= Len(chan) + Cardinality(Below(p))
  /\ pc[Thread] = "get_store" => reg[Thread] <= Len(chan) + 1
  /\ pc[Thread] = "remove" => todo <= Len(chan)

BInv == TypeOK /\ panic # "unwrap" /\ (panic = "no" => Bounded)

LEMMA CtxFinite ==
  /\ IsFiniteSet(Ctx)
  /\ \A S \in SUBSET Ctx : IsFiniteSet(S) /\ Cardinality(S) \in Nat
<1>1. IsFiniteSet(Ctx)
  BY FS_Interval, ConstantsAssumption DEF Ctx
<1> QED BY <1>1, FS_Subset, FS_CardinalityType

\* While a context has the processor nobody above it is in an operation.
LEMMA AheadOf ==
  ASSUME NEW p \in Ctx, Running(p)
  PROVE  /\ Below(p) \subseteq Ctx
         /\ Ahead = Below(p) \cup (IF p \in Ahead THEN {p} ELSE {})
         /\ \A r \in Ctx : pc[r] # "idle" => r <= p
BY DEF Running, Ahead, Below, Ctx

\* A step of p leaves what is below it, and what is below anyone below it.
LEMMA BelowStays ==
  ASSUME TypeOK, NEW p \in Ctx, \A q \in Ctx \ {p} : pc'[q] = pc[q]
  PROVE  \A r \in Ctx : r <= p => Below(r)' = Below(r)
<1> SUFFICES ASSUME NEW r \in Ctx, r <= p PROVE Below(r)' = Below(r)
  OBVIOUS
<1>1. \A q \in Ctx : q < r => (q \in Ahead' <=> q \in Ahead)
  BY DEF Ahead, Ctx
<1> QED BY <1>1 DEF Below, Ahead

\* So a step of p changes the number of those ahead by what p itself does.
LEMMA AheadCount ==
  ASSUME TypeOK, NEW p \in Ctx, Running(p), \A q \in Ctx \ {p} : pc'[q] = pc[q]
  PROVE  /\ Cardinality(Below(p)) \in Nat
         /\ p \notin Ahead => Cardinality(Ahead) = Cardinality(Below(p))
         /\ p \in Ahead => Cardinality(Ahead) = Cardinality(Below(p)) + 1
         /\ p \notin Ahead' => Cardinality(Ahead') = Cardinality(Below(p))
         /\ p \in Ahead' => Cardinality(Ahead') = Cardinality(Below(p)) + 1
<1>1. Running(p)'
  BY DEF Running, Ctx
<1>2. Ahead' = Below(p) \cup (IF p \in Ahead' THEN {p} ELSE {})
  <2>1. Below(p)' = Below(p)
    BY BelowStays DEF Ctx
  <2>2. \A q \in Ahead' : q <= p
    BY <1>1 DEF Running, Ahead, Ctx
  <2> QED BY <2>1, <2>2 DEF Below, Ahead, Ctx
<1>3. /\ Ahead = Below(p) \cup (IF p \in Ahead THEN {p} ELSE {})
      /\ Below(p) \subseteq Ctx /\ p \notin Below(p)
  BY AheadOf DEF Below, Ctx
<1>4. /\ IsFiniteSet(Below(p)) /\ Cardinality(Below(p)) \in Nat
      /\ Cardinality(Below(p) \cup {p}) = Cardinality(Below(p)) + 1
  BY <1>3, CtxFinite, FS_AddElement
<1> QED BY <1>2, <1>3, <1>4

\* An operation of p changes only p's place.
LEMMA OthersStay ==
  ASSUME TypeOK, NEW p \in Ctx, NEW to, Goto(p, to)
  PROVE  pc'[p] = to /\ \A q \in Ctx \ {p} : pc'[q] = pc[q]
BY DEF TypeOK, Goto

LEMMA BInit == Init => BInv
<1> SUFFICES ASSUME Init PROVE Bounded
  BY TypeInit DEF BInv, Init
<1>1. Ahead = {} /\ Thread \in Ctx
  BY ConstantsAssumption DEF Init, Ahead, Thread, Ctx
<1> QED BY <1>1, FS_EmptySet DEF Init, Bounded

\* A build that checks arithmetic stores what it has computed, or panics.
LEMMA StoreLenChecked ==
  ASSUME OverflowChecks, panic = "no", NEW n \in Int, StoreLen(n)
  PROVE  panic' # "unwrap" /\ (panic' = "no" => len' = n)
<1>1. CASE n \in 0..(LenMod - 1)
  <2>1. n % LenMod = n
    BY <1>1, ConstantsAssumption
  <2> QED BY <2>1 DEF StoreLen
<1>2. CASE n \notin 0..(LenMod - 1)
  BY <1>2 DEF StoreLen
<1> QED BY <1>1, <1>2

\* The steps of a put.
LEMMA BPut ==
  ASSUME OverflowChecks, BInv, TypeOK', panic = "no", NEW p \in Ctx,
         PutStep(p) \/ \E e \in Event : PutCall(p, e)
  PROVE  panic' # "unwrap" /\ (panic' = "no" => Bounded')
<1> USE DEF At, Panic
<1>1. /\ TypeOK /\ Bounded /\ Running(p) /\ Thread \in Ctx
      /\ len \in Nat /\ Len(chan) \in Nat /\ \A q \in Ctx : reg[q] \in Nat
      /\ todo \in Nat
  <2>1. Running(p)
    BY DEF PutStep, PutMark, PutLoad, PutStore, PutSend, PutSent, PutCall, MayBegin
  <2>2. TypeOK /\ Bounded
    BY DEF BInv
  <2>3. Thread \in Ctx
    BY ConstantsAssumption DEF Thread, Ctx
  <2>4. len \in Nat /\ Len(chan) \in Nat /\ (\A q \in Ctx : reg[q] \in Nat) /\ todo \in Nat
    BY <2>2, LenProperties, ConstantsAssumption DEF TypeOK
  <2> QED BY <2>1, <2>2, <2>3, <2>4
<1>2. \A q \in Ctx \ {p} : pc'[q] = pc[q]
  BY <1>1, OthersStay
     DEF PutStep, PutMark, PutLoad, PutStore, PutSend, PutSent, PutCall
<1>3. /\ \A r \in Ctx : pc[r] # "idle" => r <= p
      /\ \A r \in Ctx : r <= p => Below(r)' = Below(r)
      /\ \A r \in Ctx : Cardinality(Below(r)) \in Nat
  BY <1>1, <1>2, AheadOf, BelowStays, CtxFinite DEF Below, Ahead
<1>4. /\ Cardinality(Below(p)) \in Nat
      /\ p \notin Ahead => Cardinality(Ahead) = Cardinality(Below(p))
      /\ p \in Ahead => Cardinality(Ahead) = Cardinality(Below(p)) + 1
      /\ p \notin Ahead' => Cardinality(Ahead') = Cardinality(Below(p))
      /\ p \in Ahead' => Cardinality(Ahead') = Cardinality(Below(p)) + 1
  BY <1>1, <1>2, AheadCount
<1>5. CASE PutMark(p) \/ PutSend(p) \/ \E e \in Event : PutCall(p, e)
  <2>1. /\ UNCHANGED <<chan, len, reg, todo>> /\ panic' # "unwrap"
        /\ pc'[p] \notin {"store", "get_store", "remove"} /\ (p \in Ahead' <=> p \in Ahead)
    BY <1>1, <1>5, OthersStay DEF PutMark, PutSend, PutCall, MayBegin, Borrow, Ahead
  <2> QED BY <1>1, <1>2, <1>3, <1>4, <2>1 DEF Bounded
<1>6. CASE PutLoad(p)
  <2>1. /\ UNCHANGED <<chan, len, todo, panic>> /\ reg' = [reg EXCEPT ![p] = len]
        /\ pc[p] = "load" /\ pc'[p] = "store" /\ p \notin Ahead /\ p \notin Ahead'
    BY <1>1, <1>6, OthersStay DEF PutLoad, Ahead
  <2>2. reg'[p] = len /\ \A r \in Ctx \ {p} : reg'[r] = reg[r]
    BY <1>1, <2>1 DEF TypeOK
  <2>3. len <= Len(chan) + Cardinality(Below(p))
    BY <1>1, <1>4, <2>1 DEF Bounded
  <2>4. ASSUME NEW r \in Ctx, pc'[r] = "store"
        PROVE  reg'[r] <= Len(chan') + Cardinality(Below(r)')
    <3>1. CASE r = p
      BY <1>3, <2>1, <2>2, <2>3, <3>1 DEF Ctx
    <3>2. CASE r # p
      BY <1>1, <1>2, <1>3, <2>1, <2>2, <2>4, <3>2 DEF Bounded
    <3> QED BY <3>1, <3>2
  <2> QED BY <1>1, <1>2, <1>4, <2>1, <2>2, <2>3, <2>4 DEF Bounded
<1>7. CASE PutStore(p)
  <2>1. /\ UNCHANGED <<chan, reg, todo>> /\ StoreLen(reg[p] + 1)
        /\ pc[p] = "store" /\ pc'[p] = "send" /\ p \in Ahead'
    BY <1>1, <1>7, OthersStay DEF PutStore, Ahead
  <2>2. panic' # "unwrap" /\ (panic' = "no" => len' = reg[p] + 1)
    BY <1>1, <2>1, StoreLenChecked
  <2>3. reg[p] + 1 <= Len(chan) + (Cardinality(Below(p)) + 1)
    BY <1>1, <1>4, <2>1 DEF Bounded
  <2> QED BY <1>1, <1>2, <1>3, <1>4, <2>1, <2>2, <2>3 DEF Bounded
<1>8. CASE PutSent(p)
  <2>1. /\ UNCHANGED <<len, reg, todo>> /\ panic' # "unwrap"
        /\ pc'[p] = "idle" /\ p \in Ahead /\ p \notin Ahead'
    BY <1>1, <1>8, OthersStay DEF PutSent, Ahead
  <2>2. panic' = "no" => Len(chan') = Len(chan) + 1
    <3>1. arg[p] \in Event /\ chan \in Seq(Event)
      BY <1>1, <1>8 DEF PutSent, TypeOK
    <3> QED BY <1>8, <3>1, AppendFacts DEF PutSent
  <2>3. ASSUME panic' = "no" PROVE len' <= Len(chan') + Cardinality(Ahead')
    BY <1>1, <1>4, <2>1, <2>2, <2>3 DEF Bounded
  <2>4. ASSUME panic' = "no", NEW r \in Ctx, pc'[r] = "store"
        PROVE  reg'[r] <= Len(chan') + Cardinality(Below(r)')
    BY <1>1, <1>2, <1>3, <2>1, <2>2, <2>4 DEF Bounded
  <2> QED BY <1>1, <1>2, <2>1, <2>2, <2>3, <2>4 DEF Bounded
<1> QED BY <1>5, <1>6, <1>7, <1>8 DEF PutStep

\* The steps of a get and of a remove.
LEMMA BThread ==
  ASSUME OverflowChecks, BInv, TypeOK', panic = "no",
         GetPoll \/ GetStep \/ RemoveLoop \/ \E e \in Event : RemoveCall(e)
  PROVE  panic' # "unwrap" /\ (panic' = "no" => Bounded')
<1> USE DEF At, Panic
<1>1. /\ TypeOK /\ Bounded /\ Running(Thread) /\ Thread \in Ctx
      /\ len \in Nat /\ Len(chan) \in Nat /\ reg[Thread] \in Nat /\ todo \in Nat
      /\ \A q \in Ctx : q # Thread => pc[q] = "idle"
  <2>1. Running(Thread) /\ Thread \in Ctx
    BY ConstantsAssumption
       DEF GetPoll, GetStep, GetReceive, GetClear, GetLoad, GetStore, RemoveLoop, RemoveStep,
           RemoveReturn, RemoveCall, MayBegin, Thread, Ctx
  <2> QED BY <2>1, LenProperties, ConstantsAssumption DEF BInv, TypeOK, Running, Thread, Ctx
<1>2. \A q \in Ctx \ {Thread} : pc'[q] = pc[q]
  BY <1>1, OthersStay
     DEF GetPoll, GetStep, GetReceive, GetClear, GetLoad, GetStore, RemoveLoop, RemoveStep,
         RemoveReturn, RemoveCall
<1>3. /\ Thread \notin Ahead => Cardinality(Ahead) = 0
      /\ Thread \in Ahead => Cardinality(Ahead) = 1
      /\ Thread \notin Ahead' => Cardinality(Ahead') = 0
      /\ Thread \in Ahead' => Cardinality(Ahead') = 1
  <2>1. Below(Thread) = {}
    BY ConstantsAssumption DEF Below, Ahead, Thread, Ctx
  <2>2. Cardinality(Below(Thread)) = 0
    BY <2>1, FS_EmptySet
  <2> HIDE DEF Thread
  <2> QED BY <1>1, <1>2, <2>2, AheadCount
<1>4. ASSUME pc'[Thread] # "store",
             len' <= Len(chan') + (IF Thread \in Ahead' THEN 1 ELSE 0),
             pc'[Thread] = "get_store" => reg'[Thread] <= Len(chan') + 1,
             pc'[Thread] = "remove" => todo' <= Len(chan')
      PROVE  Bounded'
  <2>1. \A q \in Ctx : pc'[q] # "store"
    BY <1>1, <1>2, <1>4
  <2> QED BY <1>3, <1>4, <2>1 DEF Bounded
<1>5. CASE GetPoll \/ GetClear \/ RemoveReturn
  <2>1. /\ UNCHANGED <<chan, len, panic>> /\ pc'[Thread] \in {"receive", "get_load", "idle"}
        /\ (Thread \in Ahead' <=> Thread \in Ahead)
    BY <1>1, <1>5, OthersStay DEF GetPoll, MayBegin, GetClear, RemoveReturn, Ahead
  <2> QED BY <1>1, <1>3, <1>4, <2>1 DEF Bounded
<1>6. CASE GetReceive
  <2>1. CASE chan = <<>>
    <3>1. /\ UNCHANGED <<chan, len, panic>> /\ pc'[Thread] = "idle"
          /\ Thread \notin Ahead /\ Thread \notin Ahead'
      BY <1>1, <1>6, <2>1, OthersStay DEF GetReceive, Ahead
    <3> QED BY <1>1, <1>3, <1>4, <3>1 DEF Bounded
  <2>2. CASE chan # <<>>
    <3>1. /\ chan' = Tail(chan) /\ UNCHANGED <<len, panic>> /\ pc'[Thread] = "clear"
          /\ Thread \notin Ahead /\ Thread \in Ahead'
      BY <1>1, <1>6, <2>2, OthersStay DEF GetReceive, Ahead
    <3>2. Len(Tail(chan)) = Len(chan) - 1
      BY <1>1, <2>2, HeadTailProperties DEF TypeOK
    <3> QED BY <1>1, <1>3, <1>4, <3>1, <3>2 DEF Bounded
  <2> QED BY <2>1, <2>2
<1>7. CASE GetLoad
  <2>1. /\ UNCHANGED <<chan, len, panic>> /\ pc'[Thread] = "get_store" /\ reg'[Thread] = len
        /\ Thread \in Ahead /\ Thread \in Ahead'
    BY <1>1, <1>7, OthersStay DEF GetLoad, Ahead, TypeOK
  <2> QED BY <1>1, <1>3, <1>4, <2>1 DEF Bounded
<1>8. CASE GetStore
  <2>1. /\ chan' = chan /\ pc[Thread] = "get_store" /\ pc'[Thread] = "idle"
        /\ Thread \notin Ahead' /\ StoreLen(reg[Thread] - 1)
    BY <1>1, <1>8, OthersStay DEF GetStore, Ahead
  <2>2. panic' # "unwrap" /\ (panic' = "no" => len' = reg[Thread] - 1)
    BY <1>1, <2>1, StoreLenChecked
  <2> QED BY <1>1, <1>4, <2>1, <2>2 DEF Bounded
<1>9. CASE \E e \in Event : RemoveCall(e)
  <2>1. /\ UNCHANGED <<chan, len, panic>> /\ todo' = len /\ pc'[Thread] = "remove"
        /\ Thread \notin Ahead /\ Thread \notin Ahead'
    BY <1>1, <1>9, OthersStay DEF RemoveCall, MayBegin, Ahead
  <2> QED BY <1>1, <1>3, <1>4, <2>1 DEF Bounded
<1>10. CASE RemoveStep
  <2>1. /\ pc[Thread] = "remove" /\ pc' = pc /\ todo > 0 /\ todo' = todo - 1
        /\ Thread \notin Ahead /\ Thread \notin Ahead'
    BY <1>1, <1>10 DEF RemoveStep, Ahead
  <2>2. todo <= Len(chan) /\ len <= Len(chan)
    BY <1>1, <1>3, <2>1 DEF Bounded
  <2>3. chan \in Seq(Event) /\ chan # <<>>
    BY <1>1, <2>1, <2>2, EmptySeq DEF TypeOK
  <2>4. /\ Head(chan) \in Event /\ Tail(chan) \in Seq(Event)
        /\ Len(Tail(chan)) = Len(chan) - 1
        /\ Len(Append(Tail(chan), Head(chan))) = Len(chan)
    BY <1>1, <2>3, HeadTailProperties, AppendFacts
  <2>5. CASE Head(chan) = arg[Thread]
    <3>1. StoreLen(len - 1) /\ chan' = Tail(chan)
      BY <1>10, <2>3, <2>5 DEF RemoveStep
    <3>2. panic' # "unwrap" /\ (panic' = "no" => len' = len - 1)
      BY <1>1, <3>1, StoreLenChecked
    <3> QED BY <1>1, <1>4, <2>1, <2>2, <2>4, <3>1, <3>2
  <2>6. CASE Head(chan) # arg[Thread]
    <3>1. chan' = Append(Tail(chan), Head(chan)) /\ UNCHANGED <<len, panic>>
      BY <1>10, <2>3, <2>6 DEF RemoveStep
    <3> QED BY <1>1, <1>4, <2>1, <2>2, <2>4, <3>1
  <2> QED BY <2>5, <2>6
<1> QED BY <1>5, <1>6, <1>7, <1>8, <1>9, <1>10 DEF GetStep, RemoveLoop

LEMMA BNext ==
  ASSUME OverflowChecks
  PROVE  BInv /\ [Next]_vars => BInv'
<1> SUFFICES ASSUME BInv, [Next]_vars PROVE BInv'
  OBVIOUS
<1>1. TypeOK'
  BY TypeNext DEF BInv
<1>2. CASE UNCHANGED vars
  BY <1>1, <1>2 DEF BInv, Bounded, Ahead, Below, vars
<1>3. CASE Next
  BY <1>1, <1>3, OverflowChecks, BPut, BThread DEF Next, BInv
<1> QED BY <1>2, <1>3

\* In a build that checks arithmetic the counter of a queue at rest is never above its
\* entries, whatever interrupts put (embassy.rs:80-145).
NeverOvercounts == Quiescent /\ panic = "no" => len <= Len(chan)

\* So ble_npl_eventq_remove finds the entries it counts on, in a build that checks
\* arithmetic, for any interrupts and any callers: what the drift of the counter leads
\* to there is the overflow of a get, or a remove that looks at a part of the queue
\* (embassy.rs:103, 128-129).
THEOREM RemoveSafeChecked ==
  ASSUME OverflowChecks
  PROVE  Spec => [](RemoveFindsEntries /\ NeverOvercounts)
<1>1. BInv => RemoveFindsEntries /\ NeverOvercounts
  <2> SUFFICES ASSUME BInv, Quiescent, panic = "no" PROVE len <= Len(chan)
    BY DEF BInv, RemoveFindsEntries, NeverOvercounts
  <2>1. Ahead = {} /\ Len(chan) \in Nat
    BY LenProperties DEF Quiescent, Ahead, BInv, TypeOK
  <2> QED BY <2>1, FS_EmptySet DEF BInv, Bounded
<1> QED BY <1>1, OverflowChecks, BInit, BNext, PTL DEF Spec
--------------------------------------------------------------------------------
(***************************************************************************)
(* The queue is a FIFO queue for its callers, who need no discipline for   *)
(* it: with removes, as long as no interrupt uses the queue, and with any  *)
(* interrupts, as long as nobody removes.                                  *)
(***************************************************************************)
RemovesAlone == Isr = 0 \/ ~Removes

NoRemove == pc[Thread] # "remove"

\* No thread gets into a remove.
LEMMA NeverRemovesNext ==
  ASSUME ~Removes, TypeOK, TypeOK', pc[Thread] # "remove", [Next]_vars
  PROVE  pc'[Thread] # "remove"
<1> Thread \in Ctx
  BY ConstantsAssumption DEF Thread, Ctx
<1>1. /\ \A e \in Event : ~RemoveCall(e)
      /\ ~RemoveStep /\ ~RemoveReturn
  BY DEF RemoveCall, RemoveStep, RemoveReturn, At
<1>2. ASSUME NEW p \in Ctx, NEW e \in Event, PutCall(p, e)
      PROVE  pc'[Thread] # "remove"
  BY <1>2 DEF PutCall, Goto, TypeOK
<1>3. ASSUME NEW p \in Ctx, PutStep(p)
      PROVE  pc'[Thread] # "remove"
  BY <1>3 DEF PutStep, PutMark, PutLoad, PutStore, PutSend, PutSent, Goto, TypeOK
<1>4. ASSUME GetPoll \/ GetStep
      PROVE  pc'[Thread] # "remove"
  BY <1>4 DEF GetPoll, GetStep, GetReceive, GetClear, GetLoad, GetStore, Goto, TypeOK
<1>5. ASSUME UNCHANGED vars
      PROVE  pc'[Thread] # "remove"
  BY <1>5 DEF vars
<1> QED BY <1>1, <1>2, <1>3, <1>4, <1>5 DEF Next, RemoveLoop

\* A remove that goes on finds what it counts on; one that begins counts on all.
SafeToRemove ==
  panic = "no" =>
    /\ pc[Thread] = "remove" => Isr = 0 /\ todo <= Len(chan)
    /\ MayBegin(Thread) => len = Len(chan) \/ ~Removes

LEMMA RemoveSafety ==
  ASSUME RemovesAlone
  PROVE  Spec => []SafeToRemove
<1>1. CASE Isr = 0
  <2>1. LInv => SafeToRemove
    BY <1>1 DEF LInv, CountAt, SafeToRemove, MayBegin
  <2> QED BY <1>1, <2>1, LInit, LNext, PTL DEF Spec
<1>2. CASE ~Removes
  <2>1. Init => NoRemove
    BY ConstantsAssumption DEF Init, Thread, Ctx, NoRemove
  <2>2. TypeOK /\ TypeOK' /\ NoRemove /\ [Next]_vars => NoRemove'
    BY <1>2, NeverRemovesNext DEF NoRemove
  <2>3. NoRemove => SafeToRemove
    BY <1>2 DEF SafeToRemove, NoRemove
  <2> QED BY <2>1, <2>2, <2>3, TypeCorrect, PTL DEF Spec
<1> QED BY <1>1, <1>2 DEF RemovesAlone

\* Outside of a remove its callers see the channel itself, in a remove what the
\* channel will be at its end.
LEMMA AbstractIs ==
  /\ pc[Thread] # "remove" => Abstract = chan
  /\ pc[Thread] = "remove" => Abstract = Rotated(chan, todo, arg[Thread])
BY Zenon DEF Abstract, Rotated

\* Steps outside of a remove are the FIFO queue's or leave its contents alone.
LEMMA PlainStep ==
  ASSUME TypeOK, [Next]_vars, ~RemoveLoop, \A e \in Event : ~RemoveCall(e)
  PROVE  chan' = chan \/ (\E e \in Event : Len(chan) < Cap /\ chan' = Append(chan, e))
                      \/ (chan # <<>> /\ chan' = Tail(chan))
<1>1. ASSUME NEW p \in Ctx, PutSent(p)
      PROVE  chan' = chan \/ \E e \in Event : Len(chan) < Cap /\ chan' = Append(chan, e)
  <2>1. arg[p] \in Event
    BY <1>1 DEF PutSent, At, TypeOK
  <2> QED BY <1>1, <2>1 DEF PutSent
<1>2. ASSUME GetReceive
      PROVE  chan' = chan \/ (chan # <<>> /\ chan' = Tail(chan))
  BY <1>2 DEF GetReceive
<1>3. ASSUME NEW p \in Ctx, NEW e \in Event, PutCall(p, e)
      PROVE  chan' = chan
  BY <1>3 DEF PutCall
<1>4. ASSUME NEW p \in Ctx, PutMark(p) \/ PutLoad(p) \/ PutStore(p) \/ PutSend(p)
      PROVE  chan' = chan
  BY <1>4 DEF PutMark, PutLoad, PutStore, PutSend
<1>5. ASSUME GetPoll \/ GetClear \/ GetLoad \/ GetStore \/ UNCHANGED vars
      PROVE  chan' = chan
  BY <1>5 DEF GetPoll, GetClear, GetLoad, GetStore, vars
<1> QED BY <1>1, <1>2, <1>3, <1>4, <1>5 DEF Next, PutStep, GetStep

\* They are not taken while the thread removes and nothing else uses the queue, and
\* do not begin a remove.
LEMMA PlainPlace ==
  ASSUME TypeOK, TypeOK', [Next]_vars, ~RemoveLoop, \A e \in Event : ~RemoveCall(e),
         pc[Thread] = "remove" => Isr = 0
  PROVE  \/ pc[Thread] # "remove" /\ pc'[Thread] # "remove"
         \/ UNCHANGED vars
<1> Thread \in Ctx
  BY ConstantsAssumption DEF Thread, Ctx
<1>1. ASSUME NEW p \in Ctx, pc[Thread] = "remove" PROVE p = Thread
  BY <1>1 DEF Ctx, Thread
<1>2. ASSUME NEW p \in Ctx, NEW e \in Event, PutCall(p, e)
      PROVE  pc[Thread] # "remove" /\ pc'[Thread] # "remove"
  BY <1>1, <1>2 DEF PutCall, MayBegin, Goto, TypeOK
<1>3. ASSUME NEW p \in Ctx, PutStep(p)
      PROVE  pc[Thread] # "remove" /\ pc'[Thread] # "remove"
  BY <1>1, <1>3 DEF PutStep, PutMark, PutLoad, PutStore, PutSend, PutSent, At, Goto, TypeOK
<1>4. ASSUME GetPoll \/ GetStep
      PROVE  pc[Thread] # "remove" /\ pc'[Thread] # "remove"
  BY <1>4 DEF GetPoll, MayBegin, GetStep, GetReceive, GetClear, GetLoad, GetStore, At, Goto, TypeOK
<1> QED BY <1>2, <1>3, <1>4 DEF Next

\* The callers' queue loses all entries of the event when a remove begins, and stays
\* the same until it ends.
LEMMA RemoveIsAtomic ==
  ASSUME TypeOK, SafeToRemove, panic = "no",
         RemoveLoop \/ \E e \in Event : RemoveCall(e)
  PROVE  Abstract' = Abstract \/ \E e \in Event : Abstract' = Without(Abstract, e)
<1> Thread \in Ctx
  BY ConstantsAssumption DEF Thread, Ctx
<1>1. chan \in Seq(Event) /\ Len(chan) \in Nat /\ todo \in Nat
  BY LenProperties, ConstantsAssumption DEF TypeOK
<1>2. ASSUME NEW e \in Event, RemoveCall(e)
      PROVE  Abstract' = Without(Abstract, e)
  <2>1. Abstract = chan
    BY <1>2, AbstractIs DEF RemoveCall, MayBegin
  <2>2. /\ pc'[Thread] = "remove" /\ arg'[Thread] = e /\ chan' = chan
        /\ todo' = Len(chan)
    BY <1>2 DEF RemoveCall, Goto, SafeToRemove, TypeOK
  <2>3. Abstract' = Rotated(chan, Len(chan), e)
    BY <2>2 DEF Abstract, Rotated
  <2> QED BY <1>1, <2>1, <2>3, RotatedEnds
<1>3. ASSUME RemoveStep PROVE Abstract' = Abstract
  <2>1. /\ pc[Thread] = "remove" /\ pc' = pc /\ arg' = arg
        /\ todo' = todo - 1 /\ todo \in 1..Len(chan)
    BY <1>1, <1>3 DEF RemoveStep, At, SafeToRemove
  <2>2. chan # <<>>
    BY <1>1, <2>1, EmptySeq
  <2>3. Abstract = Rotated(chan, todo, arg[Thread])
    BY <2>1, AbstractIs
  <2>4. Abstract' = Rotated(chan', todo - 1, arg[Thread])
    BY <2>1 DEF Abstract, Rotated
  <2>5. \/ Head(chan) = arg[Thread] /\ chan' = Tail(chan)
        \/ Head(chan) # arg[Thread] /\ chan' = Append(Tail(chan), Head(chan))
    BY <1>3, <2>2 DEF RemoveStep
  <2> QED BY <1>1, <2>1, <2>3, <2>4, <2>5, RotatedStep
<1>4. ASSUME RemoveReturn PROVE Abstract' = Abstract
  <2>1. pc[Thread] = "remove" /\ todo = 0 /\ chan' = chan /\ pc'[Thread] = "idle"
    BY <1>4 DEF RemoveReturn, At, Goto, TypeOK
  <2>2. Abstract = chan
    BY <1>1, <2>1, AbstractIs, RotatedEnds
  <2>3. Abstract' = chan
    BY <2>1 DEF Abstract
  <2> QED BY <2>2, <2>3
<1> QED BY <1>2, <1>3, <1>4 DEF RemoveLoop

\* The queue is a FIFO queue from which an event is removed in one step, with any
\* callers, however often they put an event.  Only a remove of a queue that an
\* interrupt uses is left out: there the counter drifts, and some entries are not
\* looked at (embassy.rs:80-145).
THEOREM FifoForCallers ==
  ASSUME RemovesAlone
  PROVE  Spec => ImplementsFifo
<1>1. Init => Fifo!Init
  <2> SUFFICES ASSUME Init PROVE Fifo!Init
    OBVIOUS
  <2>1. pc[Thread] # "remove" /\ chan = <<>>
    BY ConstantsAssumption DEF Init, Thread, Ctx
  <2> QED BY <2>1, AbstractIs DEF Fifo!Init
<1>2. TypeOK /\ TypeOK' /\ SafeToRemove /\ [Next]_vars => [Fifo!Next]_Abstract
  <2> SUFFICES ASSUME TypeOK, TypeOK', SafeToRemove, [Next]_vars
               PROVE  [Fifo!Next]_Abstract
    OBVIOUS
  <2>1. CASE UNCHANGED vars
    BY <2>1 DEF vars, Abstract
  <2>2. CASE Next /\ (RemoveLoop \/ \E e \in Event : RemoveCall(e))
    <3>1. panic = "no"
      BY <2>2 DEF Next
    <3>2. CASE Abstract' = Abstract
      BY <3>2
    <3>3. CASE \E e \in Event : Abstract' = Without(Abstract, e)
      <4>1. \E e \in Event : Fifo!Remove(e)
        BY <3>3 DEF Fifo!Remove, Fifo!Without, Without
      <4> QED BY <4>1, Zenon DEF Fifo!Next
    <3> QED BY <2>2, <3>1, <3>2, <3>3, RemoveIsAtomic
  <2>3. CASE Next /\ ~UNCHANGED vars /\ ~RemoveLoop /\ \A e \in Event : ~RemoveCall(e)
    <3>1. pc[Thread] # "remove" /\ pc'[Thread] # "remove"
      <4>1. pc[Thread] = "remove" => Isr = 0
        BY <2>3 DEF Next, SafeToRemove
      <4> QED BY <2>3, <4>1, PlainPlace
    <3>2. Abstract = chan
      BY <3>1, AbstractIs
    <3>3. Abstract' = chan'
      BY <3>1 DEF Abstract
    <3>4. CASE chan' = chan
      BY <3>2, <3>3, <3>4
    <3>5. CASE \E e \in Event : Len(chan) < Cap /\ chan' = Append(chan, e)
      <4>1. \E e \in Event : Fifo!Put(e)
        BY <3>2, <3>3, <3>5 DEF Fifo!Put
      <4> QED BY <4>1, Zenon DEF Fifo!Next
    <3>6. CASE chan # <<>> /\ chan' = Tail(chan)
      <4>1. Fifo!Get
        BY <3>2, <3>3, <3>6 DEF Fifo!Get
      <4> QED BY <4>1, Zenon DEF Fifo!Next
    <3> QED BY <2>3, <3>4, <3>5, <3>6, PlainStep
  <2> QED BY <2>1, <2>2, <2>3
<1> QED BY <1>1, <1>2, RemovesAlone, RemoveSafety, TypeCorrect, PTL
        DEF Spec, ImplementsFifo, Fifo!Spec
--------------------------------------------------------------------------------
(***************************************************************************)
(* Panics.                                                                 *)
(***************************************************************************)
\* No interrupt that the channel's critical section leaves enabled puts an event.
MaskedPutters == \A e \in Event : Putters[e] \cap Unmasked \subseteq {Thread}

\* Who is inside the channel is in the middle of an operation on it, with nobody above.
BorrowerAlone ==
  borrower # Nobody =>
    /\ pc[borrower] \in {"sending", "receive"}
    /\ \A h \in Ctx : h > borrower => pc[h] = "idle"

LEMMA BorrowerInit == Init => BorrowerAlone
BY DEF Init, BorrowerAlone

\* Whoever has the processor while the channel is borrowed has borrowed it.
LEMMA BorrowerRuns ==
  ASSUME TypeOK, BorrowerAlone, NEW p \in Ctx, Running(p), borrower # Nobody,
         p = borrower \/ pc[p] # "idle" \/ p = Thread
  PROVE  p = borrower
<1>1. borrower \in Ctx /\ pc[borrower] # "idle"
  BY DEF TypeOK, BorrowerAlone
<1>2. borrower <= p
  BY <1>1 DEF Running, Ctx
<1>3. p <= borrower
  <2>1. Thread <= borrower
    BY <1>1 DEF Thread, Ctx
  <2> QED BY <1>1, <2>1 DEF BorrowerAlone, Ctx
<1> QED BY <1>1, <1>2, <1>3 DEF Ctx

\* Every step keeps the borrower alone, and none borrows twice.
LEMMA BorrowerNext ==
  ASSUME MaskedPutters, TypeOK, BorrowerAlone, [Next]_vars, panic # "reentered"
  PROVE  BorrowerAlone' /\ panic' # "reentered"
<1> USE DEF At, Panic
<1>t. Thread \in Ctx /\ Nobody \notin Ctx
  BY ConstantsAssumption DEF Thread, Ctx, Nobody
<1>1. ASSUME NEW p \in Ctx, NEW e \in Event, PutCall(p, e)
      PROVE  BorrowerAlone' /\ panic' # "reentered"
  <2>1. borrower = Nobody
    <3>1. CASE p = Thread
      BY <1>1, <3>1, BorrowerRuns DEF PutCall, MayBegin, BorrowerAlone
    <3>2. CASE p # Thread
      BY <1>1, <3>2 DEF PutCall, MayBegin, MaskedPutters
    <3> QED BY <3>1, <3>2
  <2> QED BY <1>1, <2>1 DEF PutCall, BorrowerAlone
<1>2. ASSUME NEW p \in Ctx, PutMark(p) \/ PutLoad(p) \/ PutStore(p) \/ PutSend(p)
      PROVE  BorrowerAlone' /\ panic' # "reentered"
  <2>1. borrower = Nobody
    BY <1>2, BorrowerRuns DEF PutMark, PutLoad, PutStore, PutSend, BorrowerAlone
  <2>2. CASE PutSend(p)
    <3>1. borrower' = p /\ panic' = panic /\ Running(p)
      BY <2>1, <2>2 DEF PutSend, Borrow
    <3>2. pc'[p] = "sending" /\ \A q \in Ctx \ {p} : pc'[q] = pc[q]
      BY <2>2, OthersStay DEF PutSend
    <3> QED BY <3>1, <3>2 DEF BorrowerAlone, Running, Ctx
  <2>3. CASE PutMark(p) \/ PutLoad(p) \/ PutStore(p)
    BY <2>1, <2>3 DEF PutMark, PutLoad, PutStore, StoreLen, BorrowerAlone
  <2> QED BY <1>2, <2>2, <2>3
<1>3. ASSUME NEW p \in Ctx, PutSent(p) PROVE BorrowerAlone' /\ panic' # "reentered"
  BY <1>3 DEF PutSent, BorrowerAlone
<1>4. CASE GetPoll
  <2>1. borrower' = Thread /\ panic' = panic /\ Running(Thread)
    BY <1>4 DEF GetPoll, MayBegin
  <2>2. pc'[Thread] = "receive" /\ \A q \in Ctx \ {Thread} : pc'[q] = pc[q]
    BY <1>4, <1>t, OthersStay DEF GetPoll
  <2> QED BY <1>t, <2>1, <2>2 DEF BorrowerAlone, Running, Ctx
<1>5. CASE GetReceive
  BY <1>5 DEF GetReceive, BorrowerAlone
<1>6. CASE GetClear \/ GetLoad \/ GetStore \/ RemoveLoop \/ \E e \in Event : RemoveCall(e)
  <2>1. /\ Running(Thread) /\ pc[Thread] \notin {"sending", "receive"}
        /\ borrower' = borrower /\ panic' \in {panic, "overflow", "unwrap"}
    BY <1>6 DEF GetClear, GetLoad, GetStore, StoreLen, RemoveLoop, RemoveStep, RemoveReturn,
                RemoveCall, MayBegin
  <2>2. borrower = Nobody
    BY <1>t, <2>1, BorrowerRuns DEF BorrowerAlone
  <2> QED BY <2>1, <2>2 DEF BorrowerAlone
<1>7. CASE UNCHANGED vars
  BY <1>7 DEF vars, BorrowerAlone
<1> QED BY <1>1, <1>2, <1>3, <1>4, <1>5, <1>6, <1>7 DEF Next, PutStep, GetStep

NotReentered == panic # "reentered"

\* Nobody enters the channel twice: it takes an interrupt that the channel's critical
\* section leaves enabled, and that puts an event, to get this panic, for any callers
\* (embassy.rs:89-98, 115; nrf5x.rs:115-117).
THEOREM OnlyUnmaskedReenter ==
  ASSUME MaskedPutters
  PROVE  Spec => []NotReentered
<1>1. Init => BorrowerAlone /\ NotReentered
  BY BorrowerInit DEF Init, NotReentered
<1>2. TypeOK /\ BorrowerAlone /\ NotReentered /\ [Next]_vars => (BorrowerAlone /\ NotReentered)'
  BY MaskedPutters, BorrowerNext DEF NotReentered
<1> QED BY <1>1, <1>2, TypeCorrect, PTL DEF Spec
================================================================================
