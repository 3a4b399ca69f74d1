---------------------------- MODULE TransportProofs ----------------------------
(***************************************************************************)
(* Theorems about Transport, for any number of chains, packets, calls and  *)
(* radio events.                                                           *)
(***************************************************************************)
EXTENDS Transport, HciControllerProofs

--------------------------------------------------------------------------------
\* The chains are an addition to HciController and not a change of it: every
\* step of Transport is a step of the tasks or leaves them alone.
THEOREM ImplementsHci == TransportSpec => Spec
<1>1. TransportInit => Init
  BY DEF TransportInit
<1>2. [TransportNext]_transportVars => [Next]_vars
  <2>1. Deliver => Next
    BY DEF Deliver, Next, LLStep
  <2>2. \A e \in RadioEvent : Receive(e) => [Next]_vars
    BY DEF Receive, Next
  <2>3. Preempt => Next
    BY DEF Preempt, Next
  <2>4. HciStep => Next
    BY DEF HciStep
  <2>5. Write \/ Pass \/ Copy \/ Malformed => UNCHANGED vars
    BY DEF Write, Pass, Copy, Malformed
  <2>6. \A ch \in Chain : Transmitted(ch) \/ Reclaim(ch) => UNCHANGED vars
    BY DEF Transmitted, Reclaim
  <2>7. UNCHANGED transportVars => UNCHANGED vars
    BY DEF transportVars
  <2> QED BY <2>1, <2>2, <2>3, <2>4, <2>5, <2>6, <2>7 DEF TransportNext
<1> QED BY <1>1, <1>2, PTL DEF TransportSpec, Spec

\* So what is proved of the tasks alone holds with ACL data too: the first packet
\* of an event finds READ_CHANNEL empty (controller.rs:126-132).
THEOREM FirstPacketStillFits == TransportSpec => []FirstPacketFits
BY ImplementsHci, FirstPacketAlwaysFits, PTL

\* ACL packets go through READ_CHANNEL and the host's read like responses, and may
\* take the place of any packet of an event; exec keeps its promise all the same, if
\* no waiting call is dropped (controller.rs:57-94, 192-260).
THEOREM ExecUndisturbed ==
  ASSUME WaitersStay
  PROVE  TransportSpec => ImplementsService
BY ImplementsHci, ExecImplementsService, WaitersStay, PTL

\* And if an event sends one packet, be it ACL data or a response, no response is
\* lost to a packet of data (controller.rs:48-52, 69-94).
THEOREM DataDisplacesNothing ==
  ASSUME WaitersStay, MaxPackets = 1
  PROVE  TransportSpec => [](NothingLost /\ AnswerToCome)
BY ImplementsHci, OnePacketLosesNothing, AnswersAreToCome, WaitersStay, MaxPackets = 1, PTL
--------------------------------------------------------------------------------
(***************************************************************************)
(* Who has a chain.                                                        *)
(***************************************************************************)
Types ==
  /\ pool \subseteq Chain /\ tx \subseteq Chain /\ refused \subseteq Chain
  /\ rx \in Seq(Chain)
  /\ hand \in Chain \cup {None}
  /\ data # 0 => hand # None

\* OneHolder chain by chain: somebody has it, and nobody else.
Holders ==
  /\ \A ch \in Chain :
       /\ ch \in pool \/ ch \in tx \/ Member(rx, ch) \/ ch = hand \/ ch \in refused
       /\ ch \in pool => ch \notin tx /\ ~Member(rx, ch) /\ ch # hand /\ ch \notin refused
       /\ ch \in tx => ~Member(rx, ch) /\ ch # hand /\ ch \notin refused
       /\ Member(rx, ch) => ch # hand /\ ch \notin refused
       /\ ch = hand => ch \notin refused
  /\ Distinct(rx)

HInv == Types /\ Holders

\* The chain that is being delivered leaves the hand, for the pool or for the
\* caller.
LEMMA DeliverFacts ==
  ASSUME Deliver
  PROVE  /\ hand' = None /\ data' = 0 /\ data # 0
         /\ \/ pool' = pool \cup {hand} /\ refused' = refused /\ inRead' = data
            \/ refused' = refused \cup {hand} /\ pool' = pool /\ inRead' = inRead
         /\ UNCHANGED <<tx, rx, holds, received, last>>
BY DEF Deliver

\* A chain is received at the end of the queue, from the pool.
LEMMA ReceiveFacts ==
  ASSUME NEW e \in RadioEvent, Receive(e), Types
  PROVE  /\ received' = received + 1
         /\ \E ch \in pool :
              /\ pool' = pool \ {ch}
              /\ rx' = Append(rx, ch)
              /\ holds' = [holds EXCEPT ![ch] = received + 1]
              /\ rx' \in Seq(Chain)
              /\ \A y : Member(rx', y) <=> Member(rx, y) \/ y = ch
              /\ Distinct(rx) /\ ~Member(rx, ch) => Distinct(rx')
         /\ UNCHANGED <<tx, hand, data, refused, inRead, last>>
<1>1. PICK ch \in pool :
        /\ pool' = pool \ {ch}
        /\ rx' = Append(rx, ch)
        /\ holds' = [holds EXCEPT ![ch] = received']
  BY DEF Receive
<1>2. rx \in Seq(Chain) /\ ch \in Chain
  BY DEF Types
<1>3. received' = received + 1 /\ UNCHANGED <<tx, hand, data, refused, inRead, last>>
  BY DEF Receive
<1> QED BY <1>1, <1>2, <1>3, AppendFacts

\* All chains are in the pool at first.
LEMMA HInit == TransportInit => HInv
<1> SUFFICES ASSUME TransportInit PROVE HInv
  OBVIOUS
<1>1. rx \in Seq(Chain) /\ Distinct(rx) /\ \A y : ~Member(rx, y)
  BY DEF TransportInit, Distinct, Member
<1> QED BY <1>1, TransportAssumption DEF TransportInit, HInv, Types, Holders

\* Every step moves at most one chain, from one holder to the next.
LEMMA HNext == HInv /\ [TransportNext]_transportVars => HInv'
<1> SUFFICES ASSUME HInv, [TransportNext]_transportVars PROVE HInv'
  OBVIOUS
<1> USE TransportAssumption DEF HInv, Types, Holders
<1>1. ASSUME UNCHANGED chainVars PROVE HInv'
  <2>1. \A y : Member(rx, y)' <=> Member(rx, y)
    BY <1>1 DEF chainVars, Member
  <2> QED BY <1>1, <2>1 DEF chainVars, Distinct
<1>2. ASSUME UNCHANGED <<rx, hand, data>>,
             NEW ch \in Chain,
             \/ ch \in pool /\ pool' = pool \ {ch} /\ tx' = tx \cup {ch} /\ refused' = refused
             \/ ch \in tx /\ pool' = pool \cup {ch} /\ tx' = tx \ {ch} /\ refused' = refused
             \/ ch \in refused /\ pool' = pool \cup {ch} /\ refused' = refused \ {ch} /\ tx' = tx
      PROVE  HInv'
  <2>1. \A y : Member(rx, y)' <=> Member(rx, y)
    BY <1>2 DEF Member
  <2>2. Distinct(rx)'
    BY <1>2 DEF Distinct
  <2> QED BY <1>2, <2>1, <2>2
<1>3. CASE Write
  <2>1. CASE \E ch \in pool : Accept(ch)
    BY <1>2, <1>3, <2>1 DEF Write, Accept
  <2>2. CASE WriteFails
    BY <1>1, <1>3, <2>2 DEF Write, WriteFails, chainVars
  <2> QED BY <1>3, <2>1, <2>2 DEF Write
<1>4. ASSUME NEW ch \in Chain, Transmitted(ch) \/ Reclaim(ch) PROVE HInv'
  BY <1>2, <1>4 DEF Transmitted, Reclaim
<1>5. CASE HciStep \/ Preempt
  BY <1>1, <1>5 DEF HciStep, Preempt
<1>6. CASE Copy
  <2>1. \A y : Member(rx, y)' <=> Member(rx, y)
    BY <1>6 DEF Copy, Member
  <2> QED BY <1>6, <2>1 DEF Copy, Distinct
<1>7. CASE Pass
  <2>1. rx # <<>> /\ hand = None /\ hand' = Head(rx) /\ rx' = Tail(rx)
    BY <1>7 DEF Pass
  <2>2. /\ Head(rx) \in Chain /\ rx' \in Seq(Chain)
        /\ \A y : Member(rx, y) <=> y = Head(rx) \/ Member(rx', y)
        /\ Distinct(rx') /\ ~Member(rx', Head(rx))
    BY <2>1, TailFacts
  <2>3. UNCHANGED <<pool, tx, data, refused>>
    BY <1>7 DEF Pass
  <2> QED BY <2>1, <2>2, <2>3
<1>8. CASE Malformed
  <2>1. \A y : Member(rx, y)' <=> Member(rx, y)
    BY <1>8 DEF Malformed, Member
  <2> QED BY <1>8, <2>1 DEF Malformed, Distinct
<1>9. CASE Deliver
  <2>1. (\A y : Member(rx, y)' <=> Member(rx, y)) /\ Distinct(rx)'
    BY <1>9, DeliverFacts DEF Member, Distinct
  <2>2. hand \in Chain
    BY <1>9, DeliverFacts
  <2> QED BY <1>9, <2>1, <2>2, DeliverFacts
<1>10. ASSUME NEW e \in RadioEvent, Receive(e) PROVE HInv'
  <2>1. PICK ch \in pool :
          /\ pool' = pool \ {ch}
          /\ rx' \in Seq(Chain)
          /\ \A y : Member(rx', y) <=> Member(rx, y) \/ y = ch
          /\ Distinct(rx) /\ ~Member(rx, ch) => Distinct(rx')
    BY <1>10, ReceiveFacts
  <2>2. UNCHANGED <<tx, hand, data, refused>>
    BY <1>10, ReceiveFacts
  <2> QED BY <2>1, <2>2
<1>11. CASE UNCHANGED transportVars
  BY <1>1, <1>11 DEF transportVars
<1> QED BY <1>3, <1>4, <1>5, <1>6, <1>7, <1>8, <1>9, <1>10, <1>11 DEF TransportNext

\* No chain is ever freed by two, freed while another has it, or lost, with any
\* number of chains and whatever is lost, refused or dropped
\* (controller.rs:58-92, 274-345).
THEOREM ChainsHaveOneHolder == TransportSpec => []OneHolder
<1>1. HInv => OneHolder
  <2> SUFFICES ASSUME HInv PROVE OneHolder
    OBVIOUS
  <2> DEFINE place == <<pool, tx, Queued, InHand, refused>>
  <2>1. \A ch : (ch \in Queued <=> Member(rx, ch)) /\ (ch \in InHand <=> ch = hand /\ ch # None)
    BY DEF Queued, InHand, Member
  <2>2. \A ch \in Chain : \E i \in 1..5 : ch \in place[i]
    <3> SUFFICES ASSUME NEW ch \in Chain PROVE \E i \in 1..5 : ch \in place[i]
      OBVIOUS
    <3>1. ch \in place[1] \/ ch \in place[2] \/ ch \in place[3] \/ ch \in place[4]
          \/ ch \in place[5]
      BY <2>1, TransportAssumption DEF HInv, Holders
    <3> QED BY <3>1
  <2>3. \A i, j \in 1..5 : i # j => place[i] \cap place[j] = {}
    <3>1. \A ch : Member(rx, ch) => ch \in Chain
      BY DEF HInv, Types, Member
    <3>2. /\ pool \cap tx = {} /\ pool \cap Queued = {} /\ pool \cap InHand = {}
          /\ pool \cap refused = {} /\ tx \cap Queued = {} /\ tx \cap InHand = {}
          /\ tx \cap refused = {} /\ Queued \cap InHand = {} /\ Queued \cap refused = {}
          /\ InHand \cap refused = {}
      BY <2>1, <3>1 DEF HInv, Types, Holders
    <3> QED BY <3>2
  <2> QED BY <2>2, <2>3 DEF OneHolder, HInv, Holders, Distinct
<1> QED BY <1>1, HInit, HNext, PTL DEF TransportSpec
--------------------------------------------------------------------------------
(***************************************************************************)
(* The order of what the host reads.                                       *)
(***************************************************************************)
\* Packet n is on its way behind packet m, and everything in rx behind both.
Numbers ==
  /\ received \in Nat /\ last \in 0..received /\ inRead \in 0..received
  /\ holds \in [Chain -> 0..received]

Read0 == inRead # 0 => last < inRead

AtHand0 ==
  hand # None =>
    /\ last < holds[hand] /\ inRead < holds[hand]
    /\ data \in {0, holds[hand]}

Waiting ==
  \A i \in 1..Len(rx) :
    /\ last < holds[rx[i]] /\ inRead < holds[rx[i]]
    /\ hand # None => holds[hand] < holds[rx[i]]
    /\ \A j \in 1..Len(rx) : i < j => holds[rx[i]] < holds[rx[j]]

OInv == Numbers /\ Read0 /\ AtHand0 /\ Waiting

\* Nothing is on its way at first.
LEMMA OInit == TransportInit => OInv
BY DEF TransportInit, OInv, Numbers, Read0, AtHand0, Waiting

\* A packet enters at the end with a higher number than all others, in a chain
\* that nobody else has, and leaves at the head.
LEMMA ONext == HInv /\ OInv /\ [TransportNext]_transportVars => OInv'
<1> SUFFICES ASSUME HInv, OInv, [TransportNext]_transportVars PROVE OInv'
  OBVIOUS
<1> USE DEF HInv, OInv, Numbers, Read0, AtHand0, Waiting
<1>1. ASSUME UNCHANGED <<rx, hand, data, holds, received, inRead, last>> PROVE OInv'
  BY <1>1
<1>2. CASE HciStep
  <2>1. UNCHANGED <<rx, hand, data, holds, received>> /\ hand = None
    BY <1>2 DEF HciStep, chainVars
  <2>2. CASE inRead' = inRead /\ last' = last
    BY <1>1, <2>1, <2>2
  <2>3. CASE inRead # 0 /\ inRead' = 0 /\ last' = inRead
    <3>1. Numbers' /\ Read0'
      BY <2>1, <2>3
    <3>2. AtHand0'
      BY <2>1
    <3>3. Waiting'
      <4>1. \A i \in 1..Len(rx) : inRead < holds[rx[i]] /\ 0 < holds[rx[i]]
        BY DEF Types
      <4> QED BY <2>1, <2>3, <4>1
    <3> QED BY <3>1, <3>2, <3>3
  <2> QED BY <1>2, <2>2, <2>3 DEF HciStep
<1>3. CASE Copy
  BY <1>3 DEF Copy
<1>4. CASE Pass
  <2>1. /\ hand = None /\ hand' = Head(rx) /\ rx' = Tail(rx) /\ rx # <<>>
        /\ UNCHANGED <<data, holds, received, inRead, last>>
    BY <1>4 DEF Pass
  <2>2. /\ Head(rx) = rx[1] /\ Len(rx) \in Nat \ {0} /\ Len(Tail(rx)) = Len(rx) - 1
        /\ \A i \in 1..Len(rx) - 1 : Tail(rx)[i] = rx[i + 1]
    BY <2>1, HeadTailProperties, LenProperties, EmptySeq DEF Types
  <2>3. data = 0
    BY <2>1 DEF Types
  <2>4. AtHand0'
    BY <2>1, <2>2, <2>3
  <2>5. Waiting'
    <3> SUFFICES ASSUME NEW i \in 1..Len(rx')
                 PROVE  /\ last < holds[rx'[i]] /\ inRead < holds[rx'[i]]
                        /\ holds[hand'] < holds[rx'[i]]
                        /\ \A j \in 1..Len(rx') : i < j => holds[rx'[i]] < holds[rx'[j]]
      BY <2>1
    <3>1. i + 1 \in 1..Len(rx) /\ rx'[i] = rx[i + 1] /\ 1 < i + 1 /\ 1 \in 1..Len(rx)
      BY <2>1, <2>2
    <3>2. \A j \in 1..Len(rx') : j + 1 \in 1..Len(rx) /\ rx'[j] = rx[j + 1]
      BY <2>1, <2>2
    <3> QED BY <2>1, <2>2, <3>1, <3>2
  <2> QED BY <2>1, <2>4, <2>5
<1>5. CASE Malformed
  BY <1>5 DEF Malformed
<1>6. CASE Deliver
  <2>1. data # 0 /\ hand # None /\ data = holds[hand] /\ holds[hand] \in 0..received
    BY <1>6, DeliverFacts DEF Types
  <2>2. hand' = None /\ inRead' \in {inRead, data} /\ UNCHANGED <<rx, holds, received, last>>
    BY <1>6, DeliverFacts
  <2>3. last < holds[hand] /\ last \in Nat
    BY <2>1
  <2>4. Numbers'
    BY <2>1, <2>2
  <2>5. Read0'
    BY <2>1, <2>2, <2>3
  <2>6. AtHand0'
    BY <2>2
  <2>7. Waiting'
    <3>1. \A i \in 1..Len(rx) : last < holds[rx[i]] /\ inRead < holds[rx[i]] /\ data < holds[rx[i]]
      BY <2>1
    <3> QED BY <2>2, <3>1
  <2> QED BY <2>4, <2>5, <2>6, <2>7
<1>7. ASSUME NEW e \in RadioEvent, Receive(e) PROVE OInv'
  <2>1. PICK ch \in pool :
          /\ rx' = Append(rx, ch)
          /\ holds' = [holds EXCEPT ![ch] = received + 1]
    BY <1>7, ReceiveFacts
  <2>2. received' = received + 1 /\ UNCHANGED <<hand, data, inRead, last>>
    BY <1>7, ReceiveFacts
  <2>3. ch \in Chain /\ hand # ch /\ \A i \in 1..Len(rx) : rx[i] # ch /\ rx[i] \in Chain
    BY DEF Types, Holders, Member
  <2>4. /\ Len(rx') = Len(rx) + 1 /\ Len(rx) \in Nat
        /\ \A i \in 1..Len(rx) : rx'[i] = rx[i]
        /\ rx'[Len(rx) + 1] = ch
    BY <2>1, <2>3 DEF Types
  <2>5. holds' \in [Chain -> 0..received'] /\ holds'[ch] = received + 1
        /\ \A c \in Chain : c # ch => holds'[c] = holds[c]
    BY <2>1, <2>2, <2>3
  <2>6. AtHand0'
    BY <2>2, <2>3, <2>5 DEF Types
  <2>7. Waiting'
    <3> SUFFICES ASSUME NEW i \in 1..Len(rx')
                 PROVE  /\ last < holds'[rx'[i]] /\ inRead < holds'[rx'[i]]
                        /\ hand # None => holds'[hand] < holds'[rx'[i]]
                        /\ \A j \in 1..Len(rx') : i < j => holds'[rx'[i]] < holds'[rx'[j]]
      BY <2>2
    <3>1. \A c \in Chain : holds[c] \in Nat /\ holds[c] < received + 1
      OBVIOUS
    <3>2. CASE i \in 1..Len(rx)
      <4>1. rx'[i] = rx[i] /\ holds'[rx'[i]] = holds[rx[i]]
        BY <2>3, <2>4, <2>5, <3>2
      <4>2. ASSUME NEW j \in 1..Len(rx'), i < j PROVE holds'[rx'[i]] < holds'[rx'[j]]
        <5>1. CASE j \in 1..Len(rx)
          BY <2>3, <2>4, <2>5, <3>2, <4>1, <4>2, <5>1, SMTT(30)
        <5>2. CASE j = Len(rx) + 1
          BY <2>3, <2>4, <2>5, <3>1, <3>2, <4>1, <5>2
        <5> QED BY <2>4, <5>1, <5>2
      <4>3. hand # None => holds'[hand] = holds[hand]
        BY <2>3, <2>5 DEF Types
      <4> QED BY <3>2, <4>1, <4>2, <4>3
    <3>3. CASE i = Len(rx) + 1
      <4>1. holds'[rx'[i]] = received + 1
        BY <2>4, <2>5, <3>3
      <4>2. hand # None => holds'[hand] = holds[hand] /\ hand \in Chain
        BY <2>3, <2>5 DEF Types
      <4> QED BY <2>4, <3>1, <3>3, <4>1, <4>2
    <3> QED BY <2>4, <3>2, <3>3
  <2> QED BY <2>2, <2>5, <2>6, <2>7
<1>8. CASE Write \/ Preempt \/ UNCHANGED transportVars
  BY <1>1, <1>8 DEF Write, Preempt, transportVars, chainVars
<1>9. ASSUME NEW ch \in Chain, Transmitted(ch) \/ Reclaim(ch) PROVE OInv'
  BY <1>1, <1>9 DEF Transmitted, Reclaim
<1> QED BY <1>2, <1>3, <1>4, <1>5, <1>6, <1>7, <1>8, <1>9 DEF TransportNext

Ascending(s) == \A i, j \in 1..Len(s) : i < j => s[i] < s[j]

\* Two ascending sequences, one all below the other, ascend when joined.
LEMMA Join ==
  ASSUME NEW s \in Seq(Nat), NEW t \in Seq(Nat), Ascending(s), Ascending(t),
         \A i \in 1..Len(s), j \in 1..Len(t) : s[i] < t[j]
  PROVE  s \o t \in Seq(Nat) /\ Ascending(s \o t)
<1>1. /\ s \o t \in Seq(Nat) /\ Len(s \o t) = Len(s) + Len(t)
      /\ Len(s) \in Nat /\ Len(t) \in Nat
      /\ \A i \in 1..Len(s) + Len(t) : (s \o t)[i] = IF i <= Len(s) THEN s[i] ELSE t[i - Len(s)]
  BY ConcatProperties, LenProperties
<1>2. SUFFICES ASSUME NEW i \in 1..Len(s \o t), NEW j \in 1..Len(s \o t), i < j
               PROVE  (s \o t)[i] < (s \o t)[j]
  BY <1>1 DEF Ascending
<1>3. CASE j <= Len(s)
  BY <1>1, <1>2, <1>3 DEF Ascending
<1>4. CASE i <= Len(s) /\ Len(s) < j
  <2>1. i \in 1..Len(s) /\ j - Len(s) \in 1..Len(t)
    BY <1>1, <1>4
  <2> QED BY <1>1, <1>4, <2>1
<1>5. CASE Len(s) < i
  <2>1. i - Len(s) \in 1..Len(t) /\ j - Len(s) \in 1..Len(t) /\ i - Len(s) < j - Len(s)
    BY <1>1, <1>2, <1>5
  <2>2. /\ (s \o t)[i] = t[i - Len(s)]
        /\ (s \o t)[j] = t[j - Len(s)]
    BY <1>1, <1>2, <1>5
  <2>3. t[i - Len(s)] < t[j - Len(s)]
    BY <2>1 DEF Ascending
  <2> QED BY <2>2, <2>3
<1> QED BY <1>1, <1>3, <1>4, <1>5

\* The pipeline joins what the invariant says of its parts.
LEMMA PipelineAscends == HInv /\ OInv => AclInOrder
<1> SUFFICES ASSUME HInv, OInv PROVE AclInOrder
  OBVIOUS
<1> DEFINE
      reading == IF inRead = 0 THEN <<>> ELSE <<inRead>>
      passing == IF hand = None THEN <<>> ELSE <<IF data = 0 THEN holds[hand] ELSE data>>
      waiting == [i \in 1..Len(rx) |-> holds[rx[i]]]
<1>1. Numbers /\ Read0 /\ AtHand0 /\ Waiting /\ rx \in Seq(Chain) /\ hand \in Chain \cup {None}
  BY DEF OInv, HInv, Types
<1>2. /\ waiting \in Seq(Nat) /\ Len(waiting) = Len(rx)
      /\ \A i \in 1..Len(rx) : waiting[i] = holds[rx[i]]
  BY <1>1 DEF Numbers
<1>3. Ascending(waiting)
  BY <1>1, <1>2 DEF Waiting, Ascending
<1> HIDE DEF waiting
<1>4. /\ passing \in Seq(Nat) /\ Len(passing) \in {0, 1}
      /\ Len(passing) = 1 => hand # None /\ passing[1] = holds[hand]
  BY <1>1 DEF Numbers, AtHand0
<1>5. Ascending(passing)
  BY <1>4 DEF Ascending
<1>6. /\ reading \in Seq(Nat) /\ Len(reading) \in {0, 1}
      /\ Len(reading) = 1 => inRead # 0 /\ reading[1] = inRead
  BY <1>1 DEF Numbers
<1>7. Ascending(reading)
  BY <1>6 DEF Ascending
<1>8. <<last>> \in Seq(Nat) /\ Len(<<last>>) = 1 /\ <<last>>[1] = last /\ Ascending(<<last>>)
  BY <1>1 DEF Numbers, Ascending
<1> HIDE DEF passing, reading
<1> DEFINE low == <<last>> \o reading
           mid == low \o passing
<1>9. /\ low \in Seq(Nat) /\ Ascending(low)
      /\ \A i \in 1..Len(low) : low[i] \in {last, inRead}
  <2>1. low \in Seq(Nat) /\ Ascending(low)
    <3>1. \A i \in 1..Len(<<last>>), j \in 1..Len(reading) : <<last>>[i] < reading[j]
      BY <1>1, <1>6, <1>8 DEF Read0
    <3> QED BY <1>6, <1>7, <1>8, <3>1, Join
  <2>2. /\ Len(low) = Len(<<last>>) + Len(reading)
        /\ \A i \in 1..Len(<<last>>) + Len(reading) :
             low[i] = IF i <= Len(<<last>>) THEN <<last>>[i] ELSE reading[i - Len(<<last>>)]
    BY <1>6, <1>8, ConcatProperties
  <2> QED BY <1>6, <1>8, <2>1, <2>2
<1> HIDE DEF low
<1>10. /\ mid \in Seq(Nat) /\ Ascending(mid)
       /\ \A i \in 1..Len(mid) :
            mid[i] \in {last, inRead} \/ (hand # None /\ mid[i] = holds[hand])
  <2>1. mid \in Seq(Nat) /\ Ascending(mid)
    <3>1. \A i \in 1..Len(low), j \in 1..Len(passing) : low[i] < passing[j]
      BY <1>1, <1>4, <1>9 DEF AtHand0
    <3> QED BY <1>4, <1>5, <1>9, <3>1, Join
  <2>2. /\ Len(mid) = Len(low) + Len(passing)
        /\ \A i \in 1..Len(low) + Len(passing) :
             mid[i] = IF i <= Len(low) THEN low[i] ELSE passing[i - Len(low)]
    BY <1>4, <1>9, ConcatProperties
  <2>3. Len(low) \in Nat
    BY <1>9, LenProperties
  <2>4. ASSUME NEW i \in 1..Len(mid)
        PROVE  mid[i] \in {last, inRead} \/ (hand # None /\ mid[i] = holds[hand])
    <3>1. CASE i <= Len(low)
      BY <1>9, <2>2, <2>3, <2>4, <3>1, <1>4
    <3>2. CASE Len(low) < i
      <4>1. Len(passing) = 1 /\ i - Len(low) = 1
        BY <1>4, <2>2, <2>3, <2>4, <3>2, SMTT(30)
      <4>2. mid[i] = passing[1]
        BY <2>2, <2>3, <2>4, <3>2, <4>1, <1>4
      <4> QED BY <1>4, <4>1, <4>2
    <3> QED BY <2>3, <3>1, <3>2
  <2> QED BY <2>1, <2>4
<1> HIDE DEF mid
<1>11. \A i \in 1..Len(mid), j \in 1..Len(waiting) : mid[i] < waiting[j]
  BY <1>1, <1>2, <1>10 DEF Waiting
<1>12. Ascending(mid \o waiting)
  BY <1>2, <1>3, <1>10, <1>11, Join
<1>13. Pipeline = mid \o waiting
  BY DEF Pipeline, mid, low, reading, passing, waiting
<1> QED BY <1>12, <1>13 DEF Ascending, AclInOrder

\* The host reads the packets of the radio in order, none twice and none
\* overwritten, for any number of chains and packets, and whatever is lost,
\* refused or dropped (controller.rs:58-92).
THEOREM AclOrdered == TransportSpec => []AclInOrder
<1>1. HInv /\ OInv /\ [TransportNext]_transportVars => (HInv /\ OInv)'
  BY HNext, ONext
<1> QED BY <1>1, HInit, OInit, PipelineAscends, PTL DEF TransportSpec
================================================================================
