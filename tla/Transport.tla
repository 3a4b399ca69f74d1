------------------------------- MODULE Transport -------------------------------
(***************************************************************************)
(* ACL and ISO data: the mbuf chains that carry it between the host and    *)
(* the link layer, added to the tasks of HciController.                    *)
(*                                                                         *)
(*   write_acl_data, write_iso_data   pool --> tx, the link layer          *)
(*   ble_transport_to_hs_acl_impl     rx --> READ_CHANNEL (a copy), pool   *)
(*                                                                         *)
(* A chain belongs to whoever is to free it.  A function of the transport  *)
(* that returns 0 has taken the chain over; one that returns an error      *)
(* leaves it with its caller, as write_acl_data reads it.                  *)
(***************************************************************************)
EXTENDS HciController

CONSTANTS
  Chain,  \* the pool of mbuf chains
  MaxRx   \* bound: packets the radio receives

ASSUME TransportAssumption == None \notin Chain /\ MaxRx \in Nat

VARIABLES
  pool,      \* free chains
  tx,        \* chains the link layer has to transmit
  rx,        \* chains received, for the event that passes them to the host
  hand,      \* the chain ble_transport_to_hs_acl_impl is called with
  data,      \* the packet in its local copy, 0 before the copy
  refused,   \* chains the link layer got an error for
  holds,     \* the packet in each chain; packets are numbered from 1
  received,  \* the number of the last packet received
  inRead,    \* the ACL packet in READ_CHANNEL, 0 if there is none
  last       \* the last one read has returned

chainVars == <<pool, tx, rx, hand, data, refused, holds, received>>
transportVars == <<vars, chainVars, inRead, last>>

TransportInit ==
  /\ Init
  /\ pool = Chain /\ tx = {} /\ rx = <<>> /\ refused = {}
  /\ hand = None /\ data = 0
  /\ holds = [ch \in Chain |-> 0]
  /\ received = 0 /\ inRead = 0 /\ last = 0
--------------------------------------------------------------------------------
(***************************************************************************)
(* From the host.  Neither function awaits anything, so each is one step;  *)
(* on its error paths the chain goes back to the pool before it returns.   *)
(***************************************************************************)
\* ble_transport_to_ll_*_impl takes the chain over.
Accept(ch) ==
  /\ pool' = pool \ {ch}
  /\ tx' = tx \cup {ch}

\* Mutated: the chain is freed after the link layer has taken it over.
AcceptFrees(ch) ==
  /\ tx' = tx \cup {ch}
  /\ UNCHANGED pool

\* No chain left, a packet that cannot be serialised, or one that the link
\* layer refuses, for which write_acl_data returns Ok all the same.
WriteFails == UNCHANGED <<pool, tx>>

\* write_acl_data.  write_iso_data is the same step over the chains for ISO
\* data; it does not look whether it got one, but appending to none is an
\* error of os_mbuf_append, and freeing none does nothing.
Write ==
  /\ BetweenPolls
  /\ (\E ch \in pool : Accept(ch)) \/ WriteFails
  /\ UNCHANGED <<vars, rx, hand, data, refused, holds, received, inRead, last>>

\* The link layer has sent the packet, and frees its chain.
Transmitted(ch) ==
  /\ ch \in tx
  /\ tx' = tx \ {ch}
  /\ pool' = pool \cup {ch}
  /\ UNCHANGED <<vars, rx, hand, data, refused, holds, received, inRead, last>>
--------------------------------------------------------------------------------
(***************************************************************************)
(* From the radio.  Its interrupt comes at any moment, also between the    *)
(* steps of ble_transport_to_hs_acl_impl.                                  *)
(***************************************************************************)
Receive(e) ==
  /\ received < MaxRx
  /\ received' = received + 1
  /\ \E ch \in pool :
       /\ pool' = pool \ {ch}
       /\ rx' = Append(rx, ch)
       /\ holds' = [holds EXCEPT ![ch] = received']
  /\ IF \E i \in 1..Len(llq) : llq[i] = e THEN UNCHANGED vars ELSE RadioPut(e)
  /\ UNCHANGED <<tx, hand, data, refused, inRead, last>>

\* Mutated: the chain is freed before it has been copied.
PassFrees ==
  /\ hand = None
  /\ ll = "run" /\ cur \in RadioEvent /\ sent < MaxPackets
  /\ rx # <<>>
  /\ hand' = Head(rx)
  /\ rx' = Tail(rx)
  /\ pool' = pool \cup {Head(rx)}
  /\ UNCHANGED <<vars, tx, data, refused, holds, received, inRead, last>>

\* The event calls ble_transport_to_hs_acl_impl with the next chain.
Pass ==
  /\ hand = None
  /\ ll = "run" /\ cur \in RadioEvent /\ sent < MaxPackets
  /\ rx # <<>>
  /\ hand' = Head(rx)
  /\ rx' = Tail(rx)
  /\ UNCHANGED <<vars, pool, tx, data, refused, holds, received, inRead, last>>

\* The header and the payload are copied out of the chain.
Copy ==
  /\ hand # None /\ data = 0
  /\ data' = holds[hand]
  /\ UNCHANGED <<vars, pool, tx, rx, hand, refused, holds, received, inRead, last>>

\* They do not make a packet: NoMem, and the chain is not freed.
Malformed ==
  /\ hand # None /\ data = 0
  /\ refused' = refused \cup {hand}
  /\ hand' = None
  /\ UNCHANGED <<vars, pool, tx, rx, data, holds, received, inRead, last>>

\* Mutated: the chain is freed whether or not the copy was sent.
DeliverFrees ==
  /\ data # 0
  /\ Notify(Other)
  /\ pool' = pool \cup {hand}
  /\ refused' = IF read = <<>> THEN refused ELSE refused \cup {hand}
  /\ inRead' = IF read = <<>> THEN data ELSE inRead
  /\ hand' = None /\ data' = 0
  /\ UNCHANGED <<tx, rx, holds, received, last>>

\* The copy goes to READ_CHANNEL and the chain is freed; or the channel is
\* full: NoMem, and the chain is not freed.
Deliver ==
  /\ data # 0
  /\ Notify(Other)
  /\ \/ /\ read = <<>>
        /\ pool' = pool \cup {hand}
        /\ inRead' = data
        /\ UNCHANGED refused
     \/ /\ read # <<>>
        /\ refused' = refused \cup {hand}
        /\ UNCHANGED <<pool, inRead>>
  /\ hand' = None /\ data' = 0
  /\ UNCHANGED <<tx, rx, holds, received, last>>

\* The link layer may free a chain it got an error for.
Reclaim(ch) ==
  /\ ch \in refused
  /\ refused' = refused \ {ch}
  /\ pool' = pool \cup {ch}
  /\ UNCHANGED <<vars, tx, rx, hand, data, holds, received, inRead, last>>
--------------------------------------------------------------------------------
\* Any other step of the tasks; read empties READ_CHANNEL.
HciStep ==
  /\ hand = None
  /\ Next
  /\ inRead' = IF read' = <<>> THEN 0 ELSE inRead
  /\ last' = IF read' = <<>> /\ inRead # 0 THEN inRead ELSE last
  /\ UNCHANGED chainVars

\* The radio interrupt, while a chain is being passed on.
Preempt ==
  /\ hand # None
  /\ \E e \in RadioEvent : RadioPut(e)
  /\ UNCHANGED <<chainVars, inRead, last>>

TransportNext ==
  \/ HciStep \/ Preempt
  \/ Write
  \/ Pass \/ Copy \/ Malformed \/ Deliver
  \/ \E e \in RadioEvent : Receive(e)
  \/ \E ch \in Chain : Transmitted(ch) \/ Reclaim(ch)

TransportSpec == TransportInit /\ [][TransportNext]_transportVars
--------------------------------------------------------------------------------
Queued == {rx[i] : i \in 1..Len(rx)}
InHand == {hand} \ {None}

\* Every chain is in exactly one place: free, received, being passed on, with
\* the link layer for transmission, or with it after an error.  So no path of
\* the transport frees a chain that somebody else still has or will free, and
\* none loses one (controller.rs:58-92, 274-308, 317-345).
OneHolder ==
  LET place == <<pool, tx, Queued, InHand, refused>>
  IN  /\ \A ch \in Chain : \E i \in 1..5 : ch \in place[i]
      /\ \A i, j \in 1..5 : i # j => place[i] \cap place[j] = {}
      /\ \A i, j \in 1..Len(rx) : rx[i] = rx[j] => i = j

\* The packets on their way to the host, oldest first.
Pipeline ==
  <<last>>
    \o (IF inRead = 0 THEN <<>> ELSE <<inRead>>)
    \o (IF hand = None THEN <<>> ELSE <<IF data = 0 THEN holds[hand] ELSE data>>)
    \o [i \in 1..Len(rx) |-> holds[rx[i]]]

\* Whatever is lost, refused or dropped, the host reads the packets the radio
\* received in the order it received them, none twice and none overwritten by
\* a later packet that reuses its chain (controller.rs:58-92).
AclInOrder ==
  \A i, j \in 1..Len(Pipeline) : i < j => Pipeline[i] < Pipeline[j]
================================================================================
