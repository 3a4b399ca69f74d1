----------------------------- MODULE CalloutProofs -----------------------------
(***************************************************************************)
(* Theorems about Callout, for any callouts, delays, queue capacity, width *)
(* of the clock and bound on it.                                           *)
(***************************************************************************)
EXTENDS Callout, SequenceFacts

--------------------------------------------------------------------------------
(***************************************************************************)
(* Time.                                                                   *)
(***************************************************************************)
\* What is left of a time in ble_npl_time_t.
LEMMA LowFacts ==
  ASSUME NEW t \in Nat
  PROVE  /\ Low(t) \in 0..(Mod - 1)
         /\ Low(t) <= t
         /\ t < Mod => Low(t) = t
         /\ t >= Mod => Low(t) <= t - Mod
<1>1. Mod \in Nat \ {0}
  BY TimeAssumption
<1>2. Low(t) \in 0..(Mod - 1)
  BY <1>1 DEF Low
<1>3. Low(t) <= t
  BY <1>1 DEF Low
<1>4. t < Mod => Low(t) = t
  BY <1>1 DEF Low
<1>5. t >= Mod => Low(t) <= t - Mod
  BY <1>1 DEF Low
<1> QED BY <1>2, <1>3, <1>4, <1>5

\* The expiry that reset computes is never later than what was asked for, is
\* that exactly while it fits, and is past at once when it does not.
LEMMA ExpiryFacts ==
  ASSUME NEW time \in Nat, NEW t \in 0..(Mod - 1)
  PROVE  /\ Low(Low(time) + t) \in 0..(Mod - 1)
         /\ Low(Low(time) + t) <= time + t
         /\ time + t < Mod => Low(Low(time) + t) = time + t
         /\ time + t >= Mod => Low(Low(time) + t) <= time
<1>1. Mod \in Nat \ {0}
  BY TimeAssumption
<1>2. Low(time) \in Nat /\ Low(time) + t \in Nat
  BY <1>1, LowFacts
<1>3. Low(Low(time) + t) \in 0..(Mod - 1) /\ Low(Low(time) + t) <= Low(time) + t
  BY <1>1, <1>2, LowFacts
<1>4. Low(Low(time) + t) <= time + t
  BY <1>1, <1>2, <1>3, LowFacts
<1>5. time + t < Mod => Low(Low(time) + t) = time + t
  BY <1>1, <1>2, LowFacts
<1>6. ASSUME time + t >= Mod PROVE Low(Low(time) + t) <= time
  <2>1. CASE time < Mod
    <3>1. Low(time) = time
      BY <2>1, LowFacts
    <3>2. Low(time + t) <= time + t - Mod
      BY <1>1, <1>6, LowFacts
    <3> QED BY <1>1, <1>2, <1>3, <3>1, <3>2
  <2>2. CASE time >= Mod
    BY <1>1, <1>3, <2>2
  <2> QED BY <1>1, <2>1, <2>2
<1> QED BY <1>3, <1>4, <1>5, <1>6

\* ble_npl_callout_remaining_ticks gives what it is named for, the ticks from time
\* to the expiry, only when there are none or when they are half of the range: it
\* gives the ticks that have passed since the expiry, and for a callout that is
\* still to come what its remaining ticks are short of 2^32 (embassy.rs:328-333).
\* This is the release build; one that checks arithmetic panics there.
THEOREM RemainingIsElapsed ==
  ASSUME NEW expiry \in 0..(Mod - 1), NEW time \in 0..(Mod - 1)
  PROVE  /\ time >= expiry => RemainingTicks(expiry, time) = time - expiry
         /\ time < expiry => RemainingTicks(expiry, time) = Mod - (expiry - time)
         /\ RemainingTicks(expiry, time) = Low(expiry - time)
              <=> expiry = time \/ 2 * (expiry - time) \in {Mod, -Mod}
<1>1. Mod \in Nat \ {0}
  BY TimeAssumption
<1>2. ASSUME NEW a \in Int, 0 <= a, a < Mod PROVE Low(a) = a
  BY <1>1, <1>2 DEF Low
<1>3. ASSUME NEW a \in Int, -Mod < a, a < 0 PROVE Low(a) = a + Mod
  BY <1>1, <1>3 DEF Low
<1>4. CASE time > expiry
  <2>1. RemainingTicks(expiry, time) = time - expiry
    BY <1>1, <1>2, <1>4 DEF RemainingTicks
  <2>2. Low(expiry - time) = expiry - time + Mod
    BY <1>1, <1>3, <1>4
  <2> QED BY <1>1, <1>4, <2>1, <2>2
<1>5. CASE time = expiry
  <2>1. RemainingTicks(expiry, time) = 0 /\ Low(expiry - time) = 0
    BY <1>1, <1>2, <1>5 DEF RemainingTicks
  <2> QED BY <1>1, <1>5, <2>1
<1>6. CASE time < expiry
  <2>1. RemainingTicks(expiry, time) = time - expiry + Mod
    BY <1>1, <1>3, <1>6 DEF RemainingTicks
  <2>2. Low(expiry - time) = expiry - time
    BY <1>1, <1>2, <1>6
  <2> QED BY <1>1, <1>6, <2>1, <2>2
<1> QED BY <1>1, <1>4, <1>5, <1>6

\* Milliseconds that are turned into ticks and back are what they were or one
\* less, while the ticks fit in 32 bits and a tick is not longer than a
\* millisecond: callers that do this in a loop lose time (embassy.rs:367-385).
THEOREM RoundTrip ==
  ASSUME NEW ms \in Nat, TickHz >= 1000,
         ms < Mod, (ms * TickHz) \div 1000 < Mod
  PROVE  TicksToMs(MsToTicks(ms)) \in {ms - 1, ms}
<1> DEFINE n == ms * TickHz
           q == n \div 1000
           r == (q * 1000) \div TickHz
<1>1. TickHz \in Nat \ {0} /\ n \in Nat /\ Mod \in Nat \ {0}
  BY TimeAssumption
<1>2. q \in Nat /\ 1000 * q <= n /\ n < 1000 * q + 1000
  BY <1>1
<1> HIDE DEF q
<1>3. r \in Nat /\ TickHz * r <= 1000 * q /\ 1000 * q < TickHz * r + TickHz
  BY <1>1, <1>2
<1> HIDE DEF r
<1>4. r <= ms
  <2>1. TickHz * r <= TickHz * ms
    BY <1>1, <1>2, <1>3
  <2> QED BY <1>1, <1>3, <2>1
<1>5. ms < r + 2
  <2>1. TickHz * ms < TickHz * (r + 2)
    BY <1>1, <1>2, <1>3
  <2> QED BY <1>1, <1>3, <2>1
<1>6. MsToTicks(ms) = q
  BY <1>2, LowFacts DEF MsToTicks, q
<1>7. TicksToMs(q) = r
  BY <1>1, <1>3, <1>4, LowFacts DEF TicksToMs, r
<1> QED BY <1>3, <1>4, <1>5, <1>6, <1>7
--------------------------------------------------------------------------------
(***************************************************************************)
(* What holds whatever the users of callouts do.                           *)
(***************************************************************************)
\* The wake of a reset in progress, until it sets `active`.
EarlyInReset ==
  pc # "idle" =>
    /\ expires[cur] <= due[cur]
    /\ due[cur] >= Mod => expires[cur] <= now
    /\ due[cur] < Mod => expires[cur] = due[cur]

ArmedInReset ==
  pc = "activate" =>
    IF wakes[cur] = NoWake
      THEN past[cur].woken
      ELSE /\ wakes[cur] <= due[cur]
           /\ due[cur] >= Mod => wakes[cur] <= now

\* An entry that is not older than the last reset is the one it made.
OwnEntry ==
  \A c \in Callout :
    wakes[c] # NoWake /\ ~past[c].kept =>
      due[c] >= Mod \/ wakes[c] >= due[c]

WInv ==
  /\ TypeOK
  /\ EarlyInReset /\ ArmedInReset /\ OwnEntry
  /\ NeverLate /\ StrandedOnlyInReset /\ WrapLosesDelay

\* Nothing is armed at first.
LEMMA WInit == Init => WInv
<1> SUFFICES ASSUME Init PROVE WInv
  OBVIOUS
<1>1. Mod \in Nat \ {0} /\ MaxTime \in Nat /\ Cap \in Nat \ {0}
  BY TimeAssumption, ConstantsAssumption
<1>2. TypeOK
  <2>1. evq \in Seq(Callout) /\ Len(evq) <= Cap
    BY <1>1 DEF Init, Queue!Init
  <2>2. past \in [Callout -> [kept : BOOLEAN, woken : BOOLEAN]]
    BY DEF Init
  <2>3. /\ expires \in [Callout -> 0..(Mod - 1)]
        /\ wakes \in [Callout -> 0..(Mod - 1) \cup {NoWake}]
        /\ due \in [Callout -> 0..MaxTime] /\ now \in 0..MaxTime
    BY <1>1 DEF Init
  <2>4. active \in [Callout -> BOOLEAN] /\ cur \in Callout
    BY DEF Init
  <2>5. expiring = FALSE /\ pc = "idle" /\ panic = FALSE
    BY DEF Init
  <2>6. expiring \in BOOLEAN /\ pc \in {"idle", "schedule", "activate"} /\ panic \in BOOLEAN
    BY <2>5
  <2> QED BY <2>1, <2>2, <2>3, <2>4, <2>6 DEF TypeOK
<1> QED
  BY <1>2 DEF Init, WInv, EarlyInReset, ArmedInReset, OwnEntry, NeverLate,
              StrandedOnlyInReset, WrapLosesDelay, NoWake

\* What a put and a get leave of the queue.
LEMMA PutFacts ==
  ASSUME evq \in Seq(Callout), Len(evq) <= Cap, NEW c \in Callout, Queue!Put(c)
  PROVE  /\ evq' \in Seq(Callout) /\ Len(evq') <= Cap
         /\ Len(evq') = Len(evq) + 1 /\ evq'[Len(evq')] = c
         /\ \A y : Queued(y)' <=> Queued(y) \/ y = c
<1>1. evq' = Append(evq, c) /\ Len(evq) < Cap
  BY DEF Queue!Put
<1>2. Cap \in Nat /\ Len(evq) \in Nat
  BY ConstantsAssumption, LenProperties
<1>3. evq'[Len(evq')] = c
  BY <1>1
<1>4. \A y : Member(evq', y) <=> Member(evq, y) \/ y = c
  BY <1>1, AppendFacts
<1>5. evq' \in Seq(Callout) /\ Len(evq') = Len(evq) + 1
  BY <1>1, AppendFacts
<1> QED BY <1>1, <1>2, <1>3, <1>4, <1>5 DEF Queued, Member

LEMMA ServeFacts ==
  ASSUME evq \in Seq(Callout), Len(evq) <= Cap, Queue!Get
  PROVE  /\ evq' \in Seq(Callout) /\ Len(evq') <= Cap /\ Len(evq') < Len(evq)
         /\ Head(evq) \in Callout
         /\ \A y : Queued(y) <=> y = Head(evq) \/ Queued(y)'
<1>1. evq' = Tail(evq) /\ evq # <<>>
  BY DEF Queue!Get
<1>2. Cap \in Nat /\ Len(evq) \in Nat
  BY ConstantsAssumption, LenProperties
<1>3. /\ Head(evq) \in Callout /\ evq' \in Seq(Callout) /\ Len(evq') = Len(evq) - 1
      /\ \A y : Member(evq, y) <=> y = Head(evq) \/ Member(evq', y)
  BY <1>1, TailFacts
<1> QED BY <1>2, <1>3 DEF Queued, Member

\* Every step keeps all of this: reset makes its own entry or leaves an earlier
\* one, and the clock only makes what is due more so.
LEMMA WNext == WInv /\ [Next]_vars => WInv'
<1> SUFFICES ASSUME WInv, [Next]_vars PROVE WInv'
  OBVIOUS
<1> USE TimeAssumption, ConstantsAssumption
<1>1. TypeOK /\ Mod \in Nat \ {0} /\ MaxTime \in Nat
  BY DEF WInv
<1>2. ASSUME NEW c \in Callout, NEW t \in Ticks, Reset(c, t) PROVE WInv'
  <2>1. /\ pc = "idle" /\ pc' = "schedule" /\ cur' = c /\ now + t <= MaxTime
        /\ expires' = [expires EXCEPT ![c] = Low(Low(now) + t)]
        /\ due' = [due EXCEPT ![c] = now + t]
        /\ past' = [past EXCEPT ![c] = [kept |-> wakes[c] # NoWake, woken |-> FALSE]]
        /\ panic' \in BOOLEAN
        /\ UNCHANGED <<now, active, wakes, expiring, evq>>
    BY <1>2 DEF Reset, ThreadIdle, MayReset
  <2>2. t \in 0..(Mod - 1) /\ now \in Nat
    BY <1>1 DEF TypeOK
  <2>3. /\ Low(Low(now) + t) \in 0..(Mod - 1)
        /\ Low(Low(now) + t) <= now + t
        /\ now + t < Mod => Low(Low(now) + t) = now + t
        /\ now + t >= Mod => Low(Low(now) + t) <= now
    BY <2>2, ExpiryFacts
  <2>4. TypeOK'
    BY <1>1, <2>1, <2>2, <2>3 DEF TypeOK
  <2>5. expires'[c] = Low(Low(now) + t) /\ due'[c] = now + t /\ ~past'[c].woken
        /\ (past'[c].kept <=> wakes[c] # NoWake)
    BY <1>1, <2>1 DEF TypeOK
  <2>6. \A d \in Callout : d # c => due'[d] = due[d] /\ past'[d] = past[d]
    BY <1>1, <2>1 DEF TypeOK
  <2>7. EarlyInReset' /\ ArmedInReset'
    BY <2>1, <2>3, <2>5 DEF EarlyInReset, ArmedInReset
  <2>8. OwnEntry'
    BY <2>1, <2>5, <2>6 DEF WInv, OwnEntry, Resetting
  <2>9. NeverLate' /\ StrandedOnlyInReset' /\ WrapLosesDelay'
    BY <2>1, <2>6 DEF WInv, NeverLate, StrandedOnlyInReset, WrapLosesDelay, Resetting, IsDue
  <2> QED BY <2>4, <2>7, <2>8, <2>9 DEF WInv
<1>3. CASE Schedule
  <2>1. /\ pc = "schedule" /\ pc' = "activate" /\ cur \in Callout
        /\ UNCHANGED <<now, active, expires, cur, evq, panic, due>>
    BY <1>1, <1>3 DEF Schedule, TypeOK
  <2>2. CASE wakes[cur] = NoWake \/ wakes[cur] > expires[cur]
    <3>1. /\ wakes' = [wakes EXCEPT ![cur] = expires[cur]]
          /\ past' = [past EXCEPT ![cur].kept = FALSE]
          /\ expiring' = TRUE
      BY <1>3, <2>2 DEF Schedule
    <3>2. /\ wakes'[cur] = expires[cur] /\ ~past'[cur].kept
          /\ expires[cur] \in 0..(Mod - 1)
          /\ \A d \in Callout : d # cur => wakes'[d] = wakes[d] /\ past'[d] = past[d]
      BY <1>1, <2>1, <3>1 DEF TypeOK
    <3>3. TypeOK'
      BY <1>1, <2>1, <3>1, <3>2, ZenonT(30) DEF TypeOK
    <3>4. EarlyInReset' /\ ArmedInReset'
      BY <1>1, <2>1, <3>2 DEF WInv, EarlyInReset, ArmedInReset, NoWake
    <3>5. OwnEntry'
      <4>1. due[cur] >= Mod \/ wakes'[cur] >= due[cur]
        BY <1>1, <2>1, <3>2 DEF WInv, EarlyInReset, TypeOK
      <4> QED BY <2>1, <3>2, <4>1 DEF WInv, OwnEntry
    <3>6. NeverLate' /\ StrandedOnlyInReset' /\ WrapLosesDelay'
      BY <2>1, <3>2 DEF WInv, NeverLate, StrandedOnlyInReset, WrapLosesDelay, Resetting, IsDue
    <3> QED BY <3>3, <3>4, <3>5, <3>6 DEF WInv
  <2>3. CASE ~(wakes[cur] = NoWake \/ wakes[cur] > expires[cur])
    <3>1. UNCHANGED <<wakes, past, expiring>>
      BY <1>3, <2>3 DEF Schedule
    <3>2. wakes[cur] \in Nat /\ wakes[cur] <= expires[cur] /\ expires[cur] \in Nat
      BY <1>1, <2>1, <2>3 DEF TypeOK
    <3>3. TypeOK'
      BY <1>1, <2>1, <3>1 DEF TypeOK
    <3>4. due[cur] \in Nat /\ now \in Nat
      BY <1>1, <2>1 DEF TypeOK
    <3>5. EarlyInReset' /\ ArmedInReset'
      BY <1>1, <2>1, <2>3, <3>1, <3>2, <3>4 DEF WInv, EarlyInReset, ArmedInReset
    <3>6. OwnEntry'
      BY <1>1, <2>1, <3>1, <3>2, <3>4 DEF WInv, OwnEntry, EarlyInReset, Resetting
    <3>7. NeverLate' /\ StrandedOnlyInReset' /\ WrapLosesDelay'
      BY <2>1, <3>1 DEF WInv, NeverLate, StrandedOnlyInReset, WrapLosesDelay, Resetting, IsDue
    <3> QED BY <3>3, <3>5, <3>6, <3>7 DEF WInv
  <2> QED BY <2>2, <2>3
<1>4. CASE Activate
  <2>1. /\ pc = "activate" /\ pc' = "idle" /\ cur \in Callout
        /\ active' = [active EXCEPT ![cur] = TRUE]
        /\ UNCHANGED <<now, expires, wakes, expiring, evq, cur, panic, due, past>>
    BY <1>1, <1>4 DEF Activate, TypeOK, history
  <2>2. TypeOK'
    BY <1>1, <2>1 DEF TypeOK
  <2>3. EarlyInReset' /\ ArmedInReset' /\ OwnEntry'
    BY <2>1 DEF WInv, EarlyInReset, ArmedInReset, OwnEntry, Resetting
  <2>4. \A d \in Callout : d # cur => active'[d] = active[d]
    BY <1>1, <2>1 DEF TypeOK
  <2>5. NeverLate' /\ StrandedOnlyInReset' /\ WrapLosesDelay'
    BY <2>1, <2>4
       DEF WInv, NeverLate, StrandedOnlyInReset, WrapLosesDelay, Resetting, IsDue, ArmedInReset
  <2> QED BY <2>2, <2>3, <2>5 DEF WInv
<1>5. ASSUME NEW c \in Callout, Stop(c) PROVE WInv'
  <2>1. /\ active' = [active EXCEPT ![c] = FALSE]
        /\ UNCHANGED <<now, expires, wakes, expiring, evq, pc, cur, panic, due, past>>
    BY <1>5 DEF Stop, history
  <2>2. \A d \in Callout : active'[d] => active[d]
    BY <1>1, <2>1 DEF TypeOK
  <2>3. TypeOK'
    BY <1>1, <2>1 DEF TypeOK
  <2> QED
    BY <2>1, <2>2, <2>3 DEF WInv, EarlyInReset, ArmedInReset, OwnEntry, NeverLate,
       StrandedOnlyInReset, WrapLosesDelay, Resetting, IsDue
<1>6. ASSUME UNCHANGED <<now, active, expires, wakes, pc, cur, due, past>>,
             evq' \in Seq(Callout), Len(evq') <= Cap, {expiring', panic'} \subseteq BOOLEAN
      PROVE  WInv'
  <2>1. TypeOK'
    BY <1>1, <1>6 DEF TypeOK
  <2> QED
    BY <1>6, <2>1 DEF WInv, EarlyInReset, ArmedInReset, OwnEntry, NeverLate,
       StrandedOnlyInReset, WrapLosesDelay, Resetting, IsDue
<1>7. CASE Serve
  <2>1. UNCHANGED <<now, active, expires, wakes, pc, cur, due, past, expiring, panic>>
    BY <1>7 DEF Serve, code, history
  <2>2. evq' \in Seq(Callout) /\ Len(evq') <= Cap
    BY <1>1, <1>7, ServeFacts DEF Serve, TypeOK
  <2> QED BY <1>1, <1>6, <2>1, <2>2 DEF TypeOK
<1>8. CASE Interrupt \/ Expired \/ UNCHANGED vars
  <2>1. UNCHANGED <<now, active, expires, wakes, pc, cur, due, past, evq, panic>>
    BY <1>8 DEF Interrupt, Expired, vars, code, history
  <2>2. expiring' \in BOOLEAN
    BY <1>1, <1>8 DEF Interrupt, Expired, vars, TypeOK
  <2> QED BY <1>1, <1>6, <2>1, <2>2 DEF TypeOK
<1>9. CASE Tick
  <2>1. now' = now + 1 /\ now < MaxTime
        /\ UNCHANGED <<active, expires, pc, cur, wakes, expiring, evq, panic, due, past>>
    BY <1>9 DEF Tick, code, history
  <2>2. TypeOK'
    BY <1>1, <2>1 DEF TypeOK
  <2>3. now \in Nat /\ \A d \in Callout : wakes[d] \in Int /\ expires[d] \in Nat
    BY <1>1 DEF TypeOK, NoWake
  <2>4. EarlyInReset' /\ ArmedInReset' /\ OwnEntry'
    BY <1>1, <2>1, <2>3 DEF WInv, EarlyInReset, ArmedInReset, OwnEntry, Resetting, TypeOK
  <2>5. NeverLate' /\ StrandedOnlyInReset' /\ WrapLosesDelay'
    BY <1>1, <2>1, <2>3 DEF WInv, NeverLate, StrandedOnlyInReset, WrapLosesDelay, Resetting, IsDue
  <2> QED BY <2>2, <2>4, <2>5 DEF WInv
<1>10. ASSUME NEW c \in Callout, Wake(c) PROVE WInv'
  <2>1. /\ wakes' = [wakes EXCEPT ![c] = NoWake]
        /\ active' = [active EXCEPT ![c] = FALSE]
        /\ past' = [past EXCEPT ![c].woken = @ \/ Resetting(c)]
        /\ UNCHANGED <<now, expires, expiring, pc, cur, due>>
    BY <1>10 DEF Wake, callout_cb
  <2>2. evq' \in Seq(Callout) /\ Len(evq') <= Cap /\ panic' \in BOOLEAN
    <3>1. evq \in Seq(Callout) /\ Len(evq) <= Cap /\ panic \in BOOLEAN
      BY <1>1 DEF TypeOK
    <3>2. CASE Queue!Put(c) /\ UNCHANGED panic
      BY <3>1, <3>2, PutFacts
    <3>3. CASE UNCHANGED evq /\ (panic' = panic \/ panic' = TRUE)
      BY <3>1, <3>3
    <3> QED BY <1>10, <3>2, <3>3 DEF Wake, callout_cb
  <2>3. /\ ~active'[c] /\ wakes'[c] = NoWake /\ past'[c].kept = past[c].kept
        /\ Resetting(c) => past'[c].woken
        /\ \A d \in Callout : d # c =>
             active'[d] = active[d] /\ wakes'[d] = wakes[d] /\ past'[d] = past[d]
    BY <1>1, <2>1 DEF TypeOK
  <2>4. TypeOK'
    BY <1>1, <2>1, <2>2 DEF TypeOK, Resetting
  <2>5. EarlyInReset' /\ ArmedInReset'
    BY <1>1, <2>1, <2>3 DEF WInv, EarlyInReset, ArmedInReset, Resetting, TypeOK
  <2>6. OwnEntry'
    BY <2>1, <2>3 DEF WInv, OwnEntry, Resetting
  <2>7. NeverLate' /\ StrandedOnlyInReset' /\ WrapLosesDelay'
    BY <2>1, <2>3 DEF WInv, NeverLate, StrandedOnlyInReset, WrapLosesDelay, Resetting, IsDue
  <2> QED BY <2>4, <2>5, <2>6, <2>7 DEF WInv
<1> QED
  BY <1>2, <1>3, <1>4, <1>5, <1>7, <1>8, <1>9, <1>10 DEF Next, ResetStep, DriverStep

LEMMA WAlways == Spec => []WInv
BY WInit, WNext, PTL DEF Spec

\* The program keeps its types: expiries and wakes fit ble_npl_time_t, and the
\* event queue its capacity (embassy.rs:295-347).
THEOREM TypeCorrect == Spec => []TypeOK
<1>1. WInv => TypeOK
  BY DEF WInv
<1> QED BY <1>1, WAlways, PTL

\* Restarting a callout cannot delay its wake beyond what the last reset asked
\* for (embassy.rs:300-304).
THEOREM NeverWokenLate == Spec => []NeverLate
<1>1. WInv => NeverLate
  BY DEF WInv
<1> QED BY <1>1, WAlways, PTL

\* Only a wake that comes inside reset strands a callout (embassy.rs:301-305).
THEOREM StrandedByReset == Spec => []StrandedOnlyInReset
<1>1. WInv => StrandedOnlyInReset
  BY DEF WInv
<1> QED BY <1>1, WAlways, PTL

\* After the clock has left 32 bits no callout waits for its delay
\* (embassy.rs:300-305).
THEOREM DelayLost == Spec => []WrapLosesDelay
<1>1. WInv => WrapLosesDelay
  BY DEF WInv
<1> QED BY <1>1, WAlways, PTL

\* An event that is put before its time comes from an older entry, or from an
\* expiry that has wrapped (embassy.rs:301-304, 312, 342).
THEOREM EarlyFromOlder == Spec => EarlyOnlyIfOlder
<1>1. ASSUME WInv, [Next]_vars
      PROVE  [\A c \in Callout :
                Len(evq') > Len(evq) /\ evq'[Len(evq')] = c =>
                  now >= due[c] \/ past[c].kept \/ due[c] >= Mod]_vars
  <2> SUFFICES ASSUME NEW c \in Callout, Len(evq') > Len(evq), evq'[Len(evq')] = c
               PROVE  now >= due[c] \/ past[c].kept \/ due[c] >= Mod
    OBVIOUS
  <2>1. TypeOK /\ evq \in Seq(Callout) /\ Len(evq) <= Cap /\ Len(evq) \in Nat
    BY <1>1, LenProperties DEF WInv, TypeOK
  <2>2. evq' # evq
    BY <2>1
  <2>3. ~Serve
    BY <2>1, ServeFacts DEF Serve
  <2>4. PICK d \in Callout : Wake(d)
    BY <1>1, <2>2, <2>3
       DEF Next, ResetStep, DriverStep, Stop, Reset, Schedule, Activate, Interrupt, Expired,
           Tick, vars
  <2>5. Queue!Put(d)
    BY <2>2, <2>4 DEF Wake, callout_cb
  <2>6. d = c
    BY <2>1, <2>5, PutFacts
  <2>7. wakes[c] # NoWake /\ wakes[c] <= now
    BY <2>4, <2>6 DEF Wake, IsDue
  <2>8. wakes[c] \in Nat /\ due[c] \in Nat /\ now \in Nat
    BY <2>1, <2>7, TimeAssumption, ConstantsAssumption DEF TypeOK
  <2>9. past[c].kept \/ due[c] >= Mod \/ wakes[c] >= due[c]
    BY <1>1, <2>7 DEF WInv, OwnEntry
  <2> QED BY <2>7, <2>8, <2>9
<1> QED BY <1>1, WAlways, PTL DEF Spec, EarlyOnlyIfOlder
--------------------------------------------------------------------------------
(***************************************************************************)
(* Careful callouts.                                                       *)
(***************************************************************************)
Once(c) == \A i, j \in 1..Len(evq) : evq[i] = c /\ evq[j] = c => i = j

\* The life of a careful callout: reset, with its entry still to come; armed,
\* with its entry due when it is; or expired, with its event put once.
CarefulInv ==
  \A c \in Careful :
    /\ Once(c)
    /\ Queued(c) => ~active[c] /\ ~Resetting(c)
    /\ active[c] => wakes[c] = due[c]
    /\ Resetting(c) =>
         /\ ~active[c] /\ now < due[c] /\ due[c] < Mod
         /\ wakes[c] = (IF pc = "schedule" THEN NoWake ELSE due[c])

\* What a put and a get leave of the events that are queued once.
LEMMA OnceFacts ==
  ASSUME evq \in Seq(Callout), NEW c \in Callout
  PROVE  /\ Queue!Put(c) => \A y : Once(y) /\ (y = c => ~Queued(y)) => Once(y)'
         /\ Queue!Get => \A y : Once(y) => Once(y)' /\ (y = Head(evq) => ~Queued(y)')
<1>0. Len(evq) \in Nat
  BY LenProperties
<1>1. ASSUME Queue!Put(c), NEW y, Once(y), y = c => ~Queued(y)
      PROVE  Once(y)'
  <2>1. /\ Len(evq') = Len(evq) + 1
        /\ \A i \in 1..Len(evq) : evq'[i] = evq[i]
        /\ evq'[Len(evq) + 1] = c
    BY <1>1 DEF Queue!Put
  <2>2. ASSUME NEW i \in 1..Len(evq'), NEW j \in 1..Len(evq'), evq'[i] = y, evq'[j] = y
        PROVE  i = j
    <3>1. CASE i \in 1..Len(evq) /\ j \in 1..Len(evq)
      BY <1>1, <2>1, <2>2, <3>1 DEF Once
    <3>2. CASE y = c
      BY <1>0, <1>1, <2>1, <2>2, <3>2 DEF Queued
    <3>3. CASE y # c
      <4>1. i # Len(evq) + 1 /\ j # Len(evq) + 1
        BY <2>1, <2>2, <3>3
      <4> QED BY <1>0, <2>1, <3>1, <4>1
    <3> QED BY <3>2, <3>3
  <2> QED BY <2>2 DEF Once
<1>2. ASSUME Queue!Get, NEW y, Once(y)
      PROVE  Once(y)' /\ (y = Head(evq) => ~Queued(y)')
  <2>1. /\ Head(evq) = evq[1] /\ Len(evq') = Len(evq) - 1 /\ Len(evq) \in Nat \ {0}
        /\ \A i \in 1..Len(evq) - 1 : evq'[i] = evq[i + 1]
    BY <1>0, <1>2, HeadTailProperties, EmptySeq DEF Queue!Get
  <2>2. \A i \in 1..Len(evq') : i + 1 \in 1..Len(evq) /\ i + 1 # 1 /\ evq'[i] = evq[i + 1]
    BY <2>1
  <2>3. y = Head(evq) => ~Queued(y)'
    BY <1>2, <2>1, <2>2 DEF Once, Queued
  <2>4. ASSUME NEW i \in 1..Len(evq'), NEW j \in 1..Len(evq'), evq'[i] = y, evq'[j] = y
        PROVE  i = j
    <3>1. i + 1 = j + 1
      BY <1>2, <2>2, <2>4 DEF Once
    <3> QED BY <3>1
  <2> QED BY <2>3, <2>4 DEF Once
<1> QED BY <1>1, <1>2

LEMMA CInit == Init => CarefulInv
<1> SUFFICES ASSUME Init PROVE CarefulInv
  OBVIOUS
<1>1. Len(evq) = 0 /\ pc = "idle" /\ \A c \in Careful : ~active[c]
  BY ConstantsAssumption DEF Init, Queue!Init
<1> QED BY <1>1 DEF CarefulInv, Once, Queued, Resetting

\* A careful callout is reset when nothing is left of its last use, so that its
\* one entry is that of its one reset; Prompt keeps the entry ahead of reset.
LEMMA CNext == WInv /\ CarefulInv /\ [Next]_vars => CarefulInv'
<1> SUFFICES ASSUME WInv, CarefulInv, [Next]_vars PROVE CarefulInv'
  OBVIOUS
<1> USE ConstantsAssumption
<1>1. /\ TypeOK /\ evq \in Seq(Callout) /\ Len(evq) <= Cap /\ now \in Nat
      /\ \A c \in Callout : due[c] \in Nat
      /\ \A c \in Careful : c \in Callout
  BY DEF WInv, TypeOK
<1>2. ASSUME UNCHANGED <<now, active, wakes, pc, cur, due, evq>> PROVE CarefulInv'
  BY <1>2 DEF CarefulInv, Once, Queued, Resetting
<1>3. ASSUME NEW c \in Callout, NEW t \in Ticks, Reset(c, t) PROVE CarefulInv'
  <2>1. /\ pc = "idle" /\ pc' = "schedule" /\ cur' = c
        /\ due' = [due EXCEPT ![c] = now + t]
        /\ UNCHANGED <<now, active, wakes, evq>>
        /\ c \in Careful => ~active[c] /\ wakes[c] = NoWake /\ ~Queued(c) /\ t > 0 /\ now + t < Mod
    BY <1>3 DEF Reset, ThreadIdle, MayReset
  <2>2. due'[c] = now + t /\ \A d \in Callout : d # c => due'[d] = due[d]
    BY <1>1, <2>1 DEF TypeOK
  <2>3. t \in Nat
    BY TimeAssumption
  <2>4. c \in Careful => now < due'[c]
    BY <1>1, <2>1, <2>2, <2>3
  <2> QED BY <1>1, <2>1, <2>2, <2>4 DEF CarefulInv, Once, Queued, Resetting
<1>4. CASE Schedule
  <2>1. /\ pc = "schedule" /\ pc' = "activate" /\ cur \in Callout
        /\ UNCHANGED <<now, active, cur, evq, due>>
    BY <1>1, <1>4 DEF Schedule, TypeOK
  <2>2. \A d \in Callout : d # cur => wakes'[d] = wakes[d]
    BY <1>1, <1>4, <2>1 DEF Schedule, TypeOK
  <2>3. cur \in Careful => wakes[cur] = NoWake /\ expires[cur] = due[cur]
    BY <1>1, <2>1 DEF WInv, EarlyInReset, CarefulInv, Resetting
  <2>4. cur \in Careful => wakes'[cur] = due[cur]
    BY <1>1, <1>4, <2>1, <2>3 DEF Schedule, TypeOK
  <2> QED BY <1>1, <2>1, <2>2, <2>4 DEF CarefulInv, Once, Queued, Resetting
<1>5. CASE Activate
  <2>1. /\ pc = "activate" /\ pc' = "idle" /\ cur \in Callout
        /\ active' = [active EXCEPT ![cur] = TRUE]
        /\ UNCHANGED <<now, wakes, evq, cur, due>>
    BY <1>1, <1>5 DEF Activate, TypeOK, history
  <2>2. \A d \in Callout : d # cur => active'[d] = active[d]
    BY <1>1, <2>1 DEF TypeOK
  <2> QED BY <1>1, <2>1, <2>2 DEF CarefulInv, Once, Queued, Resetting
<1>6. ASSUME NEW c \in Callout, Stop(c) PROVE CarefulInv'
  <2>1. /\ active' = [active EXCEPT ![c] = FALSE]
        /\ UNCHANGED <<now, wakes, evq, pc, cur, due>>
    BY <1>6 DEF Stop, history
  <2>2. \A d \in Callout : active'[d] => active[d]
    BY <1>1, <2>1 DEF TypeOK
  <2> QED BY <1>1, <2>1, <2>2 DEF CarefulInv, Once, Queued, Resetting
<1>7. CASE Serve
  <2>1. Queue!Get /\ UNCHANGED <<now, active, wakes, pc, cur, due>>
    BY <1>7 DEF Serve, code, history
  <2>2. \A y : (Queued(y)' => Queued(y)) /\ (Once(y) => Once(y)')
    <3>1. cur \in Callout
      BY <1>1 DEF TypeOK
    <3> QED BY <1>1, <2>1, <3>1, ServeFacts, OnceFacts
  <2> QED BY <2>1, <2>2 DEF CarefulInv, Resetting
<1>8. CASE Interrupt \/ Expired \/ UNCHANGED vars
  BY <1>2, <1>8 DEF Interrupt, Expired, vars, code, history
<1>9. CASE Tick
  <2>1. /\ now' = now + 1 /\ UNCHANGED <<active, wakes, pc, cur, evq, due>>
        /\ pc # "idle" /\ cur \in Careful => now + 1 < due[cur]
    BY <1>9 DEF Tick, Prompt, code, history
  <2> QED BY <1>1, <2>1 DEF CarefulInv, Once, Queued, Resetting
<1>10. ASSUME NEW c \in Callout, Wake(c) PROVE CarefulInv'
  <2>1. /\ wakes' = [wakes EXCEPT ![c] = NoWake]
        /\ active' = [active EXCEPT ![c] = FALSE]
        /\ UNCHANGED <<now, pc, cur, due>>
        /\ (active[c] /\ Queue!Put(c)) \/ UNCHANGED evq
        /\ wakes[c] # NoWake /\ wakes[c] <= now
    BY <1>10 DEF Wake, callout_cb, IsDue
  <2>2. /\ ~active'[c]
        /\ \A d \in Callout : d # c => active'[d] = active[d] /\ wakes'[d] = wakes[d]
    BY <1>1, <2>1 DEF TypeOK
  <2>3. c \in Careful => ~Resetting(c)
    BY <1>1, <2>1 DEF CarefulInv
  <2>4. CASE active[c] /\ Queue!Put(c)
    <3>1. \A y : Queued(y)' <=> Queued(y) \/ y = c
      BY <1>1, <2>4, PutFacts
    <3>2. \A y \in Careful : Once(y)'
      <4>1. c \in Careful => ~Queued(c)
        BY <2>4 DEF CarefulInv
      <4> QED BY <1>1, <2>4, <4>1, OnceFacts DEF CarefulInv
    <3> QED BY <1>1, <2>1, <2>2, <2>3, <3>1, <3>2 DEF CarefulInv, Resetting
  <2>5. CASE UNCHANGED evq
    BY <1>1, <2>1, <2>2, <2>3, <2>5 DEF CarefulInv, Resetting, Once, Queued
  <2> QED BY <2>1, <2>4, <2>5
<1> QED
  BY <1>3, <1>4, <1>5, <1>6, <1>7, <1>8, <1>9, <1>10 DEF Next, ResetStep, DriverStep

\* What the phase of a callout depends on.
LEMMA SamePhase ==
  ASSUME NEW c, Queued(c)' <=> Queued(c),
         active[c] \/ Resetting(c) <=> (active[c] \/ Resetting(c))'
  PROVE  PhaseOf(c)' = PhaseOf(c)
BY DEF PhaseOf

\* The phase of one callout changes, that of the others does not.
LEMMA MovePhase ==
  ASSUME NEW c \in Careful, NEW a, NEW b, PhaseOf(c) = a, PhaseOf(c)' = b,
         \A d \in Careful \ {c} : PhaseOf(d)' = PhaseOf(d)
  PROVE  OneShot!Move(c, a, b)
<1>1. [d \in Careful |-> PhaseOf(d)]' = [[d \in Careful |-> PhaseOf(d)] EXCEPT ![c] = b]
  OBVIOUS
<1> QED BY <1>1 DEF OneShot!Move

\* Every step is a step of a one-shot timer or leaves the timers alone.
LEMMA Simulation == WInv /\ CarefulInv /\ [Next]_vars => [OneShot!Next]_(OneShot!vars)
<1> SUFFICES ASSUME WInv, CarefulInv, [Next]_vars
             PROVE  OneShot!Next \/ UNCHANGED OneShot!vars
  OBVIOUS
<1> USE ConstantsAssumption
<1>1. /\ TypeOK /\ evq \in Seq(Callout) /\ Len(evq) <= Cap
      /\ \A c \in Careful : c \in Callout
  BY DEF WInv, TypeOK
<1>2. ASSUME \A c \in Careful : PhaseOf(c)' = PhaseOf(c), UNCHANGED <<now, due>>
      PROVE  UNCHANGED OneShot!vars
  BY <1>2 DEF OneShot!vars
<1>3. ASSUME NEW c \in Callout, NEW t \in Ticks, Reset(c, t)
      PROVE  OneShot!Next \/ UNCHANGED OneShot!vars
  <2>1. /\ pc = "idle" /\ pc' = "schedule" /\ cur' = c
        /\ due' = [due EXCEPT ![c] = now + t]
        /\ UNCHANGED <<now, active, evq>>
        /\ c \in Careful => ~active[c] /\ ~Queued(c)
    BY <1>3 DEF Reset, ThreadIdle, MayReset
  <2>2. \A d \in Careful \ {c} : PhaseOf(d)' = PhaseOf(d)
    BY <2>1, SamePhase DEF Queued, Resetting
  <2>3. CASE c \in Careful
    <3>1. PhaseOf(c) = "idle" /\ PhaseOf(c)' = "armed"
      BY <2>1, <2>3 DEF PhaseOf, Queued, Resetting
    <3>2. [d \in Careful |-> due[d]]' = [[d \in Careful |-> due[d]] EXCEPT ![c] = now + t]
      BY <1>1, <2>1 DEF TypeOK
    <3>3. OneShot!Reset(c, t)
      BY <2>1, <2>2, <2>3, <3>1, <3>2, MovePhase DEF OneShot!Reset
    <3> QED BY <2>3, <3>3 DEF OneShot!Next
  <2>4. CASE c \notin Careful
    <3>1. [d \in Careful |-> due[d]]' = [d \in Careful |-> due[d]]
      BY <1>1, <2>1, <2>4 DEF TypeOK
    <3>2. [d \in Careful |-> PhaseOf(d)]' = [d \in Careful |-> PhaseOf(d)]
      BY <2>2, <2>4
    <3> QED BY <2>1, <3>1, <3>2 DEF OneShot!vars
  <2> QED BY <2>3, <2>4
<1>4. CASE Schedule
  <2>1. pc = "schedule" /\ pc' = "activate" /\ UNCHANGED <<now, active, cur, evq, due>>
    BY <1>4 DEF Schedule
  <2>2. \A c \in Careful : PhaseOf(c)' = PhaseOf(c)
    BY <2>1, SamePhase DEF Queued, Resetting
  <2> QED BY <1>2, <2>1, <2>2
<1>5. CASE Activate
  <2>1. /\ pc = "activate" /\ pc' = "idle" /\ cur \in Callout
        /\ active' = [active EXCEPT ![cur] = TRUE]
        /\ UNCHANGED <<now, evq, cur, due>>
    BY <1>1, <1>5 DEF Activate, TypeOK, history
  <2>2. active'[cur] /\ \A d \in Callout : d # cur => active'[d] = active[d]
    BY <1>1, <2>1 DEF TypeOK
  <2>3. ASSUME NEW c \in Careful PROVE PhaseOf(c)' = PhaseOf(c)
    <3>1. Queued(c)' <=> Queued(c)
      BY <2>1 DEF Queued
    <3>2. active[c] \/ Resetting(c) <=> (active[c] \/ Resetting(c))'
      BY <1>1, <2>1, <2>2 DEF Resetting
    <3> QED BY <3>1, <3>2, SamePhase
  <2> QED BY <1>2, <2>1, <2>3
<1>6. ASSUME NEW c \in Callout, Stop(c) PROVE OneShot!Next \/ UNCHANGED OneShot!vars
  <2>1. /\ pc = "idle" /\ active' = [active EXCEPT ![c] = FALSE]
        /\ UNCHANGED <<now, evq, pc, cur, due>>
    BY <1>6 DEF Stop, ThreadIdle, history
  <2>2. ~active'[c] /\ \A d \in Callout : d # c => active'[d] = active[d]
    BY <1>1, <2>1 DEF TypeOK
  <2>3. \A d \in Careful \ {c} : PhaseOf(d)' = PhaseOf(d)
    BY <1>1, <2>1, <2>2, SamePhase DEF Queued, Resetting
  <2>4. CASE c \in Careful /\ active[c]
    <3>1. PhaseOf(c) = "armed" /\ PhaseOf(c)' = "idle"
      BY <2>1, <2>2, <2>4 DEF CarefulInv, PhaseOf, Queued, Resetting
    <3>2. OneShot!Stop(c)
      BY <2>1, <2>3, <2>4, <3>1, MovePhase DEF OneShot!Stop
    <3> QED BY <2>4, <3>2 DEF OneShot!Next
  <2>5. CASE ~(c \in Careful /\ active[c])
    <3>1. c \in Careful => PhaseOf(c)' = PhaseOf(c)
      BY <2>1, <2>2, <2>5, SamePhase DEF Queued, Resetting
    <3> QED BY <1>2, <2>1, <2>3, <3>1
  <2> QED BY <2>4, <2>5
<1>7. CASE Serve
  <2>1. Queue!Get /\ pc = "idle" /\ UNCHANGED <<now, active, pc, cur, due>>
    BY <1>7 DEF Serve, ThreadIdle, code, history
  <2>2. PICK h \in Callout : h = Head(evq) /\ \A y : Queued(y) <=> y = h \/ Queued(y)'
    BY <1>1, <2>1, ServeFacts
  <2>3. h \in Callout /\ \A y : Queued(y) <=> y = h \/ Queued(y)'
    BY <2>2
  <2>4. \A d \in Careful \ {h} : PhaseOf(d)' = PhaseOf(d)
    BY <2>1, <2>3, SamePhase DEF Resetting
  <2>5. CASE h \in Careful
    <3>1. Queued(h) /\ ~Queued(h)' /\ ~active[h]
      BY <1>1, <2>1, <2>2, <2>5, OnceFacts DEF CarefulInv
    <3>2. PhaseOf(h) = "expired" /\ PhaseOf(h)' = "idle"
      BY <2>1, <3>1 DEF PhaseOf, Resetting
    <3>3. OneShot!Serve(h)
      BY <2>1, <2>4, <2>5, <3>2, MovePhase DEF OneShot!Serve
    <3> QED BY <2>5, <3>3 DEF OneShot!Next
  <2>6. CASE h \notin Careful
    BY <1>2, <2>1, <2>4, <2>6
  <2> QED BY <2>5, <2>6
<1>8. CASE Interrupt \/ Expired \/ UNCHANGED vars
  <2>1. UNCHANGED <<now, active, pc, cur, evq, due>>
    BY <1>8 DEF Interrupt, Expired, vars, code, history
  <2> QED BY <1>2, <2>1, SamePhase DEF Queued, Resetting
<1>9. CASE Tick
  <2>1. now' = now + 1 /\ UNCHANGED <<active, pc, cur, evq, due>>
    BY <1>9 DEF Tick, code, history
  <2>2. \A c \in Careful : PhaseOf(c)' = PhaseOf(c)
    BY <2>1, SamePhase DEF Queued, Resetting
  <2>3. OneShot!Tick
    BY <2>1, <2>2 DEF OneShot!Tick
  <2> QED BY <2>3 DEF OneShot!Next
<1>10. ASSUME NEW c \in Callout, Wake(c) PROVE OneShot!Next \/ UNCHANGED OneShot!vars
  <2>1. /\ active' = [active EXCEPT ![c] = FALSE]
        /\ UNCHANGED <<now, pc, cur, due>>
        /\ (active[c] /\ Queue!Put(c)) \/ UNCHANGED evq
        /\ wakes[c] # NoWake /\ wakes[c] <= now
    BY <1>10 DEF Wake, callout_cb, IsDue
  <2>2. ~active'[c] /\ \A d \in Callout : d # c => active'[d] = active[d]
    BY <1>1, <2>1 DEF TypeOK
  <2>3. c \in Careful => ~Resetting(c)
    BY <1>1, <2>1 DEF CarefulInv, TypeOK
  <2>4. CASE active[c] /\ Queue!Put(c)
    <3>1. \A y : Queued(y)' <=> Queued(y) \/ y = c
      BY <1>1, <2>4, PutFacts
    <3>2. \A d \in Careful \ {c} : PhaseOf(d)' = PhaseOf(d)
      BY <1>1, <2>1, <2>2, <3>1, SamePhase DEF Resetting
    <3>3. CASE c \in Careful
      <4>1. PhaseOf(c) = "armed" /\ PhaseOf(c)' = "expired"
        BY <2>4, <3>1, <3>3 DEF CarefulInv, PhaseOf
      <4>2. now >= due[c]
        BY <1>1, <2>1, <2>4, <3>3 DEF CarefulInv, TypeOK
      <4>3. OneShot!Expire(c)
        BY <2>1, <3>2, <3>3, <4>1, <4>2, MovePhase DEF OneShot!Expire
      <4> QED BY <3>3, <4>3 DEF OneShot!Next
    <3>4. CASE c \notin Careful
      BY <1>2, <2>1, <3>2, <3>4
    <3> QED BY <3>3, <3>4
  <2>5. CASE UNCHANGED evq
    <3>1. \A d \in Careful \ {c} : PhaseOf(d)' = PhaseOf(d)
      BY <1>1, <2>1, <2>2, <2>5, SamePhase DEF Queued, Resetting
    <3>2. CASE c \in Careful /\ active[c]
      <4>1. PhaseOf(c) = "armed" /\ PhaseOf(c)' = "idle"
        BY <2>1, <2>2, <2>3, <2>5, <3>2 DEF CarefulInv, PhaseOf, Queued, Resetting
      <4>2. OneShot!Stop(c)
        BY <2>1, <3>1, <3>2, <4>1, MovePhase DEF OneShot!Stop
      <4> QED BY <3>2, <4>2 DEF OneShot!Next
    <3>3. CASE ~(c \in Careful /\ active[c])
      <4>1. c \in Careful => PhaseOf(c)' = PhaseOf(c)
        BY <2>1, <2>2, <2>5, <3>3, SamePhase DEF Queued, Resetting
      <4> QED BY <1>2, <2>1, <3>1, <4>1
    <3> QED BY <3>2, <3>3
  <2> QED BY <2>1, <2>4, <2>5
<1> QED
  BY <1>3, <1>4, <1>5, <1>6, <1>7, <1>8, <1>9, <1>10 DEF Next, ResetStep, DriverStep

\* For users that take care a callout is a one-shot timer, whatever others do
\* with theirs: it expires once, not before its time, and its event is handed
\* out once (embassy.rs:295-347).
THEOREM CarefulIsOneShot == Spec => ImplementsOneShot
<1>1. Init => OneShot!Init
  <2> SUFFICES ASSUME Init PROVE OneShot!Init
    OBVIOUS
  <2>1. \A c \in Careful : PhaseOf(c) = "idle" /\ due[c] = 0
    BY ConstantsAssumption DEF Init, Queue!Init, PhaseOf, Queued, Resetting
  <2> QED BY <2>1 DEF Init, OneShot!Init
<1>2. WInv /\ CarefulInv /\ [Next]_vars => (WInv /\ CarefulInv)'
  BY WNext, CNext
<1> QED BY <1>1, <1>2, WInit, CInit, Simulation, PTL DEF Spec, ImplementsOneShot, OneShot!Spec

\* If all callouts of a queue are used with care, and are no more than it has slots,
\* nothing here panics: callout_cb never finds the queue full, although it puts without
\* a test of the flag, and the sum of an expiry never overflows in a build that checks
\* it (embassy.rs:300, 342-344).
THEOREM CarefulNeverPanics ==
  ASSUME Careful = Callout, IsFiniteSet(Callout), Cardinality(Callout) <= Cap
  PROVE  Spec => []~panic
<1> USE ConstantsAssumption
<1>1. WInv /\ CarefulInv /\ [Next]_vars => (WInv /\ CarefulInv)'
  BY WNext, CNext
<1>2. Init => ~panic
  BY DEF Init
<1>3. WInv /\ CarefulInv /\ ~panic /\ [Next]_vars => ~panic'
  <2> SUFFICES ASSUME WInv, CarefulInv, ~panic, [Next]_vars PROVE ~panic'
    OBVIOUS
  <2>1. TypeOK /\ evq \in Seq(Callout) /\ Len(evq) \in Nat /\ now \in Nat
    BY LenProperties DEF WInv, TypeOK
  <2>2. ASSUME NEW c \in Callout, NEW t \in Ticks, Reset(c, t) PROVE ~panic'
    <3>1. now + t < Mod /\ panic' = (OverflowChecks /\ Low(now) + t >= Mod)
      BY <2>2 DEF Reset, MayReset
    <3>2. Low(now) <= now /\ Low(now) \in Int /\ Mod \in Int /\ t \in Int
      BY <2>1, LowFacts, TimeAssumption
    <3>3. ~(Low(now) + t >= Mod)
      BY <2>1, <3>1, <3>2
    <3> QED BY <3>1, <3>3, Zenon
  <2>3. ASSUME NEW c \in Callout, Wake(c) PROVE ~panic'
    <3>1. SUFFICES ASSUME active[c] PROVE Len(evq) < Cap
      BY <2>3, ConstantsAssumption, <2>1 DEF Wake, callout_cb
    <3>2. ~Member(evq, c)
      BY <3>1 DEF CarefulInv, Queued, Member
    <3>3. Distinct(evq)
      <4> SUFFICES ASSUME NEW i \in 1..Len(evq), NEW j \in 1..Len(evq), evq[i] = evq[j]
                   PROVE  i = j
        BY DEF Distinct
      <4>1. evq[i] \in Careful
        BY <2>1
      <4> QED BY <4>1 DEF CarefulInv, Once
    <3>4. Len(evq) < Cardinality(Callout)
      BY <2>1, <3>2, <3>3, DistinctIsShort
    <3>5. Cardinality(Callout) \in Nat
      BY FS_CardinalityType
    <3> QED BY <2>1, <3>4, <3>5
  <2>4. ASSUME \/ \E c \in Callout : Stop(c)
               \/ Schedule \/ Activate \/ Serve \/ Interrupt \/ Expired \/ Tick
               \/ UNCHANGED vars
        PROVE  ~panic'
    BY <2>4 DEF Stop, Schedule, Activate, Serve, Interrupt, Expired, Tick, vars
  <2> QED BY <2>2, <2>3, <2>4 DEF Next, ResetStep, DriverStep
<1> QED BY <1>1, <1>2, <1>3, WInit, CInit, PTL DEF Spec
================================================================================
