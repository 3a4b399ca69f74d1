--------------------------------- MODULE Callout ---------------------------------
(***************************************************************************)
(* Callouts of the embassy port layer: ble_npl_callout_reset and _stop,    *)
(* called by the thread, and callout_cb, which embassy's time driver calls *)
(* when a wake is due.                                                     *)
(*                                                                         *)
(* The time driver is not in this repository.  What is used of it: its     *)
(* queue has one entry for each waker; scheduling a waker that has an      *)
(* entry keeps the earlier of the two times; an entry that is due is       *)
(* removed and woken by the timer interrupt, or by schedule_wake itself    *)
(* if it has changed the queue.                                            *)
(***************************************************************************)
EXTENDS NplTime, Sequences, FiniteSets

CONSTANTS
  Callout,         \* the callouts, each with its event
  Careful,         \* those whose users reset them with care (see MayReset)
  Ticks,           \* the delays callouts are reset to
  Cap,             \* capacity of the event queue (16)
  OverflowChecks,  \* are arithmetic overflows checked (a debug build)?
  MaxTime          \* bound on the clock

ASSUME ConstantsAssumption ==
  /\ Careful \subseteq Callout
  /\ Ticks \subseteq 0..(Mod - 1)
  /\ Cap \in Nat \ {0}
  /\ OverflowChecks \in BOOLEAN
  /\ MaxTime \in Nat

VARIABLES
  now,       \* the time driver's tick count
  active,    \* the callouts' `active`
  expires,   \* their `expires_at`
  wakes,     \* their entries in the time driver's queue
  expiring,  \* is the time driver waking what is due?
  evq,       \* the event queue
  pc,        \* where the thread is in ble_npl_callout_reset
  cur,       \* the callout it resets
  panic,     \* has the program panicked?
  due,       \* history: when the last reset meant the callout to expire
  past       \* history: is the entry older than the last reset, and did the
             \* callout's wake come while it was being reset?

code    == <<active, expires, pc, cur>>
history == <<due, past>>
vars    == <<now, code, wakes, expiring, evq, panic, history>>

NoWake == -1

Queue == INSTANCE EventFifo WITH Event <- Callout, q <- evq

\* ble_npl_callout_init has been called for every callout.
Init ==
  /\ now = 0
  /\ active = [c \in Callout |-> FALSE]
  /\ expires = [c \in Callout |-> 0]
  /\ wakes = [c \in Callout |-> NoWake]
  /\ expiring = FALSE
  /\ Queue!Init
  /\ pc = "idle" /\ cur \in Callout
  /\ panic = FALSE
  /\ due = [c \in Callout |-> 0]
  /\ past = [c \in Callout |-> [kept |-> FALSE, woken |-> FALSE]]

Queued(c) == \E i \in 1..Len(evq) : evq[i] = c

Resetting(c) == pc # "idle" /\ cur = c

\* The thread has the processor.
ThreadIdle == pc = "idle" /\ ~expiring
--------------------------------------------------------------------------------
(***************************************************************************)
(* ble_npl_callout_reset, in three steps between which interrupts come and *)
(* the clock goes on.                                                      *)
(***************************************************************************)
\* A careful user resets a callout only when nothing is left of its last use,
\* to a time ahead of now and within 32 bits.
MayReset(c, t) ==
  /\ now + t <= MaxTime
  /\ c \in Careful =>
       /\ ~active[c] /\ wakes[c] = NoWake /\ ~Queued(c)
       /\ t > 0 /\ now + t < Mod

\* Mutated: one tick short.
ResetShort(c, t) ==
  /\ ThreadIdle
  /\ MayReset(c, t)
  /\ expires' = [expires EXCEPT ![c] = Low(Low(now) + (IF t = 0 THEN 0 ELSE t - 1))]
  /\ pc' = "schedule" /\ cur' = c
  /\ due' = [due EXCEPT ![c] = now + t]
  /\ past' = [past EXCEPT ![c] = [kept |-> wakes[c] # NoWake, woken |-> FALSE]]
  /\ UNCHANGED <<now, active, wakes, expiring, evq, panic>>

\* Mutated: the expiry keeps the 64 bits of the clock.
ResetWide(c, t) ==
  /\ ThreadIdle
  /\ MayReset(c, t)
  /\ expires' = [expires EXCEPT ![c] = now + t]
  /\ pc' = "schedule" /\ cur' = c
  /\ due' = [due EXCEPT ![c] = now + t]
  /\ past' = [past EXCEPT ![c] = [kept |-> wakes[c] # NoWake, woken |-> FALSE]]
  /\ UNCHANGED <<now, active, wakes, expiring, evq, panic>>

\* The sum wraps, unless the build checks arithmetic.
Reset(c, t) ==
  /\ ThreadIdle
  /\ MayReset(c, t)
  /\ expires' = [expires EXCEPT ![c] = Low(Low(now) + t)]
  /\ panic' = (OverflowChecks /\ Low(now) + t >= Mod)
  /\ pc' = "schedule" /\ cur' = c
  /\ due' = [due EXCEPT ![c] = now + t]
  /\ past' = [past EXCEPT ![c] = [kept |-> wakes[c] # NoWake, woken |-> FALSE]]
  /\ UNCHANGED <<now, active, wakes, expiring, evq>>

\* Mutated: an entry that exists stays as it is.
ScheduleOnce ==
  /\ pc = "schedule" /\ ~expiring
  /\ pc' = "activate"
  /\ IF wakes[cur] = NoWake
       THEN /\ wakes' = [wakes EXCEPT ![cur] = expires[cur]]
            /\ past' = [past EXCEPT ![cur].kept = FALSE]
            /\ expiring' = TRUE
       ELSE UNCHANGED <<wakes, past, expiring>>
  /\ UNCHANGED <<now, active, expires, cur, evq, panic, due>>

\* schedule_wake, with expires_at taken for a time of 64 bits.
Schedule ==
  /\ pc = "schedule" /\ ~expiring
  /\ pc' = "activate"
  /\ IF wakes[cur] = NoWake \/ wakes[cur] > expires[cur]
       THEN /\ wakes' = [wakes EXCEPT ![cur] = expires[cur]]
            /\ past' = [past EXCEPT ![cur].kept = FALSE]
            /\ expiring' = TRUE
       ELSE UNCHANGED <<wakes, past, expiring>>
  /\ UNCHANGED <<now, active, expires, cur, evq, panic, due>>

Activate ==
  /\ pc = "activate" /\ ~expiring
  /\ active' = [active EXCEPT ![cur] = TRUE]
  /\ pc' = "idle"
  /\ UNCHANGED <<now, expires, wakes, expiring, evq, cur, panic, history>>

Stop(c) ==
  /\ ThreadIdle
  /\ active' = [active EXCEPT ![c] = FALSE]
  /\ UNCHANGED <<now, expires, wakes, expiring, evq, pc, cur, panic, history>>

\* The thread's ble_npl_eventq_get takes the oldest event.
Serve ==
  /\ ThreadIdle
  /\ Queue!Get
  /\ UNCHANGED <<now, code, wakes, expiring, panic, history>>
--------------------------------------------------------------------------------
(***************************************************************************)
(* The time driver.                                                        *)
(***************************************************************************)
IsDue(c) == wakes[c] # NoWake /\ wakes[c] <= now

\* A reset of a careful callout takes less time than the delay it sets.
Prompt == pc # "idle" /\ cur \in Careful => now + 1 < due[cur]

Tick ==
  /\ now < MaxTime
  /\ Prompt
  /\ now' = now + 1
  /\ UNCHANGED <<code, wakes, expiring, evq, panic, history>>

\* The timer interrupt is taken, maybe late.
Interrupt ==
  /\ ~expiring
  /\ \E c \in Callout : IsDue(c)
  /\ expiring' = TRUE
  /\ UNCHANGED <<now, code, wakes, evq, panic, history>>

\* Mutated: the callback does not ask whether the callout is active.
callout_cb_always(c) ==
  /\ \/ Queue!Put(c) /\ UNCHANGED panic
     \/ Len(evq) >= Cap /\ panic' = TRUE /\ UNCHANGED evq
  /\ active' = [active EXCEPT ![c] = FALSE]

\* Mutated: it does not reset `active`.
callout_cb_keeps(c) ==
  /\ \/ active[c] /\ Queue!Put(c) /\ UNCHANGED panic
     \/ active[c] /\ Len(evq) >= Cap /\ panic' = TRUE /\ UNCHANGED evq
     \/ ~active[c] /\ UNCHANGED <<evq, panic>>
  /\ UNCHANGED active

\* The put does not test whether the event is queued already.
callout_cb(c) ==
  /\ \/ active[c] /\ Queue!Put(c) /\ UNCHANGED panic
     \/ active[c] /\ Len(evq) >= Cap /\ panic' = TRUE /\ UNCHANGED evq
     \/ ~active[c] /\ UNCHANGED <<evq, panic>>
  /\ active' = [active EXCEPT ![c] = FALSE]

Wake(c) ==
  /\ expiring
  /\ IsDue(c)
  /\ wakes' = [wakes EXCEPT ![c] = NoWake]
  /\ callout_cb(c)
  /\ past' = [past EXCEPT ![c].woken = @ \/ Resetting(c)]
  /\ UNCHANGED <<now, expires, expiring, pc, cur, due>>

Expired ==
  /\ expiring
  /\ \A c \in Callout : ~IsDue(c)
  /\ expiring' = FALSE
  /\ UNCHANGED <<now, code, wakes, evq, panic, history>>
--------------------------------------------------------------------------------
ResetStep == Schedule \/ Activate

DriverStep == Interrupt \/ Expired \/ \E c \in Callout : Wake(c)

\* A panic halts the system.
Next ==
  /\ ~panic
  /\ \/ \E c \in Callout : Stop(c) \/ \E t \in Ticks : Reset(c, t)
     \/ ResetStep \/ Serve
     \/ DriverStep \/ Tick

Spec == Init /\ [][Next]_vars

(***************************************************************************)
(* The clock goes on, the timer interrupt is taken and its handler ends;   *)
(* the thread finishes a reset although interrupts hold it up.  Nothing is *)
(* assumed of the users of callouts or of the task that serves the queue.  *)
(***************************************************************************)
Fairness ==
  /\ WF_vars(~panic /\ Tick)
  /\ WF_vars(~panic /\ DriverStep)
  /\ SF_vars(~panic /\ ResetStep)

FairSpec == Spec /\ Fairness
--------------------------------------------------------------------------------
TypeOK ==
  /\ now \in 0..MaxTime
  /\ active \in [Callout -> BOOLEAN]
  /\ expires \in [Callout -> 0..(Mod - 1)]
  /\ wakes \in [Callout -> 0..(Mod - 1) \cup {NoWake}]
  /\ expiring \in BOOLEAN
  /\ evq \in Seq(Callout) /\ Len(evq) <= Cap
  /\ pc \in {"idle", "schedule", "activate"}
  /\ cur \in Callout
  /\ panic \in BOOLEAN
  /\ due \in [Callout -> 0..MaxTime]
  /\ past \in [Callout -> [kept : BOOLEAN, woken : BOOLEAN]]

\* Whatever its users do, the wake that an armed callout waits for is never
\* later than its last reset asked for: restarting a callout cannot delay it
\* (embassy.rs:300-304).
NeverLate ==
  \A c \in Callout :
    active[c] /\ ~Resetting(c) /\ wakes[c] # NoWake => wakes[c] <= due[c]

\* A callout that is active with no wake to come has got that way in reset, by
\* a wake that came before reset set `active` (embassy.rs:301-305): nothing
\* else strands a callout.
StrandedOnlyInReset ==
  \A c \in Callout :
    active[c] /\ wakes[c] = NoWake /\ ~Resetting(c) => past[c].woken

\* Once the expiry of a reset does not fit 32 bits, that is for every reset
\* after 2^32 ticks, the wake is due at once: what a caller armed for later is
\* woken now or, if it was not active before, never (embassy.rs:300-305).
WrapLosesDelay ==
  \A c \in Callout :
    active[c] /\ ~Resetting(c) /\ due[c] >= Mod => wakes[c] = NoWake \/ IsDue(c)

\* A callout's event is put before its time only by an entry that is older than
\* its last reset, left by a stop or kept because it was earlier, or after its
\* expiry has wrapped (embassy.rs:301-304, 312, 342).
EarlyOnlyIfOlder ==
  [][\A c \in Callout :
       Len(evq') > Len(evq) /\ evq'[Len(evq')] = c =>
         now >= due[c] \/ past[c].kept \/ due[c] >= Mod]_vars

\* A careful callout as its users see it.
PhaseOf(c) ==
  CASE Queued(c) -> "expired"
    [] ~Queued(c) /\ (active[c] \/ Resetting(c)) -> "armed"
    [] OTHER -> "idle"

OneShot == INSTANCE OneShotTimer WITH
  Timer <- Careful,
  at <- [c \in Careful |-> due[c]],
  phase <- [c \in Careful |-> PhaseOf(c)]

\* For users that take care, a callout is a one-shot timer, whatever others do
\* with theirs on the same timer queue and event queue (embassy.rs:295-347).
ImplementsOneShot == OneShot!Spec

\* A careful callout that is armed is stopped or expires, unless the program
\* panics (embassy.rs:339-347).
Expires == \A c \in Careful : active[c] ~> ~active[c] \/ panic
================================================================================
