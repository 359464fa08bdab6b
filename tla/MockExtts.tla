----------------------------- MODULE MockExtts -----------------------------
(***************************************************************************)
(* The simulated 1PPS input of the mock PHC, ptp/ptp_mock.c: a high        *)
(* resolution timer that emits one external time stamp event per TAI       *)
(* second, extts_delay_ms after the second's edge; enabling and disabling  *)
(* it; changing the delay; and tearing it down.                            *)
(*                                                                         *)
(* Time is TAI in ticks and never stepped.  The timer callback takes no    *)
(* time but runs up to MaxLatency late; other threads may run between its  *)
(* steps when Preempt is TRUE.  The PHC keeps the rate of TAI, off ahead.  *)
(***************************************************************************)
EXTENDS Naturals, Integers

CONSTANTS
  Sec,         \* ticks per second (NSEC_PER_SEC)
  IdlePoll,    \* EXTTS_IDLE_POLL_NS
  Slack,       \* EXTTS_EDGE_SLACK_NS
  MaxDelay,    \* EXTTS_MAX_DELAY_MS
  MaxLatency,  \* how late the timer callback may run
  Offsets,     \* PHC times, relative to TAI, that settime and adjtime set
  Preempt,     \* whether other threads run between the callback's steps
  MaxTime,     \* bound: ticks
  MaxStores,   \* bound: writes to extts_delay_ms between two events, while enabled
  MaxEnables   \* bound: requests to enable events

ASSUME MockExttsAssumption ==
  /\ {Sec, IdlePoll, Slack} \subseteq Nat \ {0}
  /\ {MaxDelay, MaxLatency, MaxTime, MaxStores, MaxEnables} \subseteq Nat
  /\ Offsets \subseteq Int /\ Preempt \in BOOLEAN

VARIABLES
  now, off,
  enabled, last_extts_sec, delay,   \* the fields of struct mock_phc
  expires, armed,                   \* the timer: its expiry, whether it is queued
  cb,        \* the callback: where it is and what it has read
  event,     \* the last event: its second, its time stamp, the delay it used
  since,     \* when events were last enabled
  phase,     \* registered, and the progress of mock_phc_destroy
  stores, enables,
  raced      \* events were enabled while the callback was past its tests

vars == <<now, off, enabled, last_extts_sec, delay, expires, armed, cb, event, since, phase,
          stores, enables, raced>>

SecOf(t) == t \div Sec
Late(t)  == t - SecOf(t) * Sec

\* hrtimer_forward_now (external): the first expiry after now, in steps of
\* interval from the old one; without effect on a timer that is queued.
Forward(interval) ==
  IF armed THEN UNCHANGED <<expires, armed>>
  ELSE /\ expires' = expires + interval * ((now - expires) \div interval + 1)
       /\ armed' = TRUE

IdleCb == [pc |-> "idle", delay |-> 0, sec |-> 0, late |-> 0]

\* Other threads run now.
MayRun == Preempt \/ cb.pc = "idle"

-----------------------------------------------------------------------------
(* Time. *)

Tick ==
  /\ now < MaxTime /\ cb.pc = "idle"
  /\ armed => now < expires + MaxLatency
  /\ now' = now + 1
  /\ UNCHANGED <<off, enabled, last_extts_sec, delay, expires, armed, cb, event, since, phase,
                 stores, enables, raced>>

-----------------------------------------------------------------------------
(* mock_phc_extts_timer. *)

\* The callback is called; when events are disabled it only polls.
TimerStart ==
  /\ armed /\ now >= expires /\ cb.pc = "idle"
  /\ IF enabled
     THEN /\ cb' = [IdleCb EXCEPT !.pc = "check", !.delay = delay]
          /\ armed' = FALSE /\ UNCHANGED expires
     ELSE /\ expires' = expires + IdlePoll * ((now - expires) \div IdlePoll + 1)
          /\ UNCHANGED <<armed, cb>>
  /\ UNCHANGED <<now, off, enabled, last_extts_sec, delay, event, since, phase, stores, enables, raced>>

NextEdge(late, d) == (Sec - late) + d + Slack

TimerCheck ==
  LET sec  == SecOf(now)
      late == Late(now)
  IN
  /\ cb.pc = "check"
  /\ \/ /\ sec # last_extts_sec /\ late < cb.delay
        /\ cb' = IdleCb
        /\ Forward(cb.delay - late)
     \/ /\ sec # last_extts_sec /\ late >= cb.delay
        /\ cb' = [cb EXCEPT !.pc = "emit", !.sec = sec, !.late = late]
        /\ UNCHANGED <<expires, armed>>
     \/ /\ sec = last_extts_sec
        /\ cb' = IdleCb
        /\ Forward(NextEdge(late, cb.delay))
  /\ UNCHANGED <<now, off, enabled, last_extts_sec, delay, event, since, phase, stores, enables, raced>>

\* Mutant: the time stamp keeps the lateness of the timer.
TimerEmitUncorrected ==
  /\ cb.pc = "emit"
  /\ last_extts_sec' = cb.sec
  /\ event' = [sec |-> cb.sec, ts |-> now + off, delay |-> cb.delay, off |-> off]
  /\ cb' = IdleCb
  /\ Forward(NextEdge(cb.late, cb.delay))
  /\ raced' = FALSE /\ stores' = 0
  /\ UNCHANGED <<now, off, enabled, delay, since, phase, enables>>

\* The event's time stamp is the PHC's time less what the timer was late.
TimerEmit ==
  /\ cb.pc = "emit"
  /\ last_extts_sec' = cb.sec
  /\ event' = [sec |-> cb.sec, ts |-> now + off - (cb.late - cb.delay),
               delay |-> cb.delay, off |-> off]
  /\ cb' = IdleCb
  /\ Forward(NextEdge(cb.late, cb.delay))
  /\ raced' = FALSE /\ stores' = 0
  /\ UNCHANGED <<now, off, enabled, delay, since, phase, enables>>

-----------------------------------------------------------------------------
(* mock_phc_enable, extts_delay_ms_store, mock_phc_settime64 and adjtime. *)

\* Mutant: the current second is not skipped.
EnableKeepsSecond ==
  /\ phase # "gone" /\ MayRun /\ enables < MaxEnables
  /\ off' = 0
  /\ enabled' = TRUE
  /\ since' = now
  /\ enables' = enables + 1 /\ stores' = 0
  /\ raced' = (cb.pc = "emit")
  /\ UNCHANGED <<now, last_extts_sec, delay, expires, armed, cb, event, phase>>

\* The PHC is parked at TAI, and the current second gets no event.
Enable ==
  /\ phase # "gone" /\ MayRun /\ enables < MaxEnables
  /\ off' = 0
  /\ last_extts_sec' = SecOf(now)
  /\ enabled' = TRUE
  /\ since' = now
  /\ enables' = enables + 1 /\ stores' = 0
  /\ raced' = (cb.pc = "emit")
  /\ UNCHANGED <<now, delay, expires, armed, cb, event, phase>>

Disable ==
  /\ phase # "gone" /\ MayRun /\ enabled
  /\ enabled' = FALSE
  /\ UNCHANGED <<now, off, last_extts_sec, delay, expires, armed, cb, event, since, phase,
                 stores, enables, raced>>

\* Mutant: the range is not checked.
DelayStoreUnchecked(d) ==
  /\ phase = "live" /\ MayRun
  /\ delay' = d + Sec - MaxDelay
  /\ IF enabled
       THEN stores < MaxStores /\ stores' = stores + 1 /\ expires' = now + Slack /\ armed' = TRUE
       ELSE UNCHANGED <<stores, expires, armed>>
  /\ UNCHANGED <<now, off, enabled, last_extts_sec, cb, event, since, phase, enables, raced>>

\* A changed delay is looked at promptly (hrtimer_start).
DelayStore(d) ==
  /\ phase = "live" /\ MayRun
  /\ delay' = d
  /\ IF enabled
       THEN stores < MaxStores /\ stores' = stores + 1 /\ expires' = now + Slack /\ armed' = TRUE
       ELSE UNCHANGED <<stores, expires, armed>>
  /\ UNCHANGED <<now, off, enabled, last_extts_sec, cb, event, since, phase, enables, raced>>

SetOffset(o) ==
  /\ phase # "gone" /\ MayRun
  /\ off' = o
  /\ UNCHANGED <<now, enabled, last_extts_sec, delay, expires, armed, cb, event, since, phase,
                 stores, enables, raced>>

-----------------------------------------------------------------------------
(* mock_phc_destroy. *)

DestroySysfs ==
  /\ phase = "live" /\ MayRun
  /\ phase' = "nosysfs"
  /\ UNCHANGED <<now, off, enabled, last_extts_sec, delay, expires, armed, cb, event, since,
                 stores, enables, raced>>

\* Mutant: a callback that is running is not waited for.
DestroyCancelNoWait ==
  /\ phase = "nosysfs"
  /\ armed' = FALSE
  /\ phase' = "cancelled"
  /\ UNCHANGED <<now, off, enabled, last_extts_sec, delay, expires, cb, event, since, stores,
                 enables, raced>>

\* hrtimer_cancel waits for the callback.
DestroyCancel ==
  /\ phase = "nosysfs" /\ cb.pc = "idle"
  /\ armed' = FALSE
  /\ phase' = "cancelled"
  /\ UNCHANGED <<now, off, enabled, last_extts_sec, delay, expires, cb, event, since, stores,
                 enables, raced>>

\* ptp_clock_unregister and kfree.
DestroyFree ==
  /\ phase = "cancelled" /\ MayRun
  /\ phase' = "gone"
  /\ UNCHANGED <<now, off, enabled, last_extts_sec, delay, expires, armed, cb, event, since,
                 stores, enables, raced>>

-----------------------------------------------------------------------------
\* mock_phc_create at time 0; the second before is the one without event.
Init ==
  /\ now = Sec /\ off = 0
  /\ enabled = FALSE /\ last_extts_sec = 0 /\ delay = 0
  /\ expires = Sec + IdlePoll /\ armed = TRUE
  /\ cb = IdleCb
  /\ event = [sec |-> 0, ts |-> 0, delay |-> 0, off |-> 0]
  /\ since = Sec
  /\ phase = "live"
  /\ stores = 0 /\ enables = 0 /\ raced = FALSE

\* Everything but the requests to enable and disable.
Others ==
  \/ Tick \/ TimerStart \/ TimerCheck \/ TimerEmit
  \/ \E d \in 0..MaxDelay : DelayStore(d)
  \/ \E o \in Offsets : SetOffset(o)
  \/ DestroySysfs \/ DestroyCancel \/ DestroyFree

Next == Enable \/ Disable \/ Others

Spec == Init /\ [][Next]_vars

-----------------------------------------------------------------------------
(* Properties. *)

\* No second is skipped: while events stay enabled, each second that has begun
\* after they were enabled has its event before it ends, whatever the delay, the
\* timer's latency and a change of the delay ("keep events within the TAI
\* second").
NoSecondMissed ==
  \A k \in 1..(SecOf(now) - 1) :
    (enabled /\ phase = "live" /\ since < k * Sec) => event.sec >= k

\* The time stamp is the PHC's time at the delayed edge, not at the moment the
\* timer ran: its distance from the second's edge is the delay (README: "keeping
\* the event timestamp aligned to the configured delayed edge").
StampOnDelayedEdge == event.ts = event.sec * Sec + event.delay + event.off

\* "Avoid a spurious edge for the current TAI second" (mock_phc_enable): no
\* event, after events were enabled, for the second in which that happened,
\* unless the callback had passed its tests already when they were enabled.
NoSpuriousEdge == [][event' # event => event'.sec > SecOf(since) \/ raced]_vars

\* When the PHC is freed its timer is neither queued nor running.
QuietWhenFreed == phase = "gone" => ~armed /\ cb.pc = "idle"
=============================================================================
