-------------------------- MODULE PtpClocksProofs ---------------------------
(***************************************************************************)
(* The 1PPS input of the mock PHC (MockExtts, MockPins), for any lengths of *)
(* time that fit in a second as the code's constants do: no second is      *)
(* missed, none gets an event that should not, the time stamp is that of the *)
(* delayed edge, the timer is quiet when the PHC is freed, and the input   *)
(* stays on the pin it was enabled on, also when the sysfs attribute enables *)
(* it between the steps of a pin request.  Virtual clocks (PtpVclocks), for *)
(* any number of them and of threads that set the clock: as long as no write *)
(* of n_vclocks has failed half way, the index array lists the virtual     *)
(* clocks in order, and, as long as none has overlapped with the           *)
(* unregistration either, none outlives its physical clock.                *)
(***************************************************************************)
EXTENDS MockPins, PtpVclocks, FiniteSetTheorems, SequenceTheorems, WellFoundedInduction,
        TLAPS

(* The 1PPS input, ptp_mock.c and ptp_chardev.c. *)

USE MockExttsAssumption DEF MockExttsAssumption

(***************************************************************************)
(* The inductive invariant.                                                *)
(***************************************************************************)

CbStates == [pc : {"idle", "check", "emit"}, delay : Nat, sec : Nat, late : Nat]

TypeOK ==
  /\ now \in Nat /\ off \in Int /\ expires \in Int /\ since \in Nat
  /\ last_extts_sec \in Nat /\ delay \in 0..MaxDelay /\ stores \in 0..MaxStores
  /\ cb \in CbStates /\ cb.delay <= MaxDelay

\* What the callback has read is still so: no time passes while it runs.
CbOK == cb.pc = "emit" => /\ cb.sec = SecOf(now) /\ cb.late = Late(now) /\ cb.delay <= cb.late
                          /\ raced \/ SecOf(since) < cb.sec

\* hrtimer_cancel is the end of the timer.
QuietInv == phase \in {"cancelled", "gone"} => ~armed /\ cb.pc = "idle"

\* The second of the last event, or of enabling, is none to come.
SinceInv ==
  /\ since <= now
  /\ last_extts_sec <= SecOf(now)
  /\ enabled \/ cb.pc # "idle" => SecOf(since) <= last_extts_sec

EdgeInv == TypeOK /\ CbOK /\ QuietInv /\ SinceInv /\ StampOnDelayedEdge

\* The edge of a second, and how far behind it the timer expires after n writes of
\* the delay, each of which may have come when the timer was about to run.
Edge(k) == k * Sec

Grace(n) == MaxDelay + Slack + n * (Slack + MaxLatency)

(***************************************************************************)
(* The lengths of time fit: the largest delay, the slack and, for every    *)
(* write of the delay between two events, the slack and the latency once   *)
(* more are less than a second.  With the code's 900 ms, 1 ms and 100 ms   *)
(* and a timer at most 1 ms late that allows 48 writes.  A write starts    *)
(* the timer anew, so that too many of them make it miss a second.         *)
(***************************************************************************)
Timely ==
  /\ Grace(MaxStores) + MaxLatency < Sec
  /\ IdlePoll <= MaxDelay + Slack

\* The timer is queued while nobody runs it, never more than MaxLatency overdue,
\* and expires soon enough after the next edge.
TimerInv ==
  /\ phase = "live" /\ cb.pc = "idle" => armed
  /\ armed => now <= expires + MaxLatency /\ expires <= Edge(SecOf(now) + 1) + Grace(0)
  /\ ~armed /\ cb.pc # "idle" => expires <= now

\* While events are enabled, the timer expires in time for the second after the last one.
DeadlineInv ==
  enabled /\ phase = "live" =>
    /\ now <= Edge(last_extts_sec + 1) + Grace(stores) + MaxLatency
    /\ armed => expires <= Edge(last_extts_sec + 1) + Grace(stores)
    /\ last_extts_sec > SecOf(since) => event.sec = last_extts_sec

SecondInv == EdgeInv /\ TimerInv /\ DeadlineInv

-----------------------------------------------------------------------------
(* Seconds. *)

\* Products, one at a time.
LEMMA Products ==
  /\ \A k \in Nat : Edge(k) \in Nat /\ Edge(k + 1) = Edge(k) + Sec
  /\ \A j, k \in Nat : j <= k => Edge(j) <= Edge(k)
  /\ \A j, k \in Nat : j < k => Edge(j) + Sec <= Edge(k)
<1>1. ASSUME NEW k \in Nat PROVE Edge(k) \in Nat /\ Edge(k + 1) = Edge(k) + Sec
  BY DEF Edge
<1>2. ASSUME NEW j \in Nat, NEW k \in Nat, j <= k PROVE Edge(j) <= Edge(k)
  <2>1. (k - j) * Sec >= 0 /\ k * Sec = j * Sec + (k - j) * Sec
    BY <1>2
  <2> QED
    BY <2>1 DEF Edge
<1>3. ASSUME NEW j \in Nat, NEW k \in Nat, j < k PROVE Edge(j) + Sec <= Edge(k)
  <2>1. j + 1 \in Nat /\ j + 1 <= k
    BY <1>3
  <2> QED
    BY <1>1, <1>2, <2>1
<1> QED
  BY <1>1, <1>2, <1>3

\* A time lies in its second.
LEMMA InSecond ==
  ASSUME NEW t \in Nat
  PROVE  /\ SecOf(t) \in Nat /\ Late(t) \in Nat /\ Late(t) < Sec
         /\ t = Edge(SecOf(t)) + Late(t)
<1>1. SecOf(t) \in Int /\ t = SecOf(t) * Sec + (t % Sec) /\ t % Sec \in 0..(Sec - 1)
  BY DEF SecOf
<1>2. SecOf(t) \in Nat
  <2> DEFINE q == SecOf(t)
  <2> HIDE DEF q
  <2>1. ASSUME q < 0 PROVE FALSE
    <3>1. q \in Int /\ -q - 1 \in Nat
      BY <1>1, <2>1 DEF q
    <3>2. (-q - 1) * Sec >= 0
      BY <3>1
    <3>3. (-q - 1) * Sec = -(q * Sec) - Sec
      BY <3>1
    <3> QED
      BY <1>1, <3>1, <3>2, <3>3 DEF q
  <2> QED
    BY <1>1, <2>1 DEF q
<1> QED
  BY <1>1, <1>2 DEF Late, Edge

\* Which second a time lies in.
LEMMA SecondOf ==
  ASSUME NEW t \in Nat, NEW k \in Nat
  PROVE  /\ t < Edge(k) <=> SecOf(t) < k
         /\ Edge(k) <= t /\ t < Edge(k) + Sec => SecOf(t) = k
<1>0. SecOf(t) \in Nat
  BY InSecond
<1>2. Edge(k) \in Nat /\ Edge(SecOf(t)) \in Nat
  BY <1>0, Products
<1>1. SecOf(t) \in Nat /\ Edge(SecOf(t)) <= t /\ t < Edge(SecOf(t)) + Sec
  BY <1>2, InSecond
<1>3. SecOf(t) < k => Edge(SecOf(t)) + Sec <= Edge(k)
  BY <1>1, Products
<1>4. k < SecOf(t) => Edge(k) + Sec <= Edge(SecOf(t))
  BY <1>1, Products
<1>5. k = SecOf(t) => Edge(k) = Edge(SecOf(t))
  OBVIOUS
<1> HIDE DEF Edge, SecOf
<1> QED
  BY <1>1, <1>2, <1>3, <1>4, <1>5

\* A later time lies in no earlier second.
LEMMA LaterSecond ==
  ASSUME NEW s \in Nat, NEW t \in Nat, s <= t
  PROVE  SecOf(s) <= SecOf(t)
<1>1. SecOf(s) \in Nat /\ SecOf(t) \in Nat /\ Edge(SecOf(s)) \in Nat
  BY InSecond, Products
<1>2. ~(t < Edge(SecOf(s)))
  <2>1. Edge(SecOf(s)) <= s
    BY <1>1, InSecond
  <2> QED
    BY <1>1, <2>1
<1> QED
  BY <1>1, <1>2, SecondOf

\* hrtimer_forward_now: after now, by no more than the interval.
LEMMA Forwarded ==
  ASSUME NEW e \in Int, NEW t \in Nat, e <= t, NEW i \in Nat, i > 0
  PROVE  LET n == e + i * ((t - e) \div i + 1)
         IN  n \in Int /\ t < n /\ n <= t + i
<1> DEFINE q == (t - e) \div i
           p == i * q
<1>1. q \in Nat /\ t - e = p + ((t - e) % i) /\ (t - e) % i \in 0..(i - 1)
  OBVIOUS
<1>2. p \in Nat /\ i * (q + 1) = p + i
  BY <1>1
<1> HIDE DEF q, p
<1>3. e + i * (q + 1) = e + p + i
  BY <1>2
<1>4. e + p + i \in Int /\ t < e + p + i /\ e + p + i <= t + i
  BY <1>1, <1>2
<1> QED
  BY <1>3, <1>4 DEF q

-----------------------------------------------------------------------------
(* The callback and its time stamps. *)

\* One step of the callback moves the timer, or leaves it where a write put it.
LEMMA ForwardIs ==
  ASSUME TypeOK, NEW i \in Nat, i > 0, Forward(i)
  PROVE  /\ armed' /\ expires' \in Int
         /\ armed => expires' = expires
         /\ ~armed /\ expires <= now => now < expires' /\ expires' <= now + i
<1>1. expires \in Int /\ now \in Nat
  BY DEF TypeOK
<1>2. CASE armed
  BY <1>1, <1>2 DEF Forward
<1>3. CASE ~armed
  <2>1. armed' /\ expires' = expires + i * ((now - expires) \div i + 1)
    BY <1>3 DEF Forward
  <2>2. expires' \in Int
    BY <1>1, <2>1
  <2> QED
    BY <1>1, <1>3, <2>1, <2>2, Forwarded
<1> QED
  BY <1>2, <1>3

\* The intervals the callback forwards its timer by.
LEMMA Intervals ==
  ASSUME TypeOK
  PROVE  /\ SecOf(now) \in Nat /\ Late(now) \in Nat /\ Late(now) < Sec
         /\ now = Edge(SecOf(now)) + Late(now)
         /\ Late(now) < cb.delay => cb.delay - Late(now) \in Nat /\ cb.delay - Late(now) > 0
         /\ NextEdge(Late(now), cb.delay) \in Nat /\ NextEdge(Late(now), cb.delay) > 0
<1>1. cb.delay \in Nat /\ now \in Nat
  BY DEF TypeOK, CbStates
<1> QED
  BY <1>1, InSecond DEF NextEdge

\* What the callback's first step may do.
LEMMA Check ==
  ASSUME TypeOK, TimerCheck
  PROVE  /\ cb.pc = "check"
         /\ UNCHANGED <<now, off, enabled, last_extts_sec, delay, event, since, phase, stores, raced>>
         /\ \/ /\ SecOf(now) # last_extts_sec /\ Late(now) < cb.delay
               /\ cb' = IdleCb /\ Forward(cb.delay - Late(now))
            \/ /\ SecOf(now) # last_extts_sec /\ Late(now) >= cb.delay
               /\ cb' \in CbStates /\ cb'.pc = "emit" /\ cb'.delay = cb.delay
               /\ cb'.sec = SecOf(now) /\ cb'.late = Late(now)
               /\ UNCHANGED <<expires, armed>>
            \/ /\ SecOf(now) = last_extts_sec
               /\ cb' = IdleCb /\ Forward(NextEdge(Late(now), cb.delay))
<1>1. cb \in CbStates /\ SecOf(now) \in Nat /\ Late(now) \in Nat
  BY Intervals DEF TypeOK
<1> HIDE DEF SecOf, Late
<1> QED
  BY <1>1 DEF TimerCheck, CbStates

\* Every step keeps the types.
LEMMA TypeStep ==
  ASSUME TypeOK, CbOK, [Next]_vars
  PROVE  TypeOK'
<1>0. IdleCb \in CbStates /\ IdleCb.delay = 0 /\ IdleCb.pc = "idle"
  BY DEF IdleCb, CbStates
<1>1. CASE TimerStart
  <2>1. CASE enabled
    <3>1. delay \in Nat /\ delay <= MaxDelay
      BY DEF TypeOK
    <3>2. cb' = [[IdleCb EXCEPT !.pc = "check"] EXCEPT !.delay = delay]
      BY <1>1, <2>1 DEF TimerStart
    <3>3. cb' \in CbStates /\ cb'.delay = delay
      BY <1>0, <3>1, <3>2 DEF CbStates
    <3> QED
      BY <1>1, <2>1, <3>1, <3>3 DEF TimerStart, TypeOK
  <2>2. CASE ~enabled
    BY <1>1, <2>2 DEF TimerStart, TypeOK
  <2> QED
    BY <2>1, <2>2
<1>2. CASE TimerCheck
  <2>1. expires' \in Int
    BY <1>2, Check, Intervals, ForwardIs DEF TypeOK
  <2>2. cb' \in CbStates /\ cb'.delay <= MaxDelay
    BY <1>0, <1>2, Check DEF TypeOK
  <2> QED
    BY <1>2, <2>1, <2>2, Check DEF TypeOK
<1>3. CASE TimerEmit
  <2>1. Forward(NextEdge(Late(now), cb.delay))
    BY <1>3 DEF TimerEmit, CbOK
  <2>2. expires' \in Int
    BY <2>1, Intervals, ForwardIs
  <2>3. last_extts_sec' \in Nat
    BY <1>3 DEF TimerEmit, TypeOK, CbStates
  <2> QED
    BY <1>0, <1>3, <2>2, <2>3 DEF TimerEmit, TypeOK
<1>4. ASSUME NEW d \in 0..MaxDelay, DelayStore(d) PROVE TypeOK'
  BY <1>4 DEF DelayStore, TypeOK
<1>5. CASE Enable
  BY <1>5, Intervals DEF Enable, TypeOK
<1>6. CASE Tick \/ Disable \/ DestroySysfs \/ DestroyCancel \/ DestroyFree \/ UNCHANGED vars
  BY <1>6 DEF Tick, Disable, DestroySysfs, DestroyCancel, DestroyFree, vars, TypeOK
<1>7. ASSUME NEW o \in Offsets, SetOffset(o) PROVE TypeOK'
  BY <1>7 DEF SetOffset, TypeOK
<1> QED
  BY <1>1, <1>2, <1>3, <1>4, <1>5, <1>6, <1>7 DEF Next, Others

\* Every step keeps what the callback has read.
LEMMA CbStep ==
  ASSUME EdgeInv, [Next]_vars
  PROVE  CbOK'
<1>0. TypeOK /\ CbOK /\ SinceInv
  BY DEF EdgeInv
<1>1. ASSUME UNCHANGED <<now, since, cb, raced>> PROVE CbOK'
  BY <1>0, <1>1 DEF CbOK, SecOf, Late
<1>2. ASSUME cb'.pc # "emit" PROVE CbOK'
  BY <1>2 DEF CbOK
<1>3. CASE TimerStart
  BY <1>1, <1>2, <1>3 DEF TimerStart, IdleCb
<1>4. CASE TimerCheck
  <2>1. UNCHANGED <<now, since>>
    BY <1>0, <1>4, Check
  <2>2. SecOf(now) # last_extts_sec => SecOf(since) < SecOf(now)
    <3>1. last_extts_sec <= SecOf(now) /\ SecOf(since) <= last_extts_sec
      BY <1>0, <1>4 DEF TimerCheck, SinceInv
    <3>2. last_extts_sec \in Nat /\ SecOf(now) \in Nat /\ SecOf(since) \in Nat
      BY <1>0, InSecond DEF TypeOK
    <3> HIDE DEF SecOf
    <3> QED
      BY <3>1, <3>2
  <2>3. \/ cb' = IdleCb
        \/ /\ cb'.sec = SecOf(now) /\ cb'.late = Late(now) /\ cb'.delay <= cb'.late
           /\ SecOf(since) < SecOf(now)
    BY <1>0, <1>4, <2>2, Check, Intervals DEF TypeOK, CbStates
  <2>4. SecOf(now)' = SecOf(now) /\ Late(now)' = Late(now) /\ SecOf(since)' = SecOf(since)
    BY <2>1 DEF SecOf, Late
  <2> HIDE DEF SecOf, Late
  <2>5. CASE cb' = IdleCb
    BY <1>2, <2>5 DEF IdleCb
  <2> QED
    BY <2>3, <2>4, <2>5 DEF CbOK
<1>5. CASE TimerEmit
  BY <1>2, <1>5 DEF TimerEmit, IdleCb
<1>6. CASE Tick
  BY <1>2, <1>6 DEF Tick
<1>7. CASE Enable
  <2>1. CASE cb.pc = "emit"
    <3>1. UNCHANGED <<now, cb>> /\ raced'
      BY <1>7, <2>1 DEF Enable
    <3> QED
      BY <1>0, <3>1 DEF CbOK, SecOf, Late
  <2>2. CASE cb.pc # "emit"
    BY <1>2, <1>7, <2>2 DEF Enable
  <2> QED
    BY <2>1, <2>2
<1>8. ASSUME NEW d \in 0..MaxDelay, DelayStore(d) PROVE CbOK'
  BY <1>1, <1>8 DEF DelayStore
<1>9. ASSUME NEW o \in Offsets, SetOffset(o) PROVE CbOK'
  BY <1>1, <1>9 DEF SetOffset
<1>10. CASE Disable \/ DestroySysfs \/ DestroyCancel \/ DestroyFree \/ UNCHANGED vars
  BY <1>1, <1>10 DEF Disable, DestroySysfs, DestroyCancel, DestroyFree, vars
<1> QED
  BY <1>3, <1>4, <1>5, <1>6, <1>7, <1>8, <1>9, <1>10 DEF Next, Others

\* Every step keeps the seconds in their order.
LEMMA SinceStep ==
  ASSUME EdgeInv, [Next]_vars
  PROVE  SinceInv'
<1>0. TypeOK /\ CbOK /\ SinceInv
  BY DEF EdgeInv
<1>1. SecOf(now) \in Nat /\ SecOf(since) \in Nat /\ now \in Nat /\ last_extts_sec \in Nat
  BY <1>0, InSecond DEF TypeOK
<1>2. ASSUME UNCHANGED <<now, since, last_extts_sec>>,
             enabled' \/ cb'.pc # "idle" => enabled \/ cb.pc # "idle"
      PROVE  SinceInv'
  BY <1>0, <1>2 DEF SinceInv, SecOf
<1>3. CASE TimerStart
  BY <1>2, <1>3 DEF TimerStart
<1>4. CASE TimerCheck
  BY <1>0, <1>2, <1>4, Check
<1>5. CASE TimerEmit
  <2>1. UNCHANGED <<now, since>> /\ last_extts_sec' = SecOf(now)
    BY <1>0, <1>5 DEF TimerEmit, CbOK
  <2>2. since <= now /\ SecOf(since) <= SecOf(now)
    BY <1>0, LaterSecond DEF SinceInv, TypeOK
  <2>3. SecOf(now)' = SecOf(now) /\ SecOf(since)' = SecOf(since)
    BY <2>1 DEF SecOf
  <2> HIDE DEF SecOf
  <2> QED
    BY <1>1, <2>1, <2>2, <2>3 DEF SinceInv
<1>6. CASE Tick
  <2>1. now' = now + 1 /\ UNCHANGED <<since, last_extts_sec, enabled, cb>>
    BY <1>6 DEF Tick
  <2>2. SecOf(now)' \in Nat /\ SecOf(now) <= SecOf(now)' /\ SecOf(since)' = SecOf(since)
    <3>1. SecOf(now)' = SecOf(now + 1) /\ now + 1 \in Nat /\ now <= now + 1
      BY <1>1, <2>1 DEF SecOf
    <3>2. SecOf(now + 1) \in Nat /\ SecOf(now) <= SecOf(now + 1)
      BY <1>1, <3>1, InSecond, LaterSecond
    <3>3. SecOf(since)' = SecOf(since)
      BY <2>1 DEF SecOf
    <3> QED
      BY <3>1, <3>2, <3>3
  <2>3. since \in Nat
    BY <1>0 DEF TypeOK
  <2> HIDE DEF SecOf
  <2> QED
    BY <1>0, <1>1, <2>1, <2>2, <2>3 DEF SinceInv
<1>7. CASE Enable
  <2>1. UNCHANGED now /\ since' = now /\ last_extts_sec' = SecOf(now)
    BY <1>7 DEF Enable
  <2>2. SecOf(now)' = SecOf(now) /\ SecOf(since)' = SecOf(now)
    BY <2>1 DEF SecOf
  <2> HIDE DEF SecOf
  <2> QED
    BY <1>1, <2>1, <2>2 DEF SinceInv
<1>8. ASSUME NEW d \in 0..MaxDelay, DelayStore(d) PROVE SinceInv'
  BY <1>2, <1>8 DEF DelayStore
<1>9. ASSUME NEW o \in Offsets, SetOffset(o) PROVE SinceInv'
  BY <1>2, <1>9 DEF SetOffset
<1>10. CASE Disable \/ DestroySysfs \/ DestroyCancel \/ DestroyFree \/ UNCHANGED vars
  BY <1>2, <1>10 DEF Disable, DestroySysfs, DestroyCancel, DestroyFree, vars
<1> QED
  BY <1>3, <1>4, <1>5, <1>6, <1>7, <1>8, <1>9, <1>10 DEF Next, Others

\* Only the callback's last step makes an event.
LEMMA EventSteps ==
  ASSUME [Next]_vars
  PROVE  TimerEmit \/ UNCHANGED event
BY DEF Next, Others, vars, Tick, TimerStart, TimerCheck, DelayStore, SetOffset, DestroySysfs,
       DestroyCancel, DestroyFree, Enable, Disable

\* The time stamp of the event is the time of the delayed edge.
LEMMA Stamped ==
  ASSUME TypeOK, CbOK, TimerEmit
  PROVE  StampOnDelayedEdge'
<1>1. /\ now \in Nat /\ off \in Int /\ cb.delay \in Nat
      /\ cb.sec = SecOf(now) /\ cb.late = Late(now)
  BY DEF TypeOK, CbOK, TimerEmit, CbStates
<1>2. now = cb.sec * Sec + cb.late /\ cb.sec \in Nat /\ cb.late \in Nat
  BY <1>1, InSecond DEF Edge
<1>3. /\ event'.sec = cb.sec /\ event'.delay = cb.delay /\ event'.off = off
      /\ event'.ts = now + off - (cb.late - cb.delay)
  BY DEF TimerEmit
<1>4. cb.sec * Sec \in Int
  BY <1>2
<1>5. now + off - (cb.late - cb.delay) = cb.sec * Sec + cb.delay + off
  BY <1>1, <1>2, <1>4
<1> QED
  BY <1>3, <1>5 DEF StampOnDelayedEdge

\* Every step keeps the end of the timer.
LEMMA QuietStep ==
  ASSUME QuietInv, [Next]_vars
  PROVE  QuietInv'
<1>1. ASSUME UNCHANGED <<phase, armed, cb>> PROVE QuietInv'
  BY <1>1 DEF QuietInv
<1>2. ASSUME phase' = phase, armed \/ cb.pc # "idle" \/ phase = "live" PROVE QuietInv'
  BY <1>2 DEF QuietInv
<1>3. CASE TimerStart \/ TimerCheck \/ TimerEmit
  BY <1>2, <1>3 DEF TimerStart, TimerCheck, TimerEmit
<1>4. ASSUME NEW d \in 0..MaxDelay, DelayStore(d) PROVE QuietInv'
  BY <1>2, <1>4 DEF DelayStore
<1>5. ASSUME NEW o \in Offsets, SetOffset(o) PROVE QuietInv'
  BY <1>1, <1>5 DEF SetOffset
<1>6. CASE Tick \/ Enable \/ Disable \/ UNCHANGED vars
  BY <1>1, <1>6 DEF Tick, Enable, Disable, vars
<1>7. CASE DestroySysfs \/ DestroyCancel \/ DestroyFree
  BY <1>7 DEF DestroySysfs, DestroyCancel, DestroyFree, QuietInv
<1> QED
  BY <1>3, <1>4, <1>5, <1>6, <1>7 DEF Next, Others

\* Every step keeps the invariant of the events.
LEMMA EdgeStep ==
  ASSUME EdgeInv, [Next]_vars
  PROVE  EdgeInv'
<1>1. StampOnDelayedEdge'
  <2>1. CASE TimerEmit
    BY <2>1, Stamped DEF EdgeInv
  <2>2. CASE UNCHANGED event
    BY <2>2 DEF EdgeInv, StampOnDelayedEdge
  <2> QED
    BY <2>1, <2>2, EventSteps
<1> QED
  BY <1>1, TypeStep, CbStep, QuietStep, SinceStep DEF EdgeInv

\* mock_phc_create.
LEMMA EdgeInit ==
  ASSUME Init
  PROVE  EdgeInv
<1>1. TypeOK
  BY DEF Init, TypeOK, IdleCb, CbStates
<1>2. CbOK /\ QuietInv
  BY DEF Init, CbOK, QuietInv, IdleCb
<1>3. SinceInv
  <2>1. since = now /\ ~enabled /\ cb.pc = "idle" /\ last_extts_sec = 0 /\ now \in Nat
    BY DEF Init, IdleCb
  <2>2. SecOf(now) \in Nat
    BY <2>1, InSecond
  <2> HIDE DEF SecOf
  <2> QED
    BY <2>1, <2>2 DEF SinceInv
<1>4. StampOnDelayedEdge
  BY DEF Init, StampOnDelayedEdge
<1> QED
  BY <1>1, <1>2, <1>3, <1>4 DEF EdgeInv

-----------------------------------------------------------------------------
(* The deadline. *)

\* How long a second's event may be late.
LEMMA Graces ==
  /\ Grace(0) = MaxDelay + Slack
  /\ \A n \in Nat : Grace(n) \in Nat /\ Grace(n + 1) = Grace(n) + Slack + MaxLatency
  /\ \A n \in 0..MaxStores : Grace(0) <= Grace(n) /\ Grace(n) <= Grace(MaxStores)
<1>1. Slack + MaxLatency \in Nat
  OBVIOUS
<1>2. ASSUME NEW m \in Nat, NEW n \in Nat, m <= n
      PROVE  m * (Slack + MaxLatency) <= n * (Slack + MaxLatency)
  <2>1. (n - m) * (Slack + MaxLatency) >= 0
    BY <1>1, <1>2
  <2>2. n * (Slack + MaxLatency) = m * (Slack + MaxLatency) + (n - m) * (Slack + MaxLatency)
    BY <1>1, <1>2
  <2> QED
    BY <1>1, <2>1, <2>2
<1>3. \A n \in Nat : n * (Slack + MaxLatency) \in Nat
  BY <1>1
<1>4. \A n \in 0..MaxStores : Grace(0) <= Grace(n) /\ Grace(n) <= Grace(MaxStores)
  BY <1>2, <1>3 DEF Grace
<1> QED
  BY <1>3, <1>4 DEF Grace

\* A step of the callback that forwards the timer to the delay of this second, or of
\* the next, has it expire soon enough.
LEMMA ForwardInTime ==
  ASSUME TypeOK, NEW i, TimerInv, cb.pc # "idle",
         \/ Late(now) < cb.delay /\ i = cb.delay - Late(now)
         \/ i = NextEdge(Late(now), cb.delay),
         Forward(i)
  PROVE  /\ armed' /\ expires' \in Int
         /\ now <= expires' + MaxLatency
         /\ expires' <= Edge(SecOf(now) + 1) + Grace(0)
         /\ armed => expires' = expires
         /\ ~armed /\ i = cb.delay - Late(now) => expires' <= Edge(SecOf(now)) + Grace(0)
<1>1. /\ now \in Nat /\ cb.delay \in Nat /\ cb.delay <= MaxDelay /\ expires \in Int
  BY DEF TypeOK, CbStates
<1>2. /\ SecOf(now) \in Nat /\ Late(now) \in Nat /\ Late(now) < Sec
      /\ now = Edge(SecOf(now)) + Late(now)
  BY Intervals
<1>3. i \in Nat /\ i > 0
  BY Intervals
<1>4. Edge(SecOf(now)) \in Nat /\ Edge(SecOf(now) + 1) = Edge(SecOf(now)) + Sec
  BY <1>2, Products
<1>5. Grace(0) = MaxDelay + Slack
  BY Graces
<1>6. /\ armed' /\ expires' \in Int /\ (armed => expires' = expires)
      /\ (~armed => now < expires' /\ expires' <= now + i)
  BY <1>3, ForwardIs DEF TimerInv
<1>7. armed => now <= expires + MaxLatency /\ expires <= Edge(SecOf(now) + 1) + Grace(0)
  BY DEF TimerInv
<1>8. i <= Sec - Late(now) + cb.delay + Slack
  BY <1>1, <1>2 DEF NextEdge
<1>9. CASE armed
  BY <1>6, <1>7, <1>9
<1>10. CASE ~armed
  <2> DEFINE e == Edge(SecOf(now))
             late == Late(now)
  <2> HIDE DEF e, late
  <2>1. /\ now < expires' /\ expires' <= now + i /\ now = e + late /\ expires' \in Int
        /\ e \in Nat /\ late \in Nat /\ i <= Sec - late + cb.delay + Slack
    BY <1>2, <1>4, <1>6, <1>8, <1>10 DEF e, late
  <2>2. expires' <= e + Sec + MaxDelay + Slack /\ now <= expires' + MaxLatency
    BY <1>1, <1>3, <2>1
  <2>3. i = cb.delay - late => expires' <= e + MaxDelay + Slack
    BY <1>1, <1>3, <2>1
  <2>4. Edge(SecOf(now) + 1) + Grace(0) = e + Sec + MaxDelay + Slack
    BY <1>4, <1>5, <2>1 DEF e
  <2>5. Edge(SecOf(now)) + Grace(0) = e + MaxDelay + Slack
    BY <1>5, <2>1 DEF e
  <2> QED
    BY <1>6, <1>10, <2>2, <2>3, <2>4, <2>5 DEF late
<1> QED
  BY <1>9, <1>10

\* Every step keeps the timer queued, and in time for the next edge.
LEMMA TimerStep ==
  ASSUME Timely, EdgeInv, TimerInv, [Next]_vars
  PROVE  TimerInv'
<1>0. TypeOK /\ CbOK
  BY DEF EdgeInv
<1>1. /\ now \in Nat /\ expires \in Int /\ SecOf(now) \in Nat
      /\ Edge(SecOf(now)) \in Nat /\ Edge(SecOf(now) + 1) = Edge(SecOf(now)) + Sec
      /\ now < Edge(SecOf(now) + 1)
  <2>1. now \in Nat /\ expires \in Int /\ SecOf(now) \in Nat
    BY <1>0, Intervals DEF TypeOK
  <2>2. Edge(SecOf(now)) \in Nat /\ Edge(SecOf(now) + 1) = Edge(SecOf(now)) + Sec
    BY <2>1, Products
  <2> QED
    BY <1>0, <2>1, <2>2, Intervals
<1>2. Grace(0) = MaxDelay + Slack
  BY Graces
<1>3. ASSUME now' = now, armed', now <= expires' + MaxLatency,
             expires' <= Edge(SecOf(now) + 1) + Grace(0)
      PROVE  TimerInv'
  BY <1>3 DEF TimerInv, SecOf
<1>4. ASSUME UNCHANGED <<now, armed, expires>>,
             phase' = "live" /\ cb'.pc = "idle" => phase = "live" /\ cb.pc = "idle",
             cb'.pc # "idle" => cb.pc # "idle"
      PROVE  TimerInv'
  BY <1>4 DEF TimerInv, SecOf
<1>5. CASE TimerStart
  <2>1. armed /\ now >= expires /\ now' = now
    BY <1>5 DEF TimerStart
  <2>2. CASE enabled
    <3>1. ~armed' /\ cb'.pc # "idle" /\ expires' = expires
      BY <1>5, <2>2 DEF TimerStart, IdleCb
    <3> QED
      BY <2>1, <3>1 DEF TimerInv
  <2>3. CASE ~enabled
    <3>1. expires' = expires + IdlePoll * ((now - expires) \div IdlePoll + 1) /\ armed' = armed
      BY <1>5, <2>3 DEF TimerStart
    <3>2. expires' \in Int /\ now < expires' /\ expires' <= now + IdlePoll
      <4>1. IdlePoll \in Nat /\ IdlePoll > 0
        OBVIOUS
      <4> QED
        BY <1>1, <2>1, <3>1, <4>1, Forwarded
    <3>3. now + IdlePoll <= Edge(SecOf(now) + 1) + Grace(0)
      BY <1>1, <1>2 DEF Timely
    <3>4. now <= expires' + MaxLatency /\ expires' <= Edge(SecOf(now) + 1) + Grace(0)
      <4> HIDE DEF SecOf, Edge, Grace
      <4> QED
        BY <1>1, <1>2, <3>2, <3>3
    <3> QED
      BY <1>3, <2>1, <3>1, <3>4
  <2> QED
    BY <2>2, <2>3
<1>6. CASE TimerCheck
  <2>1. cb.pc = "check" /\ now' = now
    BY <1>0, <1>6, Check
  <2>2. CASE /\ cb'.pc = "emit" /\ UNCHANGED <<expires, armed>>
    BY <1>4, <2>1, <2>2
  <2>3. ASSUME NEW i, Forward(i),
               \/ Late(now) < cb.delay /\ i = cb.delay - Late(now)
               \/ i = NextEdge(Late(now), cb.delay)
        PROVE  TimerInv'
    BY <1>0, <1>3, <2>1, <2>3, ForwardInTime
  <2> QED
    BY <1>0, <1>6, <2>2, <2>3, Check
<1>7. CASE TimerEmit
  <2>1. cb.pc # "idle" /\ now' = now /\ Forward(NextEdge(Late(now), cb.delay))
    BY <1>0, <1>7 DEF TimerEmit, CbOK
  <2> QED
    BY <1>0, <1>3, <2>1, ForwardInTime
<1>8. CASE Tick
  <2>1. now' = now + 1 /\ UNCHANGED <<armed, expires, cb, phase>> /\ cb.pc = "idle"
    BY <1>8 DEF Tick
  <2>2. armed => now + 1 <= expires + MaxLatency
    BY <1>1, <1>8 DEF Tick
  <2>3. Edge(SecOf(now) + 1) <= Edge(SecOf(now + 1) + 1)
    <3>1. SecOf(now + 1) \in Nat /\ SecOf(now) <= SecOf(now + 1)
      BY <1>1, InSecond, LaterSecond
    <3>2. SecOf(now) + 1 \in Nat /\ SecOf(now + 1) + 1 \in Nat /\ SecOf(now) + 1 <= SecOf(now + 1) + 1
      BY <1>1, <3>1
    <3> QED
      BY <3>2, Products
  <2>4. SecOf(now)' = SecOf(now + 1) /\ SecOf(now + 1) \in Nat
    BY <1>1, <2>1, InSecond DEF SecOf
  <2>5. Edge(SecOf(now) + 1)' = Edge(SecOf(now + 1) + 1) /\ Edge(SecOf(now + 1) + 1) \in Nat
    <3>1. SecOf(now + 1) + 1 \in Nat
      BY <2>4
    <3>2. Edge(SecOf(now) + 1)' = Edge(SecOf(now + 1) + 1)
      BY <2>4 DEF Edge
    <3> QED
      BY <3>1, <3>2, Products
  <2>6. armed => expires <= Edge(SecOf(now) + 1)' + Grace(0)
    <3> HIDE DEF SecOf, Edge, Grace
    <3> QED
      BY <1>1, <1>2, <2>3, <2>5 DEF TimerInv
  <2>7. armed => now' <= expires' + MaxLatency /\ expires' <= Edge(SecOf(now) + 1)' + Grace(0)
    BY <2>1, <2>2, <2>6
  <2>8. Edge(SecOf(now) + 1)' = Edge(SecOf(now') + 1)
    BY DEF Edge, SecOf
  <2> HIDE DEF Edge, SecOf, Grace
  <2> QED
    BY <2>1, <2>7, <2>8 DEF TimerInv
<1>9. ASSUME NEW d \in 0..MaxDelay, DelayStore(d) PROVE TimerInv'
  <2>1. CASE enabled
    <3>1. now' = now /\ armed' /\ expires' = now + Slack
      BY <1>9, <2>1 DEF DelayStore
    <3>2. now <= expires' + MaxLatency /\ expires' <= Edge(SecOf(now) + 1) + Grace(0)
      BY <1>1, <1>2, <3>1
    <3> QED
      BY <1>3, <3>1, <3>2
  <2>2. CASE ~enabled
    BY <1>4, <1>9, <2>2 DEF DelayStore
  <2> QED
    BY <2>1, <2>2
<1>10. ASSUME NEW o \in Offsets, SetOffset(o) PROVE TimerInv'
  BY <1>4, <1>10 DEF SetOffset
<1>11. CASE Enable \/ Disable \/ DestroySysfs \/ DestroyFree \/ UNCHANGED vars
  BY <1>4, <1>11 DEF Enable, Disable, DestroySysfs, DestroyFree, vars
<1>12. CASE DestroyCancel
  BY <1>12 DEF DestroyCancel, TimerInv
<1> QED
  BY <1>5, <1>6, <1>7, <1>8, <1>9, <1>10, <1>11, <1>12 DEF Next, Others

\* While events are enabled at most the second after the last one has begun.
LEMMA Soon ==
  ASSUME Timely, TypeOK, DeadlineInv, enabled, phase = "live"
  PROVE  SecOf(now) <= last_extts_sec + 1
<1>1. now \in Nat /\ last_extts_sec \in Nat /\ stores \in 0..MaxStores /\ SecOf(now) \in Nat
  BY Intervals DEF TypeOK
<1>2. now <= Edge(last_extts_sec + 1) + Grace(stores) + MaxLatency
  BY DEF DeadlineInv
<1>3. Grace(stores) <= Grace(MaxStores) /\ Grace(stores) \in Nat /\ Grace(MaxStores) \in Nat
  BY <1>1, Graces
<1>4. Edge(last_extts_sec + 1) \in Nat /\ Edge(last_extts_sec + 2) = Edge(last_extts_sec + 1) + Sec
  <2>1. last_extts_sec + 1 \in Nat /\ (last_extts_sec + 1) + 1 = last_extts_sec + 2
    BY <1>1
  <2> QED
    BY <2>1, Products
<1>5. now < Edge(last_extts_sec + 2)
  <2> HIDE DEF Edge, Grace
  <2> QED
    BY <1>1, <1>2, <1>3, <1>4 DEF Timely
<1>6. SecOf(now) < last_extts_sec + 2
  BY <1>1, <1>5, SecondOf
<1> HIDE DEF SecOf
<1> QED
  BY <1>1, <1>6

\* Every step keeps the deadline.
LEMMA DeadlineStep ==
  ASSUME Timely, SecondInv, [Next]_vars
  PROVE  DeadlineInv'
<1>0. TypeOK /\ CbOK /\ SinceInv /\ TimerInv /\ DeadlineInv
  BY DEF SecondInv, EdgeInv
<1>1. /\ now \in Nat /\ expires \in Int /\ SecOf(now) \in Nat
      /\ last_extts_sec \in Nat /\ stores \in 0..MaxStores
  BY <1>0, Intervals DEF TypeOK
<1>2. /\ Edge(SecOf(now) + 1) \in Nat /\ Edge(last_extts_sec + 1) \in Nat
      /\ now < Edge(SecOf(now) + 1)
  <2>1. SecOf(now) + 1 \in Nat /\ last_extts_sec + 1 \in Nat /\ SecOf(now) < SecOf(now) + 1
    BY <1>1
  <2> QED
    BY <1>1, <2>1, Products, SecondOf
<1>3. /\ Grace(0) \in Nat /\ Grace(stores) \in Nat /\ Grace(0) <= Grace(stores)
      /\ Grace(stores + 1) = Grace(stores) + Slack + MaxLatency
  BY <1>1, Graces
<1>4. ASSUME UNCHANGED <<now, last_extts_sec, stores, since, event>>,
             enabled' /\ phase' = "live" => enabled /\ phase = "live",
             enabled' /\ phase' = "live" /\ armed' =>
               expires' <= Edge(last_extts_sec + 1) + Grace(stores)
      PROVE  DeadlineInv'
  BY <1>0, <1>4 DEF DeadlineInv, SecOf, Edge, Grace
<1>5. ASSUME UNCHANGED <<now, last_extts_sec, stores, since, event, expires, armed>>,
             enabled' /\ phase' = "live" => enabled /\ phase = "live"
      PROVE  DeadlineInv'
  BY <1>0, <1>4, <1>5 DEF DeadlineInv
\* The second of now is the one of the last event, or of enabling.
<1>6. ASSUME now' = now, last_extts_sec' = SecOf(now), stores' = 0,
             armed' => expires' <= Edge(SecOf(now) + 1) + Grace(0),
             last_extts_sec' > SecOf(since)' => event'.sec = last_extts_sec'
      PROVE  DeadlineInv'
  <2>1. /\ Edge(last_extts_sec + 1)' = Edge(SecOf(now) + 1) /\ Grace(stores)' = Grace(0)
    BY <1>6 DEF Edge, Grace
  <2>2. now <= Edge(SecOf(now) + 1) + Grace(0) + MaxLatency
    <3> HIDE DEF SecOf, Edge, Grace
    <3> QED
      BY <1>1, <1>2, <1>3
  <2> QED
    BY <1>6, <2>1, <2>2 DEF DeadlineInv
<1>7. CASE TimerStart
  <2>1. CASE enabled
    BY <1>4, <1>7, <2>1 DEF TimerStart
  <2>2. CASE ~enabled
    BY <1>4, <1>7, <2>2 DEF TimerStart
  <2> QED
    BY <2>1, <2>2
<1>8. CASE TimerCheck
  <2>1. cb.pc = "check" /\ UNCHANGED <<now, last_extts_sec, stores, since, event, enabled, phase>>
    BY <1>0, <1>8, Check
  <2>2. CASE UNCHANGED <<expires, armed>>
    BY <1>5, <2>1, <2>2
  <2>3. ASSUME NEW i, Forward(i), enabled, phase = "live",
               \/ Late(now) < cb.delay /\ i = cb.delay - Late(now)
               \/ SecOf(now) = last_extts_sec /\ i = NextEdge(Late(now), cb.delay)
        PROVE  expires' <= Edge(last_extts_sec + 1) + Grace(stores)
    <3>1. /\ armed' /\ expires' \in Int /\ (armed => expires' = expires)
          /\ expires' <= Edge(SecOf(now) + 1) + Grace(0)
          /\ ~armed /\ i = cb.delay - Late(now) => expires' <= Edge(SecOf(now)) + Grace(0)
      BY <1>0, <2>1, <2>3, ForwardInTime
    <3>2. CASE armed
      BY <1>0, <2>3, <3>1, <3>2 DEF DeadlineInv
    <3>3. CASE SecOf(now) = last_extts_sec
      <4> HIDE DEF SecOf, Edge, Grace
      <4> QED
        BY <1>1, <1>2, <1>3, <3>1, <3>3
    <3>4. CASE ~armed /\ i = cb.delay - Late(now)
      <4>1. SecOf(now) <= last_extts_sec + 1
        BY <1>0, <2>3, Soon
      <4>2. Edge(SecOf(now)) <= Edge(last_extts_sec + 1) /\ Edge(SecOf(now)) \in Nat
        BY <1>1, <4>1, Products
      <4>3. expires' <= Edge(SecOf(now)) + Grace(0)
        BY <3>1, <3>4
      <4> HIDE DEF SecOf, Edge, Grace
      <4> QED
        BY <1>2, <1>3, <3>1, <4>2, <4>3
    <3> QED
      BY <2>3, <3>2, <3>3, <3>4
  <2>4. CASE UNCHANGED <<expires, armed>> \/ ~(enabled /\ phase = "live")
    BY <1>4, <2>1, <2>2, <2>4
  <2> QED
    BY <1>0, <1>4, <1>8, <2>1, <2>3, <2>4, Check
<1>9. CASE TimerEmit
  <2>1. /\ cb.pc # "idle" /\ now' = now /\ Forward(NextEdge(Late(now), cb.delay))
        /\ last_extts_sec' = SecOf(now) /\ stores' = 0 /\ event'.sec = last_extts_sec'
    BY <1>0, <1>9 DEF TimerEmit, CbOK
  <2>2. expires' <= Edge(SecOf(now) + 1) + Grace(0)
    BY <1>0, <2>1, ForwardInTime
  <2> QED
    BY <1>6, <2>1, <2>2
<1>10. CASE Tick
  <2>1. /\ now' = now + 1 /\ cb.pc = "idle"
        /\ UNCHANGED <<last_extts_sec, stores, since, event, expires, armed, enabled, phase>>
    BY <1>10 DEF Tick
  <2>2. ASSUME enabled, phase = "live"
        PROVE  now + 1 <= Edge(last_extts_sec + 1) + Grace(stores) + MaxLatency
    <3>1. armed
      BY <1>0, <2>1, <2>2 DEF TimerInv
    <3>2. now < expires + MaxLatency /\ expires <= Edge(last_extts_sec + 1) + Grace(stores)
      BY <1>0, <1>10, <2>2, <3>1 DEF Tick, DeadlineInv
    <3> HIDE DEF Edge, Grace
    <3> QED
      BY <1>1, <1>2, <1>3, <3>2
  <2> QED
    BY <1>0, <2>1, <2>2 DEF DeadlineInv, SecOf, Edge, Grace
<1>11. CASE Enable
  <2>1. /\ now' = now /\ since' = now /\ last_extts_sec' = SecOf(now) /\ stores' = 0
        /\ UNCHANGED <<expires, armed>>
    BY <1>11 DEF Enable
  <2>2. armed => expires <= Edge(SecOf(now) + 1) + Grace(0)
    BY <1>0 DEF TimerInv
  <2>3. SecOf(since)' = SecOf(now)
    BY <2>1 DEF SecOf
  <2>4. ~(last_extts_sec' > SecOf(since)')
    BY <1>1, <2>1, <2>3
  <2> QED
    BY <1>6, <2>1, <2>2, <2>4
<1>12. ASSUME NEW d \in 0..MaxDelay, DelayStore(d) PROVE DeadlineInv'
  <2>1. CASE enabled
    <3>1. /\ phase = "live" /\ expires' = now + Slack /\ stores' = stores + 1
          /\ UNCHANGED <<now, last_extts_sec, since, event>>
      BY <1>12, <2>1 DEF DelayStore
    <3>2. now <= Edge(last_extts_sec + 1) + Grace(stores) + MaxLatency
      BY <1>0, <2>1, <3>1 DEF DeadlineInv
    <3>3. /\ now <= Edge(last_extts_sec + 1) + Grace(stores + 1) + MaxLatency
          /\ now + Slack <= Edge(last_extts_sec + 1) + Grace(stores + 1)
      <4> HIDE DEF Edge, Grace
      <4> QED
        BY <1>1, <1>2, <1>3, <3>2
    <3>4. /\ Edge(last_extts_sec + 1)' = Edge(last_extts_sec + 1) /\ Grace(stores)' = Grace(stores + 1)
          /\ SecOf(since)' = SecOf(since)
      BY <3>1 DEF Edge, Grace, SecOf
    <3>5. last_extts_sec > SecOf(since) => event.sec = last_extts_sec
      BY <1>0, <2>1, <3>1 DEF DeadlineInv
    <3> HIDE DEF SecOf, Edge, Grace
    <3> QED
      BY <3>1, <3>3, <3>4, <3>5 DEF DeadlineInv
  <2>2. CASE ~enabled
    BY <1>5, <1>12, <2>2 DEF DelayStore
  <2> QED
    BY <2>1, <2>2
<1>13. ASSUME NEW o \in Offsets, SetOffset(o) PROVE DeadlineInv'
  BY <1>5, <1>13 DEF SetOffset
<1>14. CASE Disable \/ DestroySysfs \/ DestroyFree \/ UNCHANGED vars
  BY <1>5, <1>14 DEF Disable, DestroySysfs, DestroyFree, vars
<1>15. CASE DestroyCancel
  BY <1>15 DEF DestroyCancel, DeadlineInv
<1> QED
  BY <1>7, <1>8, <1>9, <1>10, <1>11, <1>12, <1>13, <1>14, <1>15 DEF Next, Others

\* mock_phc_create starts the timer; events are disabled.
LEMMA SecondInit ==
  ASSUME Timely, Init
  PROVE  SecondInv
<1>1. now = Sec /\ expires = Sec + IdlePoll /\ armed /\ ~enabled /\ EdgeInv
  BY EdgeInit DEF Init
<1>2. Grace(0) = MaxDelay + Slack
  BY Graces
<1>3. SecOf(now) = 1 /\ Edge(SecOf(now) + 1) = Sec + Sec
  <2>1. Edge(1) = Sec /\ Edge(1 + 1) = Sec + Sec
    BY DEF Edge
  <2>2. 1 \in Nat /\ now \in Nat /\ Edge(1) <= now /\ now < Edge(1) + Sec
    BY <1>1, <2>1
  <2> QED
    BY <2>1, <2>2, SecondOf
<1>4. TimerInv
  <2> HIDE DEF SecOf, Edge, Grace
  <2> QED
    BY <1>1, <1>2, <1>3 DEF TimerInv, Timely
<1> QED
  BY <1>1, <1>4 DEF SecondInv, DeadlineInv

\* The deadline is met: what NoSecondMissed says.
LEMMA InTime ==
  ASSUME Timely, SecondInv
  PROVE  NoSecondMissed
<1> SUFFICES ASSUME NEW k \in 1..(SecOf(now) - 1), enabled, phase = "live", since < k * Sec
             PROVE  event.sec >= k
  BY DEF NoSecondMissed
<1>1. TypeOK /\ DeadlineInv
  BY DEF SecondInv, EdgeInv
<1>2. /\ since \in Nat /\ last_extts_sec \in Nat
      /\ SecOf(now) \in Nat /\ SecOf(since) \in Nat
  BY <1>1, InSecond DEF TypeOK
<1>3. k \in Nat /\ k <= SecOf(now) - 1
  BY <1>2
<1>4. SecOf(since) < k
  BY <1>2, <1>3, SecondOf DEF Edge
<1>5. SecOf(now) <= last_extts_sec + 1
  BY <1>1, Soon
<1>6. k <= last_extts_sec /\ last_extts_sec > SecOf(since)
  BY <1>2, <1>3, <1>4, <1>5
<1>7. event.sec = last_extts_sec
  BY <1>1, <1>6 DEF DeadlineInv
<1> QED
  BY <1>2, <1>3, <1>6, <1>7

-----------------------------------------------------------------------------
(* The pins. *)

\* The pins, the request that changes them, and the pins the input was enabled on.
PinsInv ==
  /\ pin_config = [p \in Pins |-> pin_config[p]]
  /\ setting = [pc |-> setting.pc, pin |-> setting.pin, fn |-> setting.fn, from |-> setting.from]
  /\ setting.pc \in {"none", "take", "give"}
  /\ setting.pc # "none" =>
       \A p \in Pins : (pin_config[p] = setting.fn /\ setting.fn.func # "none")
                         => setting.pc = "take" /\ p \in setting.from
  /\ enabledOn \subseteq Pins
  /\ enabled => enabledOn \cap Leaving = {}
  /\ InputKeepsPin

\* ptp_set_pinfunc finds the first of the pins that have a function.
LEMMA FirstIs ==
  ASSUME NEW S \in SUBSET Nat, S # {}
  PROVE  First(S) \in S
<1> DEFINE R == OpToRel(<, Nat)
<1>1. IsWellFoundedOn(R, Nat)
  BY NatLessThanWellFounded
<1>2. \A x, y \in Nat : <<y, x>> \in R <=> y < x
  BY DEF OpToRel
<1> HIDE DEF R
<1>3. PICK x \in S : \A y \in S : ~ (<<y, x>> \in R)
  BY <1>1, WFMin
<1>4. ASSUME NEW y \in S PROVE x <= y
  <2>1. x \in Nat /\ y \in Nat
    OBVIOUS
  <2>2. ~(y < x)
    BY <1>2, <1>3, <2>1
  <2> QED
    BY <2>1, <2>2
<1> QED
  BY <1>4 DEF First

\* What ptp_disable_pinfunc leaves.
LEMMA DisableKeeps ==
  ASSUME PinsInv, NEW fn, DisablePinfunc(fn)
  PROVE  /\ enabledOn' \subseteq Pins
         /\ enabled' => enabled /\ enabledOn' = enabledOn /\ fn # Input
<1>1. CASE fn = Input /\ enabled
  BY <1>1 DEF DisablePinfunc, Disable
<1>2. CASE ~(fn = Input /\ enabled)
  BY <1>2 DEF DisablePinfunc, vars, PinsInv
<1> QED
  BY <1>1, <1>2

\* The only pin with the function is the one it is taken from.
LEMMA BeginKeeps ==
  ASSUME PinsInv, NEW pin \in Pins, NEW fn, PinSetBegin(pin, fn)
  PROVE  PinsInv'
<1> DEFINE from == IF Having(fn) = {} THEN {} ELSE {First(Having(fn))}
<1>1. /\ setting' = [pc |-> "take", pin |-> pin, fn |-> fn, from |-> from]
      /\ UNCHANGED pin_config
  BY DEF PinSetBegin, SetBegin
<1>2. \A p \in Pins : p \in Having(fn) <=> pin_config[p] = fn
  BY DEF Having
<1>3. Having(fn) # {} => First(Having(fn)) \in Having(fn)
  <2>1. Having(fn) \in SUBSET Nat
    BY PtpPinsAssumption DEF PtpPinsAssumption, Having
  <2> QED
    BY <2>1, FirstIs
<1>4. \A p \in from : p \in Pins /\ pin_config[p] = fn
  BY <1>3 DEF Having
<1>5. \A p, q \in Pins : pin_config[p] = pin_config[q] /\ pin_config[p].func # "none" => p = q
  BY DEF PinsInv, InputKeepsPin
<1>6. \A p \in Pins : pin_config[p] = fn /\ fn.func # "none" => p \in from
  BY <1>2, <1>3, <1>4, <1>5
<1>7. /\ enabledOn' \subseteq Pins
      /\ enabled' => enabled /\ enabledOn' = enabledOn /\ (from # {} => fn # Input)
  <2>1. CASE Having(fn) # {}
    BY <2>1, DisableKeeps DEF PinSetBegin
  <2>2. CASE Having(fn) = {}
    BY <2>2 DEF PinSetBegin, vars, PinsInv
  <2> QED
    BY <2>1, <2>2
<1> HIDE DEF from
<1>8. Leaving' = from
  BY <1>1 DEF Leaving
<1>9. ASSUME enabled', NEW p \in enabledOn' PROVE pin_config'[p] = Input /\ p \notin Leaving'
  <2>0. enabled /\ enabledOn' = enabledOn /\ (from # {} => fn # Input)
    BY <1>7, <1>9, Zenon
  <2>1. p \in enabledOn /\ enabled /\ (from # {} => fn # Input)
    BY <1>9, <2>0, Zenon
  <2>2. pin_config[p] = Input
    BY <2>1 DEF PinsInv, InputKeepsPin
  <2> QED
    BY <1>1, <1>4, <1>8, <2>1, <2>2
<1>10. InputKeepsPin'
  BY <1>1, <1>5, <1>9 DEF InputKeepsPin
<1>11. enabled' => enabledOn' \cap Leaving' = {}
  BY <1>9
<1>12. setting'.pc = "take" /\ setting'.fn = fn /\ setting'.from = from /\ setting'.pin = pin
  BY <1>1
<1>13. pin_config' = [p \in Pins |-> pin_config'[p]]
  BY <1>1 DEF PinsInv
<1> QED
  BY <1>1, <1>6, <1>7, <1>10, <1>11, <1>12, <1>13 DEF PinsInv

\* After the pin that had the function has lost it no pin has it.
LEMMA TakeKeeps ==
  ASSUME PinsInv, PinSetTake
  PROVE  PinsInv'
<1> DEFINE none == Func("none", 0)
<1>1. /\ pin_config' = [p \in Pins |-> IF p \in setting.from THEN none ELSE pin_config[p]]
      /\ setting' = [setting EXCEPT !.pc = "give"] /\ setting.pc = "take"
  BY DEF PinSetTake, SetTake
<1>2. none.func = "none" /\ Input.func # "none"
  BY DEF Func, Input
<1> HIDE DEF none
<1>3. /\ enabledOn' \subseteq Pins
      /\ enabled' => enabled /\ enabledOn' = enabledOn /\ pin_config[setting.pin] # Input
  BY DisableKeeps DEF PinSetTake
<1>4. /\ setting' = [pc |-> "give", pin |-> setting.pin, fn |-> setting.fn, from |-> setting.from]
      /\ Leaving = setting.from /\ Leaving' = {setting.pin}
  <2>1. setting' = [pc |-> "give", pin |-> setting.pin, fn |-> setting.fn, from |-> setting.from]
    BY <1>1 DEF PinsInv
  <2> QED
    BY <1>1, <2>1 DEF Leaving
<1>5. \A p \in Pins : pin_config'[p] = IF p \in setting.from THEN none ELSE pin_config[p]
  BY <1>1
<1>6. \A p \in Pins : ~(pin_config'[p] = setting.fn /\ setting.fn.func # "none")
  BY <1>1, <1>2, <1>5 DEF PinsInv
<1>7. \A p, q \in Pins : pin_config'[p] = pin_config'[q] /\ pin_config'[p].func # "none" => p = q
  BY <1>2, <1>5 DEF PinsInv, InputKeepsPin
<1>8. ASSUME enabled', NEW p \in enabledOn' PROVE pin_config'[p] = Input /\ p # setting.pin
  BY <1>3, <1>4, <1>5, <1>8 DEF PinsInv, InputKeepsPin
<1>9. pin_config' = [p \in Pins |-> pin_config'[p]]
  BY <1>1, <1>5
<1> QED
  BY <1>3, <1>4, <1>6, <1>7, <1>8, <1>9 DEF PinsInv, InputKeepsPin

\* The pin that gets the function is the only one to have it.
LEMMA GiveKeeps ==
  ASSUME PinsInv, PinSetGive
  PROVE  PinsInv'
<1>1. /\ pin_config' = [pin_config EXCEPT ![setting.pin] = setting.fn]
      /\ setting' = NoSetting /\ setting.pc = "give"
      /\ UNCHANGED <<enabled, enabledOn>>
  BY DEF PinSetGive, SetGive, vars
<1>2. \A p \in Pins : pin_config'[p] = IF p = setting.pin THEN setting.fn ELSE pin_config[p]
  BY <1>1 DEF PinsInv
<1>3. \A p \in Pins : pin_config[p] = setting.fn => setting.fn.func = "none"
  BY <1>1 DEF PinsInv
<1>4. Leaving = {setting.pin} /\ Leaving' = {} /\ setting'.pc = "none"
  BY <1>1 DEF Leaving, NoSetting
<1>5. \A p, q \in Pins : pin_config'[p] = pin_config'[q] /\ pin_config'[p].func # "none" => p = q
  BY <1>2, <1>3 DEF PinsInv, InputKeepsPin
<1>6. ASSUME enabled', NEW p \in enabledOn' PROVE pin_config'[p] = Input
  BY <1>1, <1>2, <1>4, <1>6 DEF PinsInv, InputKeepsPin
<1>7. pin_config' = [p \in Pins |-> pin_config'[p]]
  BY <1>1 DEF PinsInv
<1>8. setting' = [pc |-> setting'.pc, pin |-> setting'.pin, fn |-> setting'.fn,
                  from |-> setting'.from]
  BY <1>1 DEF NoSetting
<1> QED
  BY <1>1, <1>4, <1>5, <1>6, <1>7, <1>8 DEF PinsInv, InputKeepsPin

\* Every step keeps the pins.
LEMMA PinsStep ==
  ASSUME PinsInv, [NextPins]_allVars
  PROVE  PinsInv'
<1>1. ASSUME UNCHANGED pinVars, enabled' => enabled PROVE PinsInv'
  BY <1>1 DEF PinsInv, InputKeepsPin, Leaving, pinVars
<1>2. CASE ExttsEnable
  <2>1. UNCHANGED <<pin_config, setting>> /\ enabledOn' = Having(Input) \ Leaving
    BY <1>2 DEF ExttsEnable
  <2>2. Leaving' = Leaving
    BY <2>1 DEF Leaving
  <2> QED
    BY <2>1, <2>2 DEF PinsInv, InputKeepsPin, Having
<1>3. CASE ExttsDisable
  <2>1. UNCHANGED <<pin_config, setting>> /\ enabledOn' = {} /\ ~enabled'
    BY <1>3 DEF ExttsDisable, Disable
  <2> QED
    BY <2>1 DEF PinsInv, InputKeepsPin
<1>5. CASE Others /\ UNCHANGED pinVars /\ ~LeavesCaller
  <2>1. enabled' = enabled
    BY <1>5 DEF Others, Tick, TimerStart, TimerCheck, TimerEmit, DelayStore, SetOffset,
                DestroySysfs, DestroyCancel, DestroyFree
  <2> QED
    BY <1>1, <1>5, <2>1
<1>6. CASE UNCHANGED allVars
  BY <1>1, <1>6 DEF allVars, vars
<1> QED
  BY <1>2, <1>3, <1>5, <1>6, BeginKeeps, TakeKeeps, GiveKeeps DEF NextPins

-----------------------------------------------------------------------------
(* The theorems. *)

\* The pins do nothing to the simulation that a request to disable it does not.
THEOREM InputUnderneath == SpecPins => Spec
<1>1. InitPins => Init
  BY DEF InitPins
<1>2. [NextPins]_allVars => [Next]_vars
  BY DEF NextPins, Next, ExttsEnable, ExttsDisable, PinSetBegin, PinSetTake, PinSetGive,
     DisablePinfunc, allVars
<1> QED
  BY <1>1, <1>2, PTL DEF SpecPins, Spec

\* The invariant of the events, whatever lengths of time the constants stand for.
THEOREM EdgesInvariant == SpecPins => []EdgeInv
<1>1. Init => EdgeInv
  BY EdgeInit
<1>2. EdgeInv /\ [Next]_vars => EdgeInv'
  BY EdgeStep
<1> QED
  BY <1>1, <1>2, InputUnderneath, PTL DEF Spec

\* The time stamp of an event is the PHC's time at the delayed edge, however late
\* the timer was and whoever set the clock or the delay meanwhile.
THEOREM StampsOnEdge == SpecPins => []StampOnDelayedEdge
<1>1. EdgeInv => StampOnDelayedEdge
  BY DEF EdgeInv
<1> QED
  BY <1>1, EdgesInvariant, PTL

\* mock_phc_destroy leaves no timer behind, also when requests, writes of the delay
\* and the callback run beside it.
THEOREM QuietAtLast == SpecPins => []QuietWhenFreed
<1>1. EdgeInv => QuietWhenFreed
  BY DEF EdgeInv, QuietInv, QuietWhenFreed
<1> QED
  BY <1>1, EdgesInvariant, PTL

\* No event for the second in which events were enabled, nor for an earlier one,
\* unless the callback had passed its tests before.
THEOREM NoEdgeTooMany == SpecPins => NoSpuriousEdge
<1>1. EdgeInv /\ [Next]_vars => [event' # event => event'.sec > SecOf(since) \/ raced]_vars
  <2> SUFFICES ASSUME EdgeInv, [Next]_vars, event' # event
               PROVE  event'.sec > SecOf(since) \/ raced
    OBVIOUS
  <2>1. TimerEmit
    BY EventSteps
  <2>2. event'.sec = cb.sec /\ cb.pc = "emit"
    BY <2>1 DEF TimerEmit
  <2>3. raced \/ SecOf(since) < cb.sec
    BY <2>2 DEF EdgeInv, CbOK
  <2>4. SecOf(since) \in Nat /\ cb.sec \in Nat
    BY InSecond DEF EdgeInv, TypeOK, CbStates
  <2> QED
    BY <2>2, <2>3, <2>4
<1> QED
  BY <1>1, EdgesInvariant, InputUnderneath, PTL DEF Spec, NoSpuriousEdge

\* No second is missed while events stay enabled: for any delay the range allows,
\* any latency of the timer and as many writes of the delay between two events as
\* leave the timer in the second (mock_phc_extts_timer, extts_delay_ms_store).
THEOREM EverySecond == Timely => (SpecPins => []NoSecondMissed)
<1> SUFFICES ASSUME Timely PROVE SpecPins => []NoSecondMissed
  OBVIOUS
<1>1. Init => SecondInv
  BY SecondInit
<1>2. SecondInv /\ [Next]_vars => SecondInv'
  BY EdgeStep, TimerStep, DeadlineStep DEF SecondInv
<1>3. SecondInv => NoSecondMissed
  BY InTime
<1> QED
  BY <1>1, <1>2, <1>3, InputUnderneath, PTL DEF Spec

\* A function is on one pin at most, and time stamps are taken only while the input
\* is on the pin it was enabled on: for any pins, any functions of the driver and
\* any sequence of requests, with writes of extts_enable between their steps
\* (ptp_set_pinfunc, extts_enable_store).
THEOREM InputStays == SpecPins => []InputKeepsPin
<1>1. InitPins => PinsInv
  <2> SUFFICES ASSUME InitPins PROVE PinsInv
    OBVIOUS
  <2>1. Func("none", 0).func = "none" /\ enabledOn = {} /\ setting = NoSetting
    BY DEF Func, InitPins, PinsInit
  <2>2. \A p \in Pins : pin_config[p] = IF p = 0 THEN Input ELSE Func("none", 0)
    BY DEF InitPins, PinsInit
  <2>3. \A p \in Pins : pin_config[p].func # "none" => p = 0
    BY <2>1, <2>2
  <2>4. pin_config = [p \in Pins |-> pin_config[p]]
    BY DEF InitPins, PinsInit
  <2> QED
    BY <2>1, <2>3, <2>4 DEF PinsInv, InputKeepsPin, NoSetting
<1>2. PinsInv /\ [NextPins]_allVars => PinsInv'
  BY PinsStep
<1>3. PinsInv => InputKeepsPin
  BY DEF PinsInv
<1> QED
  BY <1>1, <1>2, <1>3, PTL DEF SpecPins

-----------------------------------------------------------------------------
(* Virtual clocks, ptp_sysfs.c and ptp_clock.c. *)

HIDE MockExttsAssumption DEF MockExttsAssumption
USE PtpVclocksAssumption DEF PtpVclocksAssumption

(***************************************************************************)
(* The inductive invariant.                                                *)
(***************************************************************************)

StorePcs == {"idle", "add", "del"}

VcTypeOK ==
  /\ n_vclocks \in Nat /\ max_vclocks \in Nat /\ n_vclocks <= max_vclocks
  /\ max_vclocks <= MaxVclocks
  /\ vclock_index \in [1..max_vclocks -> Nat \cup {None}]
  /\ children \in Seq(Ids)
  /\ store \in [pc : StorePcs, num : Nat, i : Nat]
  /\ failed \in BOOLEAN /\ overlapped \in BOOLEAN

\* The position of a write of n_vclocks in its loop, and how long one can be
\* under way.
StoreOK ==
  /\ store.pc = "idle" => store.i = 0
  /\ store.pc = "add" => store.num <= max_vclocks /\ n_vclocks + store.i <= store.num
  /\ store.pc = "del" => store.num + store.i <= n_vclocks
  /\ Locked => Attributes

\* How many virtual clocks there are in the middle of a write.
Registered == IF store.pc = "add" THEN n_vclocks + store.i ELSE n_vclocks - store.i

\* The array lists the clocks also in the middle of a write, and a clock is not
\* past the walk over its virtual clocks while it has any, unless one came later.
ListOK ==
  ~failed =>
    /\ clock = "live" => /\ Len(children) = Registered
                         /\ \A k \in 1..Registered : children[k] = vclock_index[k]
    /\ (clock \in {"unregistering", "bare", "gone"} /\ ~overlapped) => children = <<>>

IInv == VcTypeOK /\ StoreOK /\ ListOK

-----------------------------------------------------------------------------
(* Facts about the operators. *)

\* There is a free clock index as long as fewer clocks than indices are registered.
LEMMA NewIdFree ==
  ASSUME children \in Seq(Ids), Len(children) < 2 * MaxVclocks
  PROVE  NewId \in Ids
<1> DEFINE n == Len(children)
           S == 1..n
           T == {children[k] : k \in S}
           F == Ids \ T
<1>1. n \in Nat /\ n \in Int /\ 1 \in Int /\ \A k \in S : children[k] \in Ids
  BY ElementOfSeq
<1>2. IsFiniteSet(S) /\ Cardinality(S) = n
  <2>1. IsFiniteSet(1..n) /\ Cardinality(1..n) = IF 1 > n THEN 0 ELSE n - 1 + 1
    BY <1>1, FS_Interval
  <2> QED
    BY <1>1, <2>1
<1>3. IsFiniteSet(T) /\ Cardinality(T) <= n
  <2> DEFINE f == [k \in S |-> children[k]]
  <2>1. f \in Surjection(S, T)
    BY DEF Surjection
  <2> HIDE DEF f, S, T
  <2> QED
    BY <1>2, <2>1, FS_Surjection
<1>4. IsFiniteSet(Ids) /\ Cardinality(Ids) = 2 * MaxVclocks
  BY FS_Interval DEF Ids
<1>5. Cardinality(Ids) \in Nat /\ Cardinality(T) \in Nat
  BY <1>3, <1>4, FS_CardinalityType
<1>6. F # {}
  <2> SUFFICES ASSUME F = {} PROVE FALSE
    OBVIOUS
  <2>1. Ids \subseteq T
    OBVIOUS
  <2>2. Cardinality(Ids) <= Cardinality(T)
    BY <1>3, <2>1, FS_Subset
  <2> QED
    BY <1>1, <1>3, <1>4, <1>5, <2>2
<1>7. PICK id \in F : \A j \in F : ~ (<<j, id>> \in OpToRel(<, Nat))
  <2>1. F \subseteq Nat
    BY DEF Ids
  <2> QED
    BY <1>6, <2>1, NatLessThanWellFounded, WFMin
<1>8. ASSUME NEW j \in 1..(id - 1) PROVE \E k \in S : children[k] = j
  <2>1. id \in Ids /\ j \in Ids /\ j \in Nat /\ id \in Nat /\ j < id
    <3>1. id \in Ids
      BY <1>7
    <3> QED
      BY <3>1 DEF Ids
  <2>2. <<j, id>> \in OpToRel(<, Nat)
    <3>1. <<j, id>> \in Nat \X Nat /\ <<j, id>>[1] < <<j, id>>[2]
      BY <2>1
    <3> QED
      BY <3>1, Zenon DEF OpToRel
  <2>3. j \notin F
    BY <1>7, <2>2
  <2> QED
    BY <2>1, <2>3
<1>9. \E v \in Ids : /\ \A k \in S : children[k] # v
                     /\ \A j \in 1..(v - 1) : \E k \in S : children[k] = j
  BY <1>7, <1>8
<1> QED
  BY <1>9 DEF NewId

\* The array and the list of a new clock.
LEMMA FreshType ==
  /\ [k \in 1..MaxVclocks |-> 0] \in [1..MaxVclocks -> Nat \cup {None}]
  /\ <<>> \in Seq(Ids)
  /\ MaxVclocks \in Nat /\ 0 \in Nat /\ 0 <= MaxVclocks /\ MaxVclocks <= MaxVclocks
BY EmptySeq

-----------------------------------------------------------------------------
(* One step of a write. *)

\* The steps of the other actors leave the virtual clocks alone.
LEMMA Frame ==
  ASSUME IInv,
         UNCHANGED <<n_vclocks, max_vclocks, vclock_index, children, store, failed, overlapped>>,
         clock' = clock
  PROVE  IInv'
BY DEF IInv, VcTypeOK, StoreOK, ListOK, Registered, Locked, Attributes

\* n_vclocks_store registers one more clock and writes its index behind the others.
LEMMA AddStep ==
  ASSUME IInv, StoreAdd
  PROVE  IInv'
<1> USE DEF IInv
<1>1. /\ NewId \in Ids /\ NewId \in Nat /\ store.pc = "add" /\ Attributes
      /\ n_vclocks \in Nat /\ store.i \in Nat /\ store.num \in Nat
      /\ n_vclocks + store.i + 1 \in 1..max_vclocks
      /\ n_vclocks + store.i + 1 <= store.num
  <2>1. NewId \in Ids /\ NewId \in Nat
    BY NewIdFree DEF StoreAdd, VcTypeOK, Ids
  <2> QED
    BY <2>1 DEF StoreAdd, VcTypeOK, StoreOK, Locked
<1>2. /\ store' \in [pc : StorePcs, num : Nat, i : Nat]
      /\ store'.pc = store.pc /\ store'.num = store.num /\ store'.i = store.i + 1
  <2>1. store' = [store EXCEPT !.i = @ + 1]
    BY DEF StoreAdd
  <2> QED
    BY <2>1 DEF VcTypeOK
<1>3. /\ vclock_index' \in [1..max_vclocks -> Nat \cup {None}]
      /\ \A k \in 1..max_vclocks :
           vclock_index'[k] = IF k = n_vclocks + store.i + 1 THEN NewId ELSE vclock_index[k]
  BY <1>1 DEF StoreAdd, VcTypeOK
<1>4. /\ children' \in Seq(Ids) /\ Len(children) \in Nat /\ Len(children') = Len(children) + 1
      /\ children'[Len(children) + 1] = NewId
      /\ \A k \in 1..Len(children) : children'[k] = children[k]
  BY <1>1, AppendProperties DEF StoreAdd, VcTypeOK
<1>5. /\ UNCHANGED <<n_vclocks, max_vclocks, clock, failed>>
      /\ overlapped' = (overlapped \/ clock = "unregistering")
  BY DEF StoreAdd
<1>9. overlapped' \in BOOLEAN
  BY <1>5 DEF VcTypeOK
<1>6. VcTypeOK'
  BY <1>2, <1>3, <1>4, <1>5, <1>9 DEF VcTypeOK
<1>7. StoreOK'
  BY <1>1, <1>2, <1>5 DEF StoreOK, VcTypeOK, Attributes
<1>8. ListOK'
  <2>1. Registered = n_vclocks + store.i /\ Registered' = Registered + 1 /\ Registered \in Nat
    BY <1>1, <1>2, <1>5 DEF Registered
  <2> SUFFICES ASSUME ~failed, clock = "live"
               PROVE  /\ Len(children') = Registered'
                      /\ \A k \in 1..Registered' : children'[k] = vclock_index'[k]
    BY <1>1, <1>5 DEF ListOK, Attributes
  <2>2. Len(children) = Registered /\ \A k \in 1..Registered : children[k] = vclock_index[k]
    BY <1>1 DEF ListOK
  <2>3. ASSUME NEW k \in 1..(Registered + 1) PROVE children'[k] = vclock_index'[k]
    <3>1. k \in 1..max_vclocks
      BY <1>1, <2>1 DEF VcTypeOK
    <3>2. CASE k = Registered + 1
      BY <1>3, <1>4, <2>1, <2>2, <3>1, <3>2
    <3>3. CASE k \in 1..Registered
      BY <1>3, <1>4, <2>1, <2>2, <3>1, <3>3
    <3> QED
      BY <2>1, <3>2, <3>3
  <2> QED
    BY <1>4, <2>1, <2>2, <2>3
<1> QED
  BY <1>6, <1>7, <1>8

\* n_vclocks_store unregisters the last clock of the array.
LEMMA DelStep ==
  ASSUME IInv, StoreDel
  PROVE  IInv'
<1> USE DEF IInv
<1>1. /\ store.pc = "del" /\ Attributes /\ children # <<>>
      /\ n_vclocks \in Nat /\ store.i \in Nat /\ store.num \in Nat
      /\ store.num + store.i + 1 <= n_vclocks
  BY DEF StoreDel, VcTypeOK, StoreOK, Locked
<1>2. /\ store' \in [pc : StorePcs, num : Nat, i : Nat]
      /\ store'.pc = store.pc /\ store'.num = store.num /\ store'.i = store.i + 1
  <2>1. store' = [store EXCEPT !.i = @ + 1]
    BY DEF StoreDel
  <2> QED
    BY <2>1 DEF VcTypeOK
<1>3. Len(children) \in Nat /\ Len(children) > 0
  BY EmptySeq DEF StoreDel, VcTypeOK
<1>4. /\ children' \in Seq(Ids) /\ Len(children') = Len(children) - 1
      /\ \A k \in 1..(Len(children) - 1) : children'[k] = children[k]
  <2>1. /\ 1 \in Int /\ Len(children) - 1 \in Int
        /\ \A k \in 1..(Len(children) - 1) : children[k] \in Ids
    BY <1>3, ElementOfSeq DEF VcTypeOK
  <2> DEFINE t == SubSeq(children, 1, Len(children) - 1)
  <2>2. /\ t \in Seq(Ids)
        /\ Len(t) = IF 1 <= Len(children) - 1 THEN (Len(children) - 1) - 1 + 1 ELSE 0
        /\ \A k \in 1..((Len(children) - 1) - 1 + 1) : t[k] = children[1 + k - 1]
    BY <2>1, SubSeqProperties
  <2>3. children' = t
    BY DEF StoreDel
  <2> HIDE DEF t
  <2> QED
    BY <1>3, <2>2, <2>3
<1>5. /\ UNCHANGED <<n_vclocks, max_vclocks, vclock_index, clock, failed>>
      /\ overlapped' = (overlapped \/ clock = "deleting")
  BY DEF StoreDel
<1>9. overlapped' \in BOOLEAN /\ (overlapped => overlapped')
  BY <1>5 DEF VcTypeOK
<1>6. VcTypeOK'
  BY <1>2, <1>4, <1>5, <1>9 DEF VcTypeOK
<1>7. StoreOK'
  BY <1>1, <1>2, <1>5 DEF StoreOK, Attributes
<1>8. ListOK'
  <2>1. Registered = n_vclocks - store.i /\ Registered' = Registered - 1 /\ Registered \in Nat
    BY <1>1, <1>2, <1>5 DEF Registered
  <2>2. ~failed /\ clock = "live"
          => Len(children) = Registered /\ \A k \in 1..Registered : children[k] = vclock_index[k]
    BY DEF ListOK
  <2>3. \A k \in 1..(Registered - 1) : k \in 1..Registered
    BY <2>1
  <2>4. ~failed /\ clock = "live"
          => /\ Len(children') = Registered'
             /\ \A k \in 1..Registered' : children'[k] = vclock_index'[k]
    BY <1>4, <1>5, <2>1, <2>2, <2>3
  <2>5. ~failed /\ clock \in {"unregistering", "bare", "gone"} => overlapped
    BY <1>1 DEF ListOK
  <2> QED
    BY <1>5, <1>9, <2>4, <2>5 DEF ListOK
<1> QED
  BY <1>6, <1>7, <1>8

\* n_vclocks_store ends and stores the new number.
LEMMA EndStep ==
  ASSUME IInv, StoreEnd
  PROVE  IInv'
<1> USE DEF IInv
<1>1. /\ Attributes /\ store.pc \in {"add", "del"}
      /\ n_vclocks \in Nat /\ store.i \in Nat /\ store.num \in Nat
      /\ max_vclocks \in Nat /\ store.num <= max_vclocks
      /\ store.pc = "add" => n_vclocks <= store.num
  BY DEF StoreEnd, VcTypeOK, StoreOK, Locked
<1>2. store' = Idle /\ UNCHANGED <<max_vclocks, children, clock, failed, overlapped>> /\ n_vclocks' = store.num
  BY DEF StoreEnd
<1>3. /\ vclock_index' \in [1..max_vclocks -> Nat \cup {None}]
      /\ \A k \in 1..store.num : vclock_index'[k] = vclock_index[k]
  BY <1>1 DEF StoreEnd, VcTypeOK
<1>4. VcTypeOK'
  BY <1>1, <1>2, <1>3 DEF VcTypeOK, Idle, StorePcs
<1>5. StoreOK'
  BY <1>1, <1>2 DEF StoreOK, Idle, Locked, Attributes
<1>6. Registered' = store.num
  BY <1>1, <1>2 DEF Registered, Idle
<1>7. ~failed /\ clock = "live" => Registered = store.num
  <2>1. ~failed /\ clock = "live" => Len(children) = Registered
    BY DEF ListOK
  <2>2. children = <<>> => Len(children) = 0
    OBVIOUS
  <2> QED
    BY <1>1, <2>1, <2>2 DEF StoreEnd, Registered, StoreOK
<1>8. ListOK'
  BY <1>1, <1>2, <1>3, <1>6, <1>7 DEF ListOK
<1> QED
  BY <1>4, <1>5, <1>8

-----------------------------------------------------------------------------
(* The theorems. *)

\* The inductive invariant: between and within the stores of n_vclocks and max_vclocks the
\* array lists the registered children, as far as the store that is under way has got.
THEOREM Invariant == VcSpec => []IInv
<1>1. VcInit => IInv
  <2> SUFFICES ASSUME VcInit PROVE IInv
    OBVIOUS
  <2>1. VcTypeOK
    BY FreshType DEF VcInit, VcTypeOK, Idle, StorePcs
  <2>2. StoreOK
    BY DEF VcInit, StoreOK, Idle, Locked, Attributes
  <2>3. ListOK
    BY DEF VcInit, ListOK, Registered, Idle
  <2> QED
    BY <2>1, <2>2, <2>3 DEF IInv
<1>2. IInv /\ [VcNext]_vcVars => IInv'
  <2> SUFFICES ASSUME IInv, [VcNext]_vcVars PROVE IInv'
    OBVIOUS
  <2> USE DEF IInv
  <2>1. ASSUME NEW num \in 0..MaxVclocks, StoreBegin(num) PROVE IInv'
    <3>1. /\ n_vclocks \in Nat /\ num \in Nat /\ num <= max_vclocks /\ store.i = 0 /\ Attributes
          /\ store.pc = "idle"
      BY <2>1 DEF StoreBegin, StoreOK, Locked, VcTypeOK
    <3>2. /\ store' \in [pc : StorePcs, num : Nat, i : Nat]
          /\ store'.pc = (IF num > n_vclocks THEN "add" ELSE "del")
          /\ store'.num = num /\ store'.i = 0
          /\ UNCHANGED <<n_vclocks, max_vclocks, vclock_index, children, clock, failed, overlapped>>
      BY <2>1, <3>1 DEF StoreBegin, StorePcs
    <3>3. VcTypeOK'
      BY <3>2 DEF VcTypeOK
    <3>4. StoreOK'
      BY <3>1, <3>2 DEF StoreOK, Locked, Attributes
    <3>5. Registered' = Registered
      BY <3>1, <3>2 DEF Registered
    <3>6. ListOK'
      BY <3>1, <3>2, <3>5 DEF ListOK
    <3> QED
      BY <3>3, <3>4, <3>6
  <2>2. CASE StoreAddFails
    <3>1. store.pc = "add" /\ Attributes /\ store' = Idle
      BY <2>2 DEF StoreAddFails, StoreOK, Locked
    <3>2. failed' = (failed \/ store.i > 0)
          /\ UNCHANGED <<n_vclocks, max_vclocks, vclock_index, children, clock, overlapped>>
      BY <2>2 DEF StoreAddFails
    <3>3. VcTypeOK'
      BY <3>1, <3>2 DEF VcTypeOK, Idle, StorePcs
    <3>4. StoreOK'
      BY <3>1, <3>2 DEF StoreOK, Idle, Locked, Attributes
    <3>5. ~failed' => ~failed /\ Registered' = Registered
      <4>1. Registered' = n_vclocks /\ n_vclocks \in Nat /\ store.i \in Nat
        BY <3>1, <3>2 DEF Registered, Idle, VcTypeOK
      <4>2. store.i = 0 \/ store.i > 0
        BY <4>1
      <4>3. ~failed' => ~failed /\ store.i = 0
        BY <3>2, <4>2, Zenon
      <4> QED
        BY <3>1, <4>1, <4>3 DEF Registered
    <3>6. ListOK'
      BY <3>1, <3>2, <3>5 DEF ListOK
    <3> QED
      BY <3>3, <3>4, <3>6
  <2>3. ASSUME NEW max \in 1..MaxVclocks, MaxStore(max) PROVE IInv'
    <3>1. /\ n_vclocks \in Nat /\ n_vclocks <= max /\ store.pc = "idle" /\ store.i = 0
          /\ Attributes /\ max_vclocks' = max /\ n_vclocks <= max_vclocks
          /\ UNCHANGED <<n_vclocks, children, store, clock, failed, overlapped>>
      BY <2>3 DEF MaxStore, VcTypeOK, StoreOK, Locked
    <3>2. /\ vclock_index' \in [1..max -> Nat \cup {None}]
          /\ \A k \in 1..n_vclocks : vclock_index'[k] = vclock_index[k]
      BY <2>3, <3>1 DEF MaxStore, VcTypeOK
    <3>3. VcTypeOK'
      BY <3>1, <3>2 DEF VcTypeOK
    <3>4. StoreOK'
      BY <3>1 DEF StoreOK, Locked, Attributes
    <3>5. Registered = n_vclocks /\ Registered' = n_vclocks
      BY <3>1 DEF Registered
    <3>6. ListOK'
      BY <3>1, <3>2, <3>5 DEF ListOK
    <3> QED
      BY <3>3, <3>4, <3>6
  <2>4. ASSUME NEW r \in Setters, SetTest(r) \/ SetTime(r) PROVE IInv'
    BY <2>4, Frame DEF SetTest, SetTime
  <2>5. CASE UnregisterBegin
    <3>1. /\ clock = "live" /\ clock' \in {"deleting", "unregistering"}
          /\ UNCHANGED <<n_vclocks, max_vclocks, vclock_index, children, store, failed, overlapped>>
      BY <2>5 DEF UnregisterBegin
    <3>2. clock' = "unregistering" => n_vclocks = 0 /\ store.pc = "idle" /\ store.i = 0
      BY <2>5 DEF UnregisterBegin, VclockInUse, StoreOK, Locked, VcTypeOK
    <3>3. VcTypeOK' /\ StoreOK'
      BY <3>1 DEF VcTypeOK, StoreOK, Locked, Attributes
    <3>4. ~failed /\ clock' = "unregistering" => children = <<>>
      BY <3>1, <3>2, EmptySeq DEF ListOK, Registered, VcTypeOK
    <3>5. ListOK'
      BY <3>1, <3>4 DEF ListOK
    <3> QED
      BY <3>3, <3>5
  <2>6. CASE UnregisterChild
    <3>1. /\ clock = "deleting" /\ children' \in Seq(Ids) /\ overlapped' \in BOOLEAN
          /\ UNCHANGED <<n_vclocks, max_vclocks, vclock_index, store, failed, clock>>
      BY <2>6 DEF UnregisterChild, VcTypeOK
    <3>2. VcTypeOK' /\ StoreOK'
      BY <3>1 DEF VcTypeOK, StoreOK, Locked, Attributes
    <3>3. ListOK'
      BY <3>1 DEF ListOK
    <3> QED
      BY <3>2, <3>3
  <2>7. CASE UnregisterWalked \/ UnregisterAttributes \/ UnregisterEnd
    <3>1. /\ UNCHANGED <<n_vclocks, max_vclocks, vclock_index, children, store, failed, overlapped>>
          /\ \/ clock = "deleting" /\ children = <<>> /\ clock' = "unregistering"
             \/ clock = "unregistering" /\ ~Locked /\ clock' = "bare"
             \/ clock = "bare" /\ clock' = "gone"
      BY <2>7 DEF UnregisterWalked, UnregisterAttributes, UnregisterEnd
    <3>2. VcTypeOK' /\ StoreOK'
      BY <3>1 DEF VcTypeOK, StoreOK, Locked, Attributes
    <3>3. ListOK'
      BY <3>1 DEF ListOK
    <3> QED
      BY <3>2, <3>3
  <2>8. CASE ClockRegister
    <3>1. /\ clock = "gone" /\ clock' = "live" /\ store.pc = "idle" /\ store.i = 0
          /\ UNCHANGED store
      BY <2>8 DEF ClockRegister, StoreOK, Locked, Attributes, VcTypeOK
    <3>2. /\ n_vclocks' = 0 /\ max_vclocks' = MaxVclocks /\ children' = <<>> /\ failed' = FALSE
          /\ overlapped' = FALSE
          /\ vclock_index' = [k \in 1..MaxVclocks |-> 0]
      BY <2>8 DEF ClockRegister
    <3>3. VcTypeOK'
      BY <3>1, <3>2, FreshType DEF VcTypeOK
    <3>4. StoreOK'
      BY <3>1, <3>2 DEF StoreOK, Locked, Attributes
    <3>5. ListOK'
      BY <3>1, <3>2 DEF ListOK, Registered
    <3> QED
      BY <3>3, <3>4, <3>5
  <2>9. CASE UNCHANGED vcVars
    BY <2>9, Frame DEF vcVars
  <2> QED
    BY <2>1, <2>2, <2>3, <2>4, <2>5, <2>6, <2>7, <2>8, <2>9, AddStep, DelStep, EndStep DEF VcNext
<1> QED
  BY <1>1, <1>2, PTL DEF VcSpec

\* As long as no write has failed half way, the entries of vclock_index are the
\* indices of the registered virtual clocks, in order, for any number of clocks
\* and any sequence of writes of n_vclocks and max_vclocks (n_vclocks_store
\* counts on it when it clears the entries of the clocks it has unregistered).
THEOREM ArrayListsClocks == VcSpec => []IndexIsChildren
<1>1. IInv => IndexIsChildren
  <2> SUFFICES ASSUME IInv, store.pc = "idle", clock = "live", ~failed
               PROVE  children = [k \in 1..n_vclocks |-> vclock_index[k]]
    BY DEF IndexIsChildren, Locked
  <2>1. /\ Len(children) = n_vclocks
        /\ \A k \in 1..n_vclocks : children[k] = vclock_index[k]
    BY DEF IInv, VcTypeOK, StoreOK, ListOK, Registered
  <2> QED
    BY <2>1 DEF IInv, VcTypeOK
<1> QED
  BY <1>1, Invariant, PTL

\* ptp_clock_unregister leaves no virtual clock behind, also when it finds
\* n_vclocks at zero and does not look for any, and when a signal ends its wait
\* for a write of n_vclocks that is under way, as long as no write registers a
\* clock after it has looked and walked.
THEOREM ClocksGoTogether == VcSpec => []NoOrphans
<1>1. IInv => NoOrphans
  BY DEF IInv, ListOK, NoOrphans
<1> QED
  BY <1>1, Invariant, PTL
=============================================================================
