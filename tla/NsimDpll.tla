------------------------------ MODULE NsimDpll ------------------------------
(***************************************************************************)
(* The DPLL emulation of one WPC device, netdevsim/dpll.c: its lock status *)
(* driven by the GNSS signal (NMEA GGA sentences and the UBX CFG-VALSET    *)
(* interference key), by the writable sysfs attribute lock_status and by   *)
(* the 30 s holdover timer; the notification work that tells netlink       *)
(* listeners about changes; the 1 Hz UBX NAV emitter; and the order in     *)
(* which nsim_dpll_init and nsim_dpll_exit bring all of this up and down.  *)
(*                                                                         *)
(* The driver takes no lock around lock_status.  A handler that changes it *)
(* is therefore a sequence of steps (cancel the timer, compare, write,     *)
(* schedule the work, arm the timer) that interleave with those of other   *)
(* threads and with the timer callback.  signal_blocked and gnss_gps_fix   *)
(* are written only by the GNSS writer, of which the GNSS core admits one  *)
(* at a time; every reader tests "blocked or no fix", so the two stores of *)
(* a handler are one step here without hiding an outcome.                  *)
(***************************************************************************)
EXTENDS Naturals

CONSTANTS
  SysfsWriters,     \* threads writing the lock_status attribute (one per open file)
  Gnss,             \* the thread inside nsim_gnss_write_raw
  HoldoverTicks     \* NSIM_DPLL_HOLDOVER_TIMEOUT_SEC, in clock ticks

ASSUME NsimDpllAssumption ==
  /\ Gnss \notin SysfsWriters
  /\ HoldoverTicks \in Nat \ {0}

VARIABLES
  lock_status,      \* ndpll->lock_status
  signal_blocked,   \* ndpll->signal_blocked
  gnss_gps_fix,     \* ndpll->gnss_gps_fix: 0 no fix, 1 dead reckoning, 3 3D
  th,               \* what each thread changing lock_status does next
  armed,            \* holdover_timer queued
  left,             \* ticks until holdover_timer expires
  cb,               \* where nsim_dpll_holdover_timer_cb is
  ntf_timer,        \* the 1 Hz ntf_timer is running
  ntf_pending,      \* ntf_work is queued
  ntf_at,           \* where nsim_dpll_ntf_work is
  announced,        \* lock status in the last change notification of each device
  ubx_nav_enabled,  \* ndpll->ubx_nav_enabled
  ubx_timer,        \* ubx_timer queued
  nav_fix,          \* gpsFix of the last NAV-STATUS frame given to the reader
  gnss_open,        \* the GNSS character device is open
  phase,            \* progress of nsim_dpll_init and nsim_dpll_exit
  late              \* history: a GNSS write has armed the holdover timer or queued
                    \* the work when nothing was left to cancel it

status_vars == <<lock_status, th>>
signal_vars == <<signal_blocked, gnss_gps_fix>>
timer_vars  == <<armed, left, cb>>
ntf_vars    == <<ntf_timer, ntf_pending, ntf_at, announced>>
ubx_vars    == <<ubx_nav_enabled, ubx_timer, nav_fix, gnss_open>>
life_vars   == <<phase, late>>
vars == <<status_vars, signal_vars, timer_vars, ntf_vars, ubx_vars, life_vars>>

LOCKED   == "locked"     \* DPLL_LOCK_STATUS_LOCKED_HO_ACQ
HOLDOVER == "holdover"   \* DPLL_LOCK_STATUS_HOLDOVER
UNLOCKED == "freerun"    \* DPLL_LOCK_STATUS_UNLOCKED
LockStatus == {LOCKED, HOLDOVER, UNLOCKED}

GpsFix  == {0, 1, 3}
Threads == SysfsWriters \cup {Gnss}
Devices == {"pps", "eec"}

Idle == [pc |-> "idle", goal |-> LOCKED]
ThreadState == [pc: {"idle", "cancel", "cmp", "write", "sched", "arm"},
                goal: LockStatus]

\* The phases between the kzalloc of nsim_dpll_init and the kfree of
\* nsim_dpll_exit, in the order a device goes through them.
InitPhases == {"none", "timers", "registered", "gnss"}
ExitPhases == {"ntf", "holdover", "work", "ubx", "deregister", "free"}
UnwindPhases == {"unwind_ubx", "unwind_gnss", "unwind_ntf"}
Phases     == InitPhases \cup {"live"} \cup UnwindPhases \cup ExitPhases

\* The driver data of the GNSS device is set and the device not yet gone.
GnssReady == phase \in {"gnss", "live", "unwind_ubx", "unwind_gnss"} \cup (ExitPhases \ {"free"})

\* The holdover timer, or the work, will not be cancelled any more: nsim_dpll_exit
\* has done so, and the unwinding of nsim_dpll_init leaves the timer out.
TimerLeft == phase \in {"gnss", "unwind_ubx", "unwind_gnss", "work", "ubx", "deregister"}
WorkLeft  == phase \in {"ubx", "deregister"}

Lost == signal_blocked \/ gnss_gps_fix = 0

-----------------------------------------------------------------------------
(* Changing the lock status: nsim_dpll_enter_holdover compares, writes,    *)
(* schedules the work and arms the timer; nsim_dpll_enter_locked and the   *)
(* "freerun" branch of the attribute cancel the timer first.               *)

Enter(goal) == [pc |-> IF goal = HOLDOVER THEN "cmp" ELSE "cancel", goal |-> goal]

\* After the status is set, only enter_holdover has something left to do.
Finish(t) == IF th[t].goal = HOLDOVER THEN [th[t] EXCEPT !.pc = "arm"] ELSE Idle

\* Mutant: hrtimer_try_to_cancel, which does not wait for a running callback.
CancelTimerNoWait(t) ==
  /\ th[t].pc = "cancel"
  /\ armed' = FALSE
  /\ th' = [th EXCEPT ![t].pc = "cmp"]
  /\ UNCHANGED <<lock_status, left, cb, signal_vars, ntf_vars, ubx_vars, life_vars>>

\* hrtimer_cancel waits for a running callback.
CancelTimer(t) ==
  /\ th[t].pc = "cancel" /\ cb = "idle"
  /\ armed' = FALSE
  /\ th' = [th EXCEPT ![t].pc = "cmp"]
  /\ UNCHANGED <<lock_status, left, cb, signal_vars, ntf_vars, ubx_vars, life_vars>>

\* Mutant: a device already in HOLDOVER keeps the timer as it is.
CompareStatusEarlyReturn(t) ==
  /\ th[t].pc = "cmp"
  /\ th' = [th EXCEPT ![t] = IF lock_status = th[t].goal THEN Idle
                             ELSE [th[t] EXCEPT !.pc = "write"]]
  /\ UNCHANGED <<lock_status, signal_vars, timer_vars, ntf_vars, ubx_vars, life_vars>>

CompareStatus(t) ==
  /\ th[t].pc = "cmp"
  /\ th' = [th EXCEPT ![t] = IF lock_status = th[t].goal THEN Finish(t)
                             ELSE [th[t] EXCEPT !.pc = "write"]]
  /\ UNCHANGED <<lock_status, signal_vars, timer_vars, ntf_vars, ubx_vars, life_vars>>

WriteStatus(t) ==
  /\ th[t].pc = "write"
  /\ lock_status' = th[t].goal
  /\ th' = [th EXCEPT ![t].pc = "sched"]
  /\ UNCHANGED <<signal_vars, timer_vars, ntf_vars, ubx_vars, life_vars>>

\* Mutant: no second run of the work is queued while one is in progress.
ScheduleNtfIfIdle(t) ==
  /\ th[t].pc = "sched"
  /\ ntf_pending' = (ntf_pending \/ ntf_at = "idle")
  /\ th' = [th EXCEPT ![t] = Finish(t)]
  /\ UNCHANGED <<lock_status, signal_vars, timer_vars, ntf_timer, ntf_at,
                 announced, ubx_vars, life_vars>>

ScheduleNtf(t) ==
  /\ th[t].pc = "sched"
  /\ ntf_pending' = TRUE
  /\ th' = [th EXCEPT ![t] = Finish(t)]
  /\ late' = (late \/ (t = Gnss /\ WorkLeft))
  /\ UNCHANGED <<lock_status, signal_vars, timer_vars, ntf_timer, ntf_at,
                 announced, ubx_vars, phase>>

\* Mutant: one tick too many.
ArmTimerLong(t) ==
  /\ th[t].pc = "arm"
  /\ armed' = TRUE /\ left' = HoldoverTicks + 1
  /\ th' = [th EXCEPT ![t] = Idle]
  /\ UNCHANGED <<lock_status, cb, signal_vars, ntf_vars, ubx_vars, life_vars>>

ArmTimer(t) ==
  /\ th[t].pc = "arm"
  /\ armed' = TRUE /\ left' = HoldoverTicks
  /\ th' = [th EXCEPT ![t] = Idle]
  /\ late' = (late \/ (t = Gnss /\ TimerLeft))
  /\ UNCHANGED <<lock_status, cb, signal_vars, ntf_vars, ubx_vars, phase>>

ThreadStep(t) ==
  \/ CancelTimer(t) \/ CompareStatus(t) \/ WriteStatus(t)
  \/ ScheduleNtf(t) \/ ArmTimer(t)

-----------------------------------------------------------------------------
(* The holdover timer and its callback. *)

HoldoverTick ==
  /\ armed /\ left > 0
  /\ left' = left - 1
  /\ UNCHANGED <<status_vars, signal_vars, armed, cb, ntf_vars, ubx_vars, life_vars>>

HoldoverExpire ==
  /\ armed /\ left = 0 /\ cb = "idle"
  /\ armed' = FALSE /\ cb' = "check"
  /\ UNCHANGED <<status_vars, signal_vars, left, ntf_vars, ubx_vars, life_vars>>

\* Mutant: both ways of losing the signal are required.
HoldoverCheckBoth ==
  /\ cb = "check"
  /\ cb' = IF lock_status = HOLDOVER /\ signal_blocked /\ gnss_gps_fix = 0
           THEN "write" ELSE "idle"
  /\ UNCHANGED <<status_vars, signal_vars, armed, left, ntf_vars, ubx_vars, life_vars>>

HoldoverCheck ==
  /\ cb = "check"
  /\ cb' = IF lock_status = HOLDOVER /\ Lost THEN "write" ELSE "idle"
  /\ UNCHANGED <<status_vars, signal_vars, armed, left, ntf_vars, ubx_vars, life_vars>>

HoldoverWrite ==
  /\ cb = "write"
  /\ lock_status' = UNLOCKED
  /\ cb' = IF lock_status = UNLOCKED THEN "idle" ELSE "sched"
  /\ UNCHANGED <<th, signal_vars, armed, left, ntf_vars, ubx_vars, life_vars>>

HoldoverSchedule ==
  /\ cb = "sched"
  /\ ntf_pending' = TRUE
  /\ cb' = "idle"
  /\ UNCHANGED <<status_vars, signal_vars, armed, left, ntf_timer, ntf_at,
                 announced, ubx_vars, life_vars>>

HoldoverStep == HoldoverExpire \/ HoldoverCheck \/ HoldoverWrite \/ HoldoverSchedule

-----------------------------------------------------------------------------
(* The inputs: sysfs and the GNSS device. *)

\* nsim_dpll_lock_status_store; other words than the three return -EINVAL,
\* and a write while the signal is lost is accepted and ignored.
LockStatusStore(w, new_status) ==
  /\ phase = "live" /\ th[w] = Idle
  /\ ~Lost
  /\ th' = [th EXCEPT ![w] = Enter(new_status)]
  /\ UNCHANGED <<lock_status, signal_vars, timer_vars, ntf_vars, ubx_vars, life_vars>>

GgaQuality == {0, 1, 2, 6}
GgaQualityToGpsFix(q) == CASE q = 0 -> 0 [] q = 6 -> 1 [] OTHER -> 3

GnssWriting == gnss_open /\ GnssReady /\ th[Gnss] = Idle

\* nsim_parse_gga_fix on the first GGA sentence of a write.
GnssWriteGga(q) ==
  LET old_fix == gnss_gps_fix
      new_fix == GgaQualityToGpsFix(q)
  IN
  /\ GnssWriting /\ ~signal_blocked
  /\ gnss_gps_fix' = new_fix
  /\ th' = [th EXCEPT ![Gnss] =
              IF new_fix = 0 /\ old_fix # 0 THEN Enter(HOLDOVER)
              ELSE IF new_fix # 0 /\ (old_fix = 0 \/ lock_status # LOCKED)
                   THEN Enter(LOCKED) ELSE Idle]
  /\ UNCHANGED <<lock_status, signal_blocked, timer_vars, ntf_vars, ubx_vars, life_vars>>

\* Mutant: blocking the signal leaves the fix alone.
GnssCfgValsetKeepsFix(val) ==
  /\ GnssWriting
  /\ signal_blocked' = (val > 0)
  /\ th' = [th EXCEPT ![Gnss] = Enter(IF val > 0 THEN HOLDOVER ELSE LOCKED)]
  /\ UNCHANGED <<lock_status, gnss_gps_fix, timer_vars, ntf_vars, ubx_vars, life_vars>>

\* UBX CFG-VALSET with the key INFIL_NCNOTHRS: a value above 0 blocks the
\* signal, 0 restores it.
GnssCfgValset(val) ==
  /\ GnssWriting
  /\ signal_blocked' = (val > 0)
  /\ gnss_gps_fix' = IF val > 0 THEN 0 ELSE 3
  /\ th' = [th EXCEPT ![Gnss] = Enter(IF val > 0 THEN HOLDOVER ELSE LOCKED)]
  /\ UNCHANGED <<lock_status, timer_vars, ntf_vars, ubx_vars, life_vars>>

\* UBX CFG-MSG for a NAV message turns the emitter on if it is off.
GnssCfgMsg ==
  /\ GnssWriting
  /\ ubx_nav_enabled' = TRUE
  /\ ubx_timer' = (ubx_timer \/ ~ubx_nav_enabled)
  /\ UNCHANGED <<status_vars, signal_vars, timer_vars, ntf_vars, nav_fix,
                 gnss_open, life_vars>>

\* A NAV poll does the same and is answered with the current fix.
GnssNavPoll ==
  /\ GnssWriting
  /\ ubx_nav_enabled' = TRUE
  /\ ubx_timer' = (ubx_timer \/ ~ubx_nav_enabled)
  /\ nav_fix' = gnss_gps_fix
  /\ UNCHANGED <<status_vars, signal_vars, timer_vars, ntf_vars, gnss_open, life_vars>>

\* nsim_gnss_open.  Before gnss_set_drvdata there is no driver data, and the
\* open succeeds without starting the emitter.
GnssOpen ==
  /\ ~gnss_open
  /\ phase = "registered" \/ GnssReady
  /\ gnss_open' = TRUE
  /\ IF GnssReady THEN /\ ubx_nav_enabled' = TRUE
                       /\ ubx_timer' = (ubx_timer \/ ~ubx_nav_enabled)
                  ELSE UNCHANGED <<ubx_nav_enabled, ubx_timer>>
  /\ UNCHANGED <<status_vars, signal_vars, timer_vars, ntf_vars, nav_fix, life_vars>>

\* nsim_gnss_close.
GnssClose ==
  /\ gnss_open /\ th[Gnss] = Idle
  /\ gnss_open' = FALSE
  /\ IF GnssReady THEN ubx_nav_enabled' = FALSE /\ ubx_timer' = FALSE
                  ELSE UNCHANGED <<ubx_nav_enabled, ubx_timer>>
  /\ UNCHANGED <<status_vars, signal_vars, timer_vars, ntf_vars, nav_fix, life_vars>>

\* nsim_ubx_timer_cb: NAV-STATUS and NAV-CLOCK with the current fix.
UbxTick ==
  /\ ubx_timer
  /\ IF ubx_nav_enabled THEN nav_fix' = gnss_gps_fix /\ UNCHANGED ubx_timer
                        ELSE ubx_timer' = FALSE /\ UNCHANGED nav_fix
  /\ UNCHANGED <<status_vars, signal_vars, timer_vars, ntf_vars, ubx_nav_enabled,
                 gnss_open, life_vars>>

-----------------------------------------------------------------------------
(* Notifications. *)

NtfTick ==
  /\ ntf_timer
  /\ ntf_pending' = TRUE
  /\ UNCHANGED <<status_vars, signal_vars, timer_vars, ntf_timer, ntf_at,
                 announced, ubx_vars, life_vars>>

NtfWorkStart ==
  /\ ntf_pending /\ ntf_at = "idle"
  /\ ntf_pending' = FALSE /\ ntf_at' = "pps"
  /\ UNCHANGED <<status_vars, signal_vars, timer_vars, ntf_timer, announced,
                 ubx_vars, life_vars>>

\* dpll_device_change_ntf reads the lock status when it builds the message.
NtfWorkDevice(d) ==
  /\ ntf_at = d
  /\ announced' = [announced EXCEPT ![d] = lock_status]
  /\ ntf_at' = IF d = "pps" THEN "eec" ELSE "idle"
  /\ UNCHANGED <<status_vars, signal_vars, timer_vars, ntf_timer, ntf_pending,
                 ubx_vars, life_vars>>

NtfWork == NtfWorkStart \/ \E d \in Devices : NtfWorkDevice(d)

-----------------------------------------------------------------------------
(* nsim_dpll_init.  Every step may fail; the unwinding releases what was   *)
(* acquired, and leaves no DPLL behind.                                    *)

\* Allocation, the two devices, the GNSS pin and the external pins, and the
\* start of the notification timer.
InitDevices ==
  /\ phase = "none" /\ phase' = "timers"
  /\ lock_status' = LOCKED /\ signal_blocked' = FALSE /\ gnss_gps_fix' = 0
  /\ armed' = FALSE /\ left' = 0 /\ cb' = "idle"
  /\ ntf_timer' = TRUE /\ ntf_pending' = FALSE /\ ntf_at' = "idle"
  /\ ubx_nav_enabled' = FALSE /\ ubx_timer' = FALSE
  /\ late' = FALSE
  /\ UNCHANGED <<th, announced, nav_fix, gnss_open>>

\* The port pins and gnss_register_device, or a failure of either.
InitGnssRegister ==
  /\ phase = "timers"
  /\ phase' \in {"registered", "unwind_ntf"}
  /\ UNCHANGED <<status_vars, signal_vars, timer_vars, ntf_vars, ubx_vars, late>>

\* gnss_set_drvdata and the initial signal state.
InitGnssSetup ==
  /\ phase = "registered"
  /\ phase' = "gnss"
  /\ ubx_nav_enabled' = FALSE /\ signal_blocked' = FALSE /\ gnss_gps_fix' = 3
  /\ UNCHANGED <<status_vars, timer_vars, ntf_vars, ubx_timer, nav_fix, gnss_open, late>>

\* The attribute and the first notifications, or a failure of the former.
InitSysfs ==
  /\ phase = "gnss"
  /\ \/ /\ phase' = "live" /\ late' = FALSE
        /\ announced' = [d \in Devices |-> lock_status]
     \/ /\ phase' = "unwind_ubx"
        /\ UNCHANGED <<announced, late>>
  /\ UNCHANGED <<status_vars, signal_vars, timer_vars, ntf_timer, ntf_pending,
                 ntf_at, ubx_vars>>

\* gnss_deregister_device waits for the writer and closes an open device;
\* the file of its user reaches the driver no more.
GnssGone ==
  /\ th[Gnss] = Idle
  /\ gnss_open' = FALSE
  /\ IF gnss_open THEN ubx_nav_enabled' = FALSE /\ ubx_timer' = FALSE
                  ELSE UNCHANGED <<ubx_nav_enabled, ubx_timer>>
  /\ UNCHANGED nav_fix

\* err_gnss_cleanup: the emitter, then the GNSS device, which may have been
\* opened in between.
UnwindUbxTimer ==
  /\ phase = "unwind_ubx" /\ phase' = "unwind_gnss"
  /\ ubx_nav_enabled' = FALSE /\ ubx_timer' = FALSE
  /\ UNCHANGED <<status_vars, signal_vars, timer_vars, ntf_vars, nav_fix, gnss_open, late>>

UnwindGnss ==
  /\ phase = "unwind_gnss" /\ phase' = "unwind_ntf"
  /\ GnssGone
  /\ UNCHANGED <<status_vars, signal_vars, timer_vars, ntf_vars, late>>

\* err_ports_cleanup and below: the timer, the work, the pins, the memory.
UnwindNtf ==
  /\ phase = "unwind_ntf" /\ phase' = "none"
  /\ ntf_at = "idle"
  /\ ntf_timer' = FALSE /\ ntf_pending' = FALSE
  /\ UNCHANGED <<status_vars, signal_vars, timer_vars, ntf_at, announced, ubx_vars, late>>

-----------------------------------------------------------------------------
(* nsim_dpll_exit. *)

\* sysfs_remove_file waits for writers of the attribute.
ExitSysfs ==
  /\ phase = "live" /\ phase' = "ntf"
  /\ \A w \in SysfsWriters : th[w] = Idle
  /\ UNCHANGED <<status_vars, signal_vars, timer_vars, ntf_vars, ubx_vars, late>>

ExitNtfTimer ==
  /\ phase = "ntf" /\ phase' = "holdover"
  /\ ntf_timer' = FALSE
  /\ UNCHANGED <<status_vars, signal_vars, timer_vars, ntf_pending, ntf_at,
                 announced, ubx_vars, late>>

\* Mutant: the holdover timer is forgotten, as on the error path of the init.
ExitHoldoverTimerForgotten ==
  /\ phase = "holdover" /\ phase' = "work"
  /\ UNCHANGED <<status_vars, signal_vars, timer_vars, ntf_vars, ubx_vars, late>>

ExitHoldoverTimer ==
  /\ phase = "holdover" /\ phase' = "work"
  /\ cb = "idle" /\ armed' = FALSE
  /\ UNCHANGED <<status_vars, signal_vars, left, cb, ntf_vars, ubx_vars, late>>

\* cancel_work_sync.
ExitNtfWork ==
  /\ phase = "work" /\ phase' = "ubx"
  /\ ntf_at = "idle" /\ ntf_pending' = FALSE
  /\ UNCHANGED <<status_vars, signal_vars, timer_vars, ntf_timer, ntf_at,
                 announced, ubx_vars, late>>

ExitUbxTimer ==
  /\ phase = "ubx" /\ phase' = "deregister"
  /\ ubx_nav_enabled' = FALSE /\ ubx_timer' = FALSE
  /\ UNCHANGED <<status_vars, signal_vars, timer_vars, ntf_vars, nav_fix, gnss_open, late>>

ExitGnss ==
  /\ phase = "deregister" /\ phase' = "free"
  /\ GnssGone
  /\ UNCHANGED <<status_vars, signal_vars, timer_vars, ntf_vars, late>>

\* The pins, the devices and kfree.
ExitFree ==
  /\ phase = "free" /\ phase' = "none"
  /\ UNCHANGED <<status_vars, signal_vars, timer_vars, ntf_vars, ubx_vars, late>>

Lifecycle ==
  \/ InitDevices \/ InitGnssRegister \/ InitGnssSetup \/ InitSysfs
  \/ UnwindUbxTimer \/ UnwindGnss \/ UnwindNtf
  \/ ExitSysfs \/ ExitNtfTimer \/ ExitHoldoverTimer \/ ExitNtfWork
  \/ ExitUbxTimer \/ ExitGnss \/ ExitFree

-----------------------------------------------------------------------------
Init ==
  /\ lock_status = LOCKED /\ th = [t \in Threads |-> Idle]
  /\ signal_blocked = FALSE /\ gnss_gps_fix = 3
  /\ armed = FALSE /\ left = 0 /\ cb = "idle"
  /\ ntf_timer = FALSE /\ ntf_pending = FALSE /\ ntf_at = "idle"
  /\ announced = [d \in Devices |-> LOCKED]
  /\ ubx_nav_enabled = FALSE /\ ubx_timer = FALSE /\ nav_fix = 3 /\ gnss_open = FALSE
  /\ phase = "none" /\ late = FALSE

Input ==
  \/ \E w \in SysfsWriters, s \in LockStatus : LockStatusStore(w, s)
  \/ \E q \in GgaQuality : GnssWriteGga(q)
  \/ \E val \in {0, 1} : GnssCfgValset(val)
  \/ GnssCfgMsg \/ GnssNavPoll \/ GnssOpen \/ GnssClose

Next ==
  \/ Input
  \/ \E t \in Threads : ThreadStep(t)
  \/ HoldoverTick \/ HoldoverStep \/ UbxTick \/ NtfTick \/ NtfWork
  \/ Lifecycle

Spec == Init /\ [][Next]_vars

\* The kernel runs timers, callbacks, the work queue and a handler that has
\* started; nobody is obliged to write to the device or to remove it.
Fairness ==
  /\ \A t \in Threads : WF_vars(ThreadStep(t))
  /\ WF_vars(HoldoverTick) /\ WF_vars(HoldoverStep)
  /\ WF_vars(UbxTick) /\ WF_vars(NtfWork)

FairSpec == Spec /\ Fairness

-----------------------------------------------------------------------------
(* Properties. *)

\* The variables that hold a truth value, and the others.
FlagsOK ==
  /\ signal_blocked \in BOOLEAN /\ armed \in BOOLEAN
  /\ ntf_timer \in BOOLEAN /\ ntf_pending \in BOOLEAN
  /\ ubx_nav_enabled \in BOOLEAN /\ ubx_timer \in BOOLEAN /\ gnss_open \in BOOLEAN
  /\ late \in BOOLEAN

DataOK ==
  /\ lock_status \in LockStatus
  /\ gnss_gps_fix \in GpsFix
  /\ th \in [Threads -> ThreadState]
  /\ left \in 0..HoldoverTicks
  /\ cb \in {"idle", "check", "write", "sched"}
  /\ ntf_at \in {"idle", "pps", "eec"}
  /\ announced \in [Devices -> LockStatus]
  /\ nav_fix \in GpsFix
  /\ phase \in Phases

\* Every variable keeps its type; in particular the remaining time of the
\* holdover timer stays within the configured window.
TypeOK == FlagsOK /\ DataOK

\* No change of the lock status is lost on netlink listeners: unless a
\* notification is still on its way, the last one sent for each device
\* carries the current status, however the writers, the timer callback and
\* the work interleave (nsim_dpll_set_lock_status, nsim_dpll_ntf_work).
NoLostNotification ==
  (/\ phase = "live"
   /\ ~ntf_pending /\ ntf_at = "idle" /\ cb # "sched"
   /\ \A t \in Threads : th[t].pc # "sched")
     => \A d \in Devices : announced[d] = lock_status

\* A device that coasts without a signal always has a holdover timer that
\* will end it: no interleaving of the GNSS writer, of sysfs writers and of
\* the callback leaves it in HOLDOVER for good (nsim_dpll_enter_holdover
\* re-arms the timer even when the status does not change).
HoldoverHasTimer ==
  (/\ phase = "live" /\ Lost /\ lock_status = HOLDOVER
   /\ \A t \in Threads : th[t] = Idle)
     => armed \/ cb \in {"check", "write"}

\* When the memory of the DPLL is gone, no timer and no work is left that would
\* touch it (nsim_dpll_exit and the error path of nsim_dpll_init), whoever opened,
\* wrote or closed the GNSS device and the attribute while it went: except that a
\* GNSS write which arms the holdover timer or queues the work after exit has
\* cancelled it, or on the way through an init that fails, leaves these behind.
NothingArmedWhenFreed ==
  phase = "none" => /\ ~ntf_timer /\ ~ubx_timer
                    /\ late \/ (~armed /\ cb = "idle" /\ ~ntf_pending /\ ntf_at = "idle")

\* Without sysfs writers the status follows the signal: while it is blocked or
\* without fix the driver owns the status and it is not LOCKED (the comment in
\* nsim_dpll_lock_status_store), and a restored signal leaves the device LOCKED
\* with no holdover timer behind, even when the restore meets the expiring timer.
SignalOwnsStatus ==
  (phase = "live" /\ \A t \in Threads : th[t] = Idle) =>
    IF Lost THEN lock_status # LOCKED ELSE lock_status = LOCKED /\ ~armed

\* A coasting window that has started to run ends in FREERUN, unless the
\* signal comes back, the window is started anew or the device goes away.
LossEndsInFreerun ==
  (phase = "live" /\ Lost /\ lock_status = HOLDOVER /\ armed /\ left < HoldoverTicks)
    ~> (lock_status = UNLOCKED \/ ~Lost \/ left = HoldoverTicks \/ phase # "live")

\* A reader of the NAV stream gets to see a blocked signal as no fix.
NavReportsLoss ==
  (signal_blocked /\ ubx_nav_enabled)
    ~> (nav_fix = 0 \/ ~signal_blocked \/ ~ubx_nav_enabled)
=============================================================================
