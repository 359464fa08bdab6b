--------------------------- MODULE NsimDpllProofs ---------------------------
(***************************************************************************)
(* Proofs about NsimDpll for any set of sysfs writers and any length of    *)
(* the holdover window.                                                    *)
(***************************************************************************)
EXTENDS NsimDpll, TLAPS

USE NsimDpllAssumption DEF NsimDpllAssumption

\* The truth-valued variables keep their type.
LEMMA FlagsStep == FlagsOK /\ [Next]_vars => FlagsOK'
<1> SUFFICES ASSUME FlagsOK, [Next]_vars PROVE FlagsOK'
  OBVIOUS
<1> USE DEF FlagsOK, status_vars, signal_vars, timer_vars, ntf_vars, ubx_vars, life_vars
<1>1. ASSUME NEW t \in Threads, ThreadStep(t) PROVE FlagsOK'
  BY <1>1 DEF ThreadStep, CancelTimer, CompareStatus, WriteStatus, ScheduleNtf,
              ArmTimer
<1>2. CASE HoldoverTick \/ HoldoverStep
  BY <1>2 DEF HoldoverTick, HoldoverStep, HoldoverExpire, HoldoverCheck,
              HoldoverWrite, HoldoverSchedule
<1>3. ASSUME NEW w \in SysfsWriters, NEW s \in LockStatus, LockStatusStore(w, s)
      PROVE  FlagsOK'
  BY <1>3 DEF LockStatusStore
<1>4. ASSUME NEW q \in GgaQuality, GnssWriteGga(q) PROVE FlagsOK'
  BY <1>4 DEF GnssWriteGga
<1>5. ASSUME NEW val \in {0, 1}, GnssCfgValset(val) PROVE FlagsOK'
  BY <1>5 DEF GnssCfgValset
<1>6. CASE GnssCfgMsg \/ GnssNavPoll \/ UbxTick
  BY <1>6 DEF GnssCfgMsg, GnssNavPoll, UbxTick
<1>7. CASE GnssOpen \/ GnssClose
  BY <1>7 DEF GnssOpen, GnssClose
<1>8. CASE NtfTick \/ NtfWork
  BY <1>8 DEF NtfTick, NtfWork, NtfWorkStart, NtfWorkDevice
<1>9. CASE Lifecycle
  BY <1>9 DEF Lifecycle, InitDevices, InitGnssRegister, InitGnssSetup,
     InitSysfs, UnwindUbxTimer, UnwindGnss, UnwindNtf, ExitSysfs, ExitNtfTimer,
     ExitHoldoverTimer, ExitNtfWork, ExitUbxTimer, ExitGnss, ExitFree, GnssGone
<1>10. CASE UNCHANGED vars
  BY <1>10 DEF vars
<1> QED
  BY <1>1, <1>2, <1>3, <1>4, <1>5, <1>6, <1>7, <1>8, <1>9, <1>10 DEF Next, Input

\* The other variables keep theirs.
LEMMA DataStep == DataOK /\ [Next]_vars => DataOK'
<1> SUFFICES ASSUME DataOK, [Next]_vars PROVE DataOK'
  OBVIOUS
<1> USE DEF LOCKED, HOLDOVER, UNLOCKED, LockStatus, GpsFix, Threads, Devices,
            ThreadState, Idle, InitPhases, UnwindPhases, ExitPhases, Phases,
            status_vars, signal_vars, timer_vars, ntf_vars, ubx_vars, life_vars
<1>1. ASSUME NEW t \in Threads, CancelTimer(t) PROVE DataOK'
  BY <1>1 DEF DataOK, CancelTimer
<1>2. ASSUME NEW t \in Threads, CompareStatus(t) PROVE DataOK'
  BY <1>2 DEF DataOK, CompareStatus, Finish
<1>3. ASSUME NEW t \in Threads, WriteStatus(t) PROVE DataOK'
  BY <1>3 DEF DataOK, WriteStatus
<1>4. ASSUME NEW t \in Threads, ScheduleNtf(t) PROVE DataOK'
  BY <1>4 DEF DataOK, ScheduleNtf, Finish
<1>5. ASSUME NEW t \in Threads, ArmTimer(t) PROVE DataOK'
  BY <1>5 DEF DataOK, ArmTimer
<1>6. CASE HoldoverTick
  BY <1>6 DEF DataOK, HoldoverTick
<1>7. CASE HoldoverStep
  BY <1>7 DEF DataOK, HoldoverStep, HoldoverExpire, HoldoverCheck,
              HoldoverWrite, HoldoverSchedule
<1>8. ASSUME NEW w \in SysfsWriters, NEW s \in LockStatus, LockStatusStore(w, s)
      PROVE  DataOK'
  BY <1>8 DEF DataOK, LockStatusStore, Enter
<1>9. ASSUME NEW q \in GgaQuality, GnssWriteGga(q) PROVE DataOK'
  <2>1. GgaQualityToGpsFix(q) \in GpsFix
    BY DEF GgaQualityToGpsFix, GgaQuality
  <2>2. Enter(HOLDOVER) \in ThreadState /\ Enter(LOCKED) \in ThreadState
    BY DEF Enter
  <2> QED BY <1>9, <2>1, <2>2 DEF DataOK, GnssWriteGga
<1>10. ASSUME NEW val \in {0, 1}, GnssCfgValset(val) PROVE DataOK'
  BY <1>10 DEF DataOK, GnssCfgValset, Enter
<1>11. CASE GnssCfgMsg \/ GnssNavPoll
  BY <1>11 DEF DataOK, GnssCfgMsg, GnssNavPoll
<1>12. CASE GnssOpen \/ GnssClose \/ UbxTick
  BY <1>12 DEF DataOK, GnssOpen, GnssClose, UbxTick
<1>13. CASE NtfTick \/ NtfWork
  BY <1>13 DEF DataOK, NtfTick, NtfWork, NtfWorkStart, NtfWorkDevice
<1>14. CASE Lifecycle
  BY <1>14 DEF DataOK, Lifecycle, InitDevices, InitGnssRegister, InitGnssSetup,
     InitSysfs, UnwindUbxTimer, UnwindGnss, UnwindNtf, ExitSysfs, ExitNtfTimer,
     ExitHoldoverTimer, ExitNtfWork, ExitUbxTimer, ExitGnss, ExitFree, GnssGone
<1>15. CASE UNCHANGED vars
  BY <1>15 DEF DataOK, vars
<1> QED
  BY <1>1, <1>2, <1>3, <1>4, <1>5, <1>6, <1>7, <1>8, <1>9, <1>10, <1>11,
     <1>12, <1>13, <1>14, <1>15 DEF Next, Input, ThreadStep

\* Type correctness: every step of the driver keeps TypeOK.
THEOREM TypeCorrect == Spec => []TypeOK
<1>1. Init => FlagsOK
  BY DEF Init, FlagsOK
<1>2. Init => DataOK
  BY DEF Init, DataOK, LOCKED, HOLDOVER, UNLOCKED, LockStatus, GpsFix, Threads,
         Devices, ThreadState, Idle, InitPhases, Phases
<1> QED
  BY <1>1, <1>2, FlagsStep, DataStep, PTL DEF Spec, TypeOK

-----------------------------------------------------------------------------
(* No notification is lost.  The invariant names what is still on its way  *)
(* when the last message about a device is out of date: a queued work, a   *)
(* work that has yet to come to the device, or a writer between its store  *)
(* and its schedule_work.                                                  *)

Owed(d) ==
  \/ ntf_pending
  \/ ntf_at = "pps" \/ ntf_at = d
  \/ cb = "sched"
  \/ \E t \in Threads : th[t].pc = "sched"

NtfInv == phase = "live" => \A d \in Devices : announced[d] = lock_status \/ Owed(d)

\* Every step keeps NtfInv.
LEMMA NtfStep == TypeOK /\ NtfInv /\ [Next]_vars => NtfInv'
<1> SUFFICES ASSUME TypeOK, NtfInv, [Next]_vars PROVE NtfInv'
  OBVIOUS
<1> USE DEF TypeOK, DataOK, NtfInv, Owed, ThreadState, Devices,
            status_vars, signal_vars, timer_vars, ntf_vars, ubx_vars, life_vars
<1>1. ASSUME NEW t \in Threads, CancelTimer(t) PROVE NtfInv'
  BY <1>1 DEF CancelTimer
<1>2. ASSUME NEW t \in Threads, CompareStatus(t) PROVE NtfInv'
  BY <1>2 DEF CompareStatus, Finish, Idle
<1>3. ASSUME NEW t \in Threads, WriteStatus(t) PROVE NtfInv'
  BY <1>3 DEF WriteStatus
<1>4. ASSUME NEW t \in Threads, ScheduleNtf(t) PROVE NtfInv'
  BY <1>4 DEF ScheduleNtf
<1>5. ASSUME NEW t \in Threads, ArmTimer(t) PROVE NtfInv'
  BY <1>5 DEF ArmTimer, Idle
<1>6. CASE HoldoverTick \/ HoldoverExpire \/ HoldoverCheck
  BY <1>6 DEF HoldoverTick, HoldoverExpire, HoldoverCheck
<1>7. CASE HoldoverWrite \/ HoldoverSchedule
  BY <1>7 DEF HoldoverWrite, HoldoverSchedule
<1>8. ASSUME NEW w \in SysfsWriters, NEW s \in LockStatus, LockStatusStore(w, s)
      PROVE  NtfInv'
  BY <1>8 DEF LockStatusStore, Enter, Idle, Threads
<1>9. ASSUME NEW q \in GgaQuality, GnssWriteGga(q) PROVE NtfInv'
  BY <1>9 DEF GnssWriteGga, GnssWriting, Enter, Idle, Threads
<1>10. ASSUME NEW val \in {0, 1}, GnssCfgValset(val) PROVE NtfInv'
  BY <1>10 DEF GnssCfgValset, GnssWriting, Enter, Idle, Threads
<1>11. CASE GnssCfgMsg \/ GnssNavPoll \/ GnssOpen \/ GnssClose \/ UbxTick
  BY <1>11 DEF GnssCfgMsg, GnssNavPoll, GnssOpen, GnssClose, UbxTick
<1>12. CASE NtfTick \/ NtfWork
  BY <1>12 DEF NtfTick, NtfWork, NtfWorkStart, NtfWorkDevice
<1>13. CASE Lifecycle
  BY <1>13 DEF Lifecycle, InitDevices, InitGnssRegister, InitGnssSetup,
     InitSysfs, UnwindUbxTimer, UnwindGnss, UnwindNtf, ExitSysfs, ExitNtfTimer,
     ExitHoldoverTimer, ExitNtfWork, ExitUbxTimer, ExitGnss, ExitFree, GnssGone
<1>14. CASE UNCHANGED vars
  BY <1>14 DEF vars
<1> QED
  BY <1>1, <1>2, <1>3, <1>4, <1>5, <1>6, <1>7, <1>8, <1>9, <1>10, <1>11,
     <1>12, <1>13, <1>14 DEF Next, Input, ThreadStep, HoldoverStep

\* However writers, the timer callback and the work interleave, the last
\* notification carries the current status unless one is on its way.
THEOREM NotificationsNeverLost == Spec => []NoLostNotification
<1>1. Init => NtfInv
  BY DEF Init, NtfInv
<1>2. TypeOK /\ NtfInv => NoLostNotification
  BY DEF TypeOK, DataOK, NtfInv, Owed, NoLostNotification, Devices
<1> QED
  BY <1>1, <1>2, NtfStep, TypeCorrect, PTL DEF Spec

-----------------------------------------------------------------------------
(* A coasting device has its timer.  A thread that is on its way to        *)
(* HOLDOVER will arm it; one on its way elsewhere has cancelled it but     *)
(* will overwrite the status.                                              *)

Attended(t) ==
  \/ th[t].goal = HOLDOVER /\ th[t].pc \in {"cmp", "write", "sched", "arm"}
  \/ th[t].goal # HOLDOVER /\ th[t].pc \in {"cmp", "write"}

CoastInv ==
  (phase \in {"gnss", "live"} /\ Lost /\ lock_status = HOLDOVER)
    => armed \/ cb \in {"check", "write"} \/ \E t \in Threads : Attended(t)

CancelInv == \A t \in Threads : th[t].pc = "cancel" => th[t].goal # HOLDOVER

\* Only threads that leave HOLDOVER cancel the timer.
LEMMA CancelStep == DataOK /\ CancelInv /\ [Next]_vars => CancelInv'
<1> SUFFICES ASSUME DataOK, CancelInv, [Next]_vars PROVE CancelInv'
  OBVIOUS
<1> USE DEF DataOK, CancelInv, ThreadState, LOCKED, HOLDOVER, UNLOCKED, LockStatus,
            status_vars, signal_vars, timer_vars, ntf_vars, ubx_vars, life_vars, Idle
<1>1. ASSUME NEW t \in Threads, ThreadStep(t) PROVE CancelInv'
  BY <1>1 DEF ThreadStep, CancelTimer, CompareStatus, WriteStatus, ScheduleNtf,
              ArmTimer, Finish
<1>2. ASSUME NEW w \in SysfsWriters, NEW s \in LockStatus, LockStatusStore(w, s)
      PROVE  CancelInv'
  BY <1>2 DEF LockStatusStore, Enter
<1>3. ASSUME NEW q \in GgaQuality, GnssWriteGga(q) PROVE CancelInv'
  BY <1>3 DEF GnssWriteGga, Enter
<1>4. ASSUME NEW val \in {0, 1}, GnssCfgValset(val) PROVE CancelInv'
  BY <1>4 DEF GnssCfgValset, Enter
<1>5. CASE UNCHANGED th
  BY <1>5
<1> QED
  BY <1>1, <1>2, <1>3, <1>4, <1>5 DEF Next, vars, Input, HoldoverStep, NtfWork, Lifecycle,
     HoldoverTick, HoldoverExpire, HoldoverCheck, HoldoverWrite, HoldoverSchedule,
     GnssCfgMsg, GnssNavPoll, GnssOpen, GnssClose, UbxTick, NtfTick, NtfWorkStart,
     NtfWorkDevice, InitDevices, InitGnssRegister, InitGnssSetup, InitSysfs,
     UnwindUbxTimer, UnwindGnss, UnwindNtf, ExitSysfs, ExitNtfTimer, ExitHoldoverTimer,
     ExitNtfWork, ExitUbxTimer, ExitGnss, ExitFree

\* Every step keeps CoastInv.
LEMMA CoastStep == DataOK /\ CancelInv /\ CoastInv /\ [Next]_vars => CoastInv'
<1> SUFFICES ASSUME DataOK, CancelInv, CoastInv, [Next]_vars PROVE CoastInv'
  OBVIOUS
<1> USE DEF DataOK, CancelInv, CoastInv, Attended, Lost, ThreadState,
            LOCKED, HOLDOVER, UNLOCKED, LockStatus,
            status_vars, signal_vars, timer_vars, ntf_vars, ubx_vars, life_vars
<1>1. ASSUME NEW t \in Threads, CancelTimer(t) PROVE CoastInv'
  BY <1>1 DEF CancelTimer
<1>2. ASSUME NEW t \in Threads, CompareStatus(t) PROVE CoastInv'
  BY <1>2 DEF CompareStatus, Finish, Idle
<1>3. ASSUME NEW t \in Threads, WriteStatus(t) PROVE CoastInv'
  BY <1>3 DEF WriteStatus
<1>4. ASSUME NEW t \in Threads, ScheduleNtf(t) PROVE CoastInv'
  BY <1>4 DEF ScheduleNtf, Finish, Idle
<1>5. ASSUME NEW t \in Threads, ArmTimer(t) PROVE CoastInv'
  BY <1>5 DEF ArmTimer
<1>6. CASE HoldoverTick \/ HoldoverStep
  BY <1>6 DEF HoldoverTick, HoldoverStep, HoldoverExpire, HoldoverCheck,
              HoldoverWrite, HoldoverSchedule
<1>7. ASSUME NEW w \in SysfsWriters, NEW s \in LockStatus, LockStatusStore(w, s)
      PROVE  CoastInv'
  BY <1>7 DEF LockStatusStore
<1>8. ASSUME NEW q \in GgaQuality, GnssWriteGga(q) PROVE CoastInv'
  <2>1. CASE gnss_gps_fix # 0 /\ gnss_gps_fix' = 0
    BY <1>8, <2>1 DEF GnssWriteGga, Enter, Threads
  <2>2. CASE gnss_gps_fix' # 0
    BY <1>8, <2>2 DEF GnssWriteGga
  <2>3. CASE gnss_gps_fix = 0 /\ gnss_gps_fix' = 0
    <3>1. th' = th
      BY <1>8, <2>3 DEF GnssWriteGga, GnssWriting
    <3> QED BY <1>8, <2>3, <3>1 DEF GnssWriteGga
  <2> QED BY <2>1, <2>2, <2>3
<1>9. ASSUME NEW val \in {0, 1}, GnssCfgValset(val) PROVE CoastInv'
  <2>1. CASE val = 1
    BY <1>9, <2>1 DEF GnssCfgValset, Enter, Threads
  <2>2. CASE val = 0
    <3>1. ~Lost'
      <4>1. ~(val > 0)
        BY <2>2
      <4>2. ~signal_blocked'
        BY <1>9, <4>1 DEF GnssCfgValset
      <4>3. gnss_gps_fix' = 3
        BY <1>9, <4>1 DEF GnssCfgValset
      <4> QED BY <4>2, <4>3
    <3> QED BY <3>1
  <2> QED BY <2>1, <2>2
<1>10. CASE GnssCfgMsg \/ GnssNavPoll \/ GnssOpen \/ GnssClose \/ UbxTick
  BY <1>10 DEF GnssCfgMsg, GnssNavPoll, GnssOpen, GnssClose, UbxTick
<1>11. CASE NtfTick \/ NtfWork
  BY <1>11 DEF NtfTick, NtfWork, NtfWorkStart, NtfWorkDevice
<1>12. CASE Lifecycle
  BY <1>12 DEF Lifecycle, InitDevices, InitGnssRegister, InitGnssSetup,
     InitSysfs, UnwindUbxTimer, UnwindGnss, UnwindNtf, ExitSysfs, ExitNtfTimer,
     ExitHoldoverTimer, ExitNtfWork, ExitUbxTimer, ExitGnss, ExitFree, GnssGone
<1>13. CASE UNCHANGED vars
  BY <1>13 DEF vars
<1> QED
  BY <1>1, <1>2, <1>3, <1>4, <1>5, <1>6, <1>7, <1>8, <1>9, <1>10, <1>11,
     <1>12, <1>13 DEF Next, Input, ThreadStep

\* No interleaving leaves a device without signal in HOLDOVER for good: when
\* every handler has returned, the timer is armed or its callback running.
THEOREM CoastingIsBounded == Spec => []HoldoverHasTimer
<1>1. Init => CancelInv /\ CoastInv
  BY DEF Init, CancelInv, CoastInv, Idle, LOCKED, HOLDOVER
<1>2. TypeOK /\ CoastInv => HoldoverHasTimer
  BY DEF CoastInv, HoldoverHasTimer, Attended, Idle
<1> QED
  BY <1>1, <1>2, CancelStep, CoastStep, TypeCorrect, PTL DEF Spec, TypeOK

-----------------------------------------------------------------------------
(* Nothing is left armed.  From the removal of the attribute on only the   *)
(* GNSS writer is left to change the status, and when it arms the timer or *)
(* queues the work too late to be cancelled, late says so: each conjunct   *)
(* lists the phases in which a timer or the work is otherwise off.  The    *)
(* emitter needs no such exception: it runs only for an open device, which *)
(* gnss_deregister_device closes.                                          *)

ThreadsInv ==
  /\ \A t \in SysfsWriters : th[t] # Idle => phase = "live"
  /\ th[Gnss] # Idle => gnss_open /\ phase # "registered"
  /\ gnss_open => phase = "registered" \/ GnssReady
  /\ ubx_timer => gnss_open /\ phase # "registered"

QuietInv ==
  /\ phase \notin {"live", "ntf", "holdover"} /\ ~late => ~armed /\ cb = "idle"
  /\ phase \in {"none", "holdover", "work", "ubx", "deregister", "free"} => ~ntf_timer
  /\ phase \in {"none", "ubx", "deregister", "free"} /\ ~late => ~ntf_pending /\ ntf_at = "idle"

\* Every step keeps ThreadsInv.
LEMMA ThreadsStep ==
  ASSUME TypeOK, ThreadsInv, [Next]_vars
  PROVE  ThreadsInv'
<1> USE DEF TypeOK, FlagsOK, DataOK, ThreadsInv, Threads, GnssReady, ExitPhases,
            status_vars, signal_vars, timer_vars, ntf_vars, ubx_vars, life_vars
<1>1. ASSUME NEW t \in Threads, ThreadStep(t) PROVE ThreadsInv'
  <2>1. th[t] # Idle
    BY <1>1 DEF ThreadStep, CancelTimer, CompareStatus, WriteStatus, ScheduleNtf, ArmTimer, Idle
  <2>2. /\ \A u \in Threads \ {t} : th'[u] = th[u]
        /\ UNCHANGED <<phase, gnss_open, ubx_timer>>
    BY <1>1 DEF ThreadStep, CancelTimer, CompareStatus, WriteStatus, ScheduleNtf, ArmTimer
  <2> QED
    BY <2>1, <2>2
<1>2. ASSUME NEW w \in SysfsWriters, NEW s \in LockStatus, LockStatusStore(w, s)
      PROVE  ThreadsInv'
  <2>1. th'[Gnss] = th[Gnss] /\ phase = "live" /\ UNCHANGED <<phase, gnss_open, ubx_timer>>
    BY <1>2 DEF LockStatusStore
  <2> QED
    BY <2>1, <1>2 DEF LockStatusStore
<1>3. ASSUME NEW q \in GgaQuality, GnssWriteGga(q) PROVE ThreadsInv'
  <2>1. GnssWriting /\ UNCHANGED <<phase, gnss_open, ubx_timer>>
    BY <1>3 DEF GnssWriteGga
  <2>2. \A w \in SysfsWriters : th'[w] = th[w]
    BY <1>3 DEF GnssWriteGga
  <2> QED
    BY <2>1, <2>2 DEF GnssWriting
<1>4. ASSUME NEW val \in {0, 1}, GnssCfgValset(val) PROVE ThreadsInv'
  <2>1. GnssWriting /\ UNCHANGED <<phase, gnss_open, ubx_timer>>
    BY <1>4 DEF GnssCfgValset
  <2>2. \A w \in SysfsWriters : th'[w] = th[w]
    BY <1>4 DEF GnssCfgValset
  <2> QED
    BY <2>1, <2>2 DEF GnssWriting
<1>5. CASE UNCHANGED <<th, gnss_open, phase, ubx_timer>>
  BY <1>5
<1>6. CASE GnssCfgMsg \/ GnssNavPoll \/ GnssOpen \/ GnssClose \/ UbxTick
  BY <1>6 DEF GnssCfgMsg, GnssNavPoll, GnssOpen, GnssClose, UbxTick, GnssWriting
<1>7. CASE Lifecycle
  <2>1. th' = th
    BY <1>7 DEF Lifecycle, InitDevices, InitGnssRegister, InitGnssSetup, InitSysfs,
       UnwindUbxTimer, UnwindGnss, UnwindNtf, ExitSysfs, ExitNtfTimer, ExitHoldoverTimer,
       ExitNtfWork, ExitUbxTimer, ExitGnss, ExitFree
  <2>2. CASE ExitSysfs
    BY <2>1, <2>2 DEF ExitSysfs
  <2>3. CASE ~ExitSysfs
    BY <1>7, <2>1, <2>3 DEF Lifecycle, InitDevices, InitGnssRegister, InitGnssSetup, InitSysfs,
       UnwindUbxTimer, UnwindGnss, UnwindNtf, ExitNtfTimer, ExitHoldoverTimer, ExitNtfWork,
       ExitUbxTimer, ExitGnss, ExitFree, GnssGone
  <2> QED
    BY <2>2, <2>3
<1> QED
  BY <1>1, <1>2, <1>3, <1>4, <1>5, <1>6, <1>7 DEF Next, vars, Input, HoldoverStep, NtfWork,
     HoldoverTick, HoldoverExpire, HoldoverCheck, HoldoverWrite, HoldoverSchedule,
     NtfTick, NtfWorkStart, NtfWorkDevice

\* Every step keeps QuietInv.
LEMMA QuietStep ==
  ASSUME TypeOK, ThreadsInv, QuietInv, [Next]_vars
  PROVE  QuietInv'
<1> USE DEF TypeOK, FlagsOK, DataOK, QuietInv,
            status_vars, signal_vars, timer_vars, ntf_vars, ubx_vars, life_vars
<1>1. ASSUME NEW t \in Threads, ThreadStep(t) PROVE QuietInv'
  <2>1. th[t] # Idle
    BY <1>1 DEF ThreadStep, CancelTimer, CompareStatus, WriteStatus, ScheduleNtf, ArmTimer, Idle
  <2>2. phase = "live" \/ (t = Gnss /\ GnssReady)
    BY <2>1 DEF ThreadsInv, Threads
  <2>3. CASE ArmTimer(t)
    <3>1. phase \notin {"live", "ntf", "holdover"} => t = Gnss /\ TimerLeft
      BY <2>2 DEF TimerLeft, GnssReady, ExitPhases
    <3>2. phase' = phase /\ late' = (late \/ (t = Gnss /\ TimerLeft))
          /\ UNCHANGED <<ntf_timer, ntf_pending, ntf_at>>
      BY <2>3 DEF ArmTimer
    <3> QED
      BY <3>1, <3>2
  <2>5. CASE ScheduleNtf(t)
    <3>1. phase \in {"none", "ubx", "deregister", "free"} => t = Gnss /\ WorkLeft
      BY <2>2 DEF WorkLeft, GnssReady, ExitPhases
    <3>2. phase' = phase /\ late' = (late \/ (t = Gnss /\ WorkLeft))
          /\ UNCHANGED <<ntf_timer, armed, cb, ntf_at>>
      BY <2>3, <2>5 DEF ScheduleNtf
    <3> QED
      BY <3>1, <3>2
  <2>4. CASE CancelTimer(t) \/ CompareStatus(t) \/ WriteStatus(t)
    BY <2>4 DEF CancelTimer, CompareStatus, WriteStatus
  <2> QED
    BY <1>1, <2>3, <2>4, <2>5 DEF ThreadStep
<1>2. CASE Input
  BY <1>2 DEF Input, LockStatusStore, GnssWriteGga, GnssCfgValset, GnssCfgMsg,
              GnssNavPoll, GnssOpen, GnssClose
<1>3. CASE HoldoverTick \/ HoldoverStep
  BY <1>3 DEF HoldoverTick, HoldoverStep, HoldoverExpire, HoldoverCheck,
              HoldoverWrite, HoldoverSchedule
<1>4. CASE UbxTick \/ NtfTick \/ NtfWork
  BY <1>4 DEF UbxTick, NtfTick, NtfWork, NtfWorkStart, NtfWorkDevice, Devices
<1>5. CASE Lifecycle
  BY <1>5 DEF Lifecycle, InitDevices, InitGnssRegister, InitGnssSetup,
     InitSysfs, UnwindUbxTimer, UnwindGnss, UnwindNtf, ExitSysfs, ExitNtfTimer,
     ExitHoldoverTimer, ExitNtfWork, ExitUbxTimer, ExitGnss, ExitFree, GnssGone
<1>6. CASE UNCHANGED vars
  BY <1>6 DEF vars
<1> QED
  BY <1>1, <1>2, <1>3, <1>4, <1>5, <1>6 DEF Next

\* When nsim_dpll_exit or the unwinding of nsim_dpll_init has freed the memory, no
\* timer is queued, no callback running and no work queued or running, for any
\* number of sysfs writers and any use of the GNSS device meanwhile, unless a GNSS
\* write has armed the holdover timer or queued the work once nothing was left
\* that would cancel it.
THEOREM NothingLeftArmed == Spec => []NothingArmedWhenFreed
<1>1. Init => ThreadsInv /\ QuietInv
  BY DEF Init, ThreadsInv, QuietInv, Threads
<1>2. TypeOK /\ ThreadsInv /\ QuietInv /\ [Next]_vars => ThreadsInv' /\ QuietInv'
  BY ThreadsStep, QuietStep
<1>3. ThreadsInv /\ QuietInv => NothingArmedWhenFreed
  BY DEF ThreadsInv, QuietInv, NothingArmedWhenFreed, GnssReady, ExitPhases
<1> QED
  BY <1>1, <1>2, <1>3, TypeCorrect, PTL DEF Spec

-----------------------------------------------------------------------------
(* The signal owns the status.  What the GNSS writer is about to do agrees *)
(* with the signal, which only it changes; once it has cancelled the timer *)
(* on its way to LOCKED, the timer stays off; and once it has written      *)
(* HOLDOVER only the callback may still change the status.                 *)

OnTheWay ==
  /\ th[Gnss].pc = "idle" => IF Lost THEN lock_status # LOCKED
                                     ELSE lock_status = LOCKED /\ ~armed /\ cb = "idle"
  /\ th[Gnss].pc # "idle" /\ th[Gnss].goal = HOLDOVER =>
       Lost /\ (th[Gnss].pc \in {"sched", "arm"} => lock_status # LOCKED)
  /\ th[Gnss].pc # "idle" /\ th[Gnss].goal # HOLDOVER =>
       /\ ~Lost /\ th[Gnss].goal = LOCKED /\ th[Gnss].pc # "arm"
       /\ th[Gnss].pc # "cancel" => ~armed /\ cb = "idle"
       /\ th[Gnss].pc = "sched" => lock_status = LOCKED

SignalInv ==
  /\ phase \in {"timers", "registered"} =>
       th[Gnss].pc = "idle" /\ lock_status = LOCKED /\ ~armed /\ cb = "idle"
  /\ phase \in {"none", "unwind_ntf", "free"} => th[Gnss].pc = "idle"
  /\ phase \in {"gnss", "live"} => OnTheWay

\* Every step keeps SignalInv.
LEMMA SignalStep ==
  ASSUME SysfsWriters = {}, TypeOK, SignalInv, [Next]_vars
  PROVE  SignalInv'
<1> USE DEF TypeOK, FlagsOK, DataOK, SignalInv, OnTheWay, Lost, ThreadState, GpsFix,
            LOCKED, HOLDOVER, UNLOCKED, LockStatus,
            status_vars, signal_vars, timer_vars, ntf_vars, ubx_vars, life_vars
<1>0. Threads = {Gnss} /\ Gnss \in Threads
  BY DEF Threads
<1>1. CASE CancelTimer(Gnss)
  BY <1>0, <1>1 DEF CancelTimer
<1>2. CASE CompareStatus(Gnss)
  BY <1>0, <1>2 DEF CompareStatus, Finish, Idle
<1>3. CASE WriteStatus(Gnss)
  BY <1>0, <1>3 DEF WriteStatus
<1>4. CASE ScheduleNtf(Gnss)
  BY <1>0, <1>4 DEF ScheduleNtf, Finish, Idle
<1>5. CASE ArmTimer(Gnss)
  BY <1>0, <1>5 DEF ArmTimer, Idle
<1>6. CASE HoldoverTick \/ HoldoverStep
  BY <1>6 DEF HoldoverTick, HoldoverStep, HoldoverExpire, HoldoverCheck,
              HoldoverWrite, HoldoverSchedule
<1>7. ASSUME NEW q \in GgaQuality, GnssWriteGga(q) PROVE SignalInv'
  BY <1>0, <1>7 DEF GnssWriteGga, GnssWriting, GnssReady, Enter, Idle, ExitPhases
<1>8. ASSUME NEW val \in {0, 1}, GnssCfgValset(val) PROVE SignalInv'
  <2>1. /\ phase \notin {"timers", "registered", "none", "unwind_ntf", "free"}
        /\ UNCHANGED <<phase, lock_status, armed, cb>>
    BY <1>8 DEF GnssCfgValset, GnssWriting, GnssReady, ExitPhases
  <2>2. CASE val = 1
    <3>1. val > 0
      BY <2>2
    <3>2. Lost' /\ th'[Gnss] = Enter(HOLDOVER)
      BY <1>0, <1>8, <3>1 DEF GnssCfgValset
    <3> QED
      BY <2>1, <3>2 DEF Enter
  <2>3. CASE val = 0
    <3>1. ~(val > 0)
      BY <2>3
    <3>2. ~signal_blocked' /\ gnss_gps_fix' = 3 /\ th'[Gnss] = Enter(LOCKED)
      BY <1>0, <1>8, <3>1 DEF GnssCfgValset
    <3> QED
      BY <2>1, <3>2 DEF Enter
  <2> QED
    BY <2>2, <2>3
<1>9. CASE GnssCfgMsg \/ GnssNavPoll \/ GnssOpen \/ GnssClose \/ UbxTick
  BY <1>9 DEF GnssCfgMsg, GnssNavPoll, GnssOpen, GnssClose, UbxTick
<1>10. CASE NtfTick \/ NtfWork
  BY <1>10 DEF NtfTick, NtfWork, NtfWorkStart, NtfWorkDevice
<1>11. CASE Lifecycle
  BY <1>11 DEF Lifecycle, InitDevices, InitGnssRegister, InitGnssSetup,
     InitSysfs, UnwindUbxTimer, UnwindGnss, UnwindNtf, ExitSysfs, ExitNtfTimer, Idle,
     ExitHoldoverTimer, ExitNtfWork, ExitUbxTimer, ExitGnss, ExitFree, GnssGone
<1>12. CASE UNCHANGED vars
  BY <1>12 DEF vars
<1>13. CASE \E t \in Threads : ThreadStep(t)
  BY <1>0, <1>1, <1>2, <1>3, <1>4, <1>5, <1>13 DEF ThreadStep
<1> QED
  BY <1>6, <1>7, <1>8, <1>9, <1>10, <1>11, <1>12, <1>13 DEF Next, Input

\* Without sysfs writers the status follows the signal on a live device whenever
\* the GNSS writer is not in a handler, for any holdover window, also when the
\* GNSS device is used before the DPLL is live or while it goes.
THEOREM StatusFollowsSignal == SysfsWriters = {} => (Spec => []SignalOwnsStatus)
<1> SUFFICES ASSUME SysfsWriters = {} PROVE Spec => []SignalOwnsStatus
  OBVIOUS
<1>1. Init => SignalInv
  BY DEF Init, SignalInv, Threads, Idle
<1>2. TypeOK /\ SignalInv /\ [Next]_vars => SignalInv'
  BY SignalStep
<1>3. TypeOK /\ SignalInv => SignalOwnsStatus
  BY DEF SignalInv, OnTheWay, SignalOwnsStatus, Threads, Idle
<1> QED
  BY <1>1, <1>2, <1>3, TypeCorrect, PTL DEF Spec
=============================================================================
