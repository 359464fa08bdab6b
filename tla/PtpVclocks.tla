----------------------------- MODULE PtpVclocks -----------------------------
(***************************************************************************)
(* The virtual clocks of a PTP clock: the sysfs attributes n_vclocks and   *)
(* max_vclocks (ptp_sysfs.c), the physical clock's settime and adjtime,    *)
(* which are refused while virtual clocks are in use (ptp_clock.c,         *)
(* ptp_private.h), and ptp_clock_unregister.                               *)
(*                                                                         *)
(* n_vclocks_store holds n_vclocks_mux throughout; it registers and        *)
(* unregisters one virtual clock at a time.  ptp_clock_unregister and      *)
(* settime take the mutex only to look at n_vclocks, and give up the wait  *)
(* for it at a signal.  The attributes can be written until                *)
(* posix_clock_unregister takes them away, which waits for a write that is *)
(* under way; the clock can be set until it is a zombie.                   *)
(***************************************************************************)
EXTENDS Naturals, Sequences, FiniteSets

CONSTANTS
  MaxVclocks,   \* bound: the largest max_vclocks asked for
  Setters,      \* threads that set the physical clock
  HasCycles,    \* the clock has a free running cycle counter besides its time
  RegisterFails,\* whether ptp_vclock_register may fail
  None          \* the index -1

ASSUME PtpVclocksAssumption ==
  /\ MaxVclocks \in Nat \ {0}
  /\ {HasCycles, RegisterFails} \subseteq BOOLEAN
  /\ None \notin Nat

Ids == 1..(2 * MaxVclocks)    \* clock indices; the physical clock is ptp0

VARIABLES
  n_vclocks, max_vclocks,
  vclock_index,  \* the array of max_vclocks clock indices
  children,      \* the registered virtual clocks, in the order of registration
  store,         \* n_vclocks_store: idle, or its target and its position
  setter,        \* each setter: idle, or past the test and about to set
  time,          \* flips when the physical clock is set or adjusted
  clock,         \* progress of ptp_clock_unregister
  failed,        \* an n_vclocks write to this clock has failed half way
  overlapped     \* an n_vclocks write came too late for ptp_clock_unregister to
                 \* see its clock, or unregistered clocks at the same time as it

vcVars == <<n_vclocks, max_vclocks, vclock_index, children, store, setter, time, clock,
            failed, overlapped>>

Idle == [pc |-> "idle", num |-> 0, i |-> 0]

Locked == store.pc # "idle"

\* n_vclocks and max_vclocks are there until posix_clock_unregister.
Attributes == clock \in {"live", "deleting", "unregistering"}

\* What ptp_vclock_in_use returns once it has the mutex.
VclockInUse == n_vclocks > 0

-----------------------------------------------------------------------------
(* n_vclocks_store. *)

StoreBegin(num) ==
  /\ ~Locked /\ Attributes
  /\ num <= max_vclocks
  /\ store' = [pc |-> IF num > n_vclocks THEN "add" ELSE "del", num |-> num, i |-> 0]
  /\ UNCHANGED <<n_vclocks, max_vclocks, vclock_index, children, setter, time, clock,
                 failed, overlapped>>

\* The index of a new clock is the lowest free one.
NewId == CHOOSE id \in Ids : /\ \A k \in 1..Len(children) : children[k] # id
                             /\ \A j \in 1..(id - 1) : \E k \in 1..Len(children) : children[k] = j

StoreAdd ==
  /\ store.pc = "add" /\ store.i < store.num - n_vclocks
  /\ Len(children) < 2 * MaxVclocks
  /\ children' = Append(children, NewId)
  /\ vclock_index' = [vclock_index EXCEPT ![n_vclocks + store.i + 1] = NewId]
  /\ store' = [store EXCEPT !.i = @ + 1]
  /\ overlapped' = (overlapped \/ clock = "unregistering")
  /\ UNCHANGED <<n_vclocks, max_vclocks, setter, time, clock, failed>>

\* ptp_vclock_register fails: what was registered so far stays, uncounted.
StoreAddFails ==
  /\ RegisterFails
  /\ store.pc = "add" /\ store.i < store.num - n_vclocks
  /\ store' = Idle
  /\ failed' = (failed \/ store.i > 0)
  /\ UNCHANGED <<n_vclocks, max_vclocks, vclock_index, children, setter, time, clock, overlapped>>

\* Mutant: the first virtual clocks are unregistered instead of the last.
StoreDelForward ==
  /\ store.pc = "del" /\ store.i < n_vclocks - store.num /\ children # <<>>
  /\ children' = Tail(children)
  /\ store' = [store EXCEPT !.i = @ + 1]
  /\ overlapped' = (overlapped \/ clock = "deleting")
  /\ UNCHANGED <<n_vclocks, max_vclocks, vclock_index, setter, time, clock, failed>>

\* device_for_each_child_reverse unregisters the last children.
StoreDel ==
  /\ store.pc = "del" /\ store.i < n_vclocks - store.num /\ children # <<>>
  /\ children' = SubSeq(children, 1, Len(children) - 1)
  /\ store' = [store EXCEPT !.i = @ + 1]
  /\ overlapped' = (overlapped \/ clock = "deleting")
  /\ UNCHANGED <<n_vclocks, max_vclocks, vclock_index, setter, time, clock, failed>>

StoreEnd ==
  /\ \/ store.pc = "add" /\ store.i = store.num - n_vclocks
     \/ store.pc = "del" /\ (store.i = n_vclocks - store.num \/ children = <<>>)
  /\ vclock_index' = [k \in DOMAIN vclock_index |->
                        IF k \in (store.num + 1)..n_vclocks THEN None ELSE vclock_index[k]]
  /\ n_vclocks' = store.num
  /\ store' = Idle
  /\ UNCHANGED <<max_vclocks, children, setter, time, clock,
                 failed, overlapped>>

\* max_vclocks_store: a new array, zeroed beyond the entries in use.
MaxStore(max) ==
  /\ ~Locked /\ Attributes /\ max # max_vclocks /\ max >= n_vclocks
  /\ vclock_index' = [k \in 1..max |-> IF k <= n_vclocks THEN vclock_index[k] ELSE 0]
  /\ max_vclocks' = max
  /\ UNCHANGED <<n_vclocks, children, store, setter, time, clock,
                 failed, overlapped>>

-----------------------------------------------------------------------------
(* ptp_clock_settime and ptp_clock_adjtime on the physical clock. *)

\* ptp_clock_freerun says no ...
SetTest(r) ==
  /\ setter[r] = "idle" /\ clock # "gone"
  /\ HasCycles \/ (~Locked /\ ~VclockInUse)
  /\ setter' = [setter EXCEPT ![r] = "set"]
  /\ UNCHANGED <<n_vclocks, max_vclocks, vclock_index, children, store, time, clock,
                 failed, overlapped>>

\* ... and then, without the mutex, the clock is set.
SetTime(r) ==
  /\ setter[r] = "set"
  /\ time' = 1 - time
  /\ setter' = [setter EXCEPT ![r] = "idle"]
  /\ UNCHANGED <<n_vclocks, max_vclocks, vclock_index, children, store, clock,
                 failed, overlapped>>

-----------------------------------------------------------------------------
(* ptp_clock_unregister. *)

\* Mutant: the virtual clocks are not looked at.
UnregisterUnchecked ==
  /\ clock = "live"
  /\ clock' = "unregistering"
  /\ UNCHANGED <<n_vclocks, max_vclocks, vclock_index, children, store, setter, time, failed,
                 overlapped>>

\* ptp_vclock_in_use: a wait for the mutex that a signal ends counts as "in use".
UnregisterBegin ==
  /\ clock = "live"
  /\ \/ ~Locked /\ clock' = IF VclockInUse THEN "deleting" ELSE "unregistering"
     \/ clock' = "deleting"
  /\ UNCHANGED <<n_vclocks, max_vclocks, vclock_index, children, store, setter, time, failed,
                 overlapped>>

\* device_for_each_child, without the mutex: one virtual clock after the other ...
UnregisterChild ==
  /\ clock = "deleting" /\ children # <<>>
  /\ children' = Tail(children)
  /\ overlapped' = (overlapped \/ store.pc = "del")
  /\ UNCHANGED <<n_vclocks, max_vclocks, vclock_index, store, setter, time, clock, failed>>

\* ... until there is none.
UnregisterWalked ==
  /\ clock = "deleting" /\ children = <<>>
  /\ clock' = "unregistering"
  /\ UNCHANGED <<n_vclocks, max_vclocks, vclock_index, children, store, setter, time, failed,
                 overlapped>>

\* posix_clock_unregister takes the attributes away, after any write of them ...
UnregisterAttributes ==
  /\ clock = "unregistering" /\ ~Locked
  /\ clock' = "bare"
  /\ UNCHANGED <<n_vclocks, max_vclocks, vclock_index, children, store, setter, time, failed,
                 overlapped>>

\* ... and waits for the callers inside.
UnregisterEnd ==
  /\ clock = "bare"
  /\ \A r \in Setters : setter[r] = "idle"
  /\ clock' = "gone"
  /\ UNCHANGED <<n_vclocks, max_vclocks, vclock_index, children, store, setter, time, failed,
                 overlapped>>

\* ptp_clock_register: a new clock in its place.
ClockRegister ==
  /\ clock = "gone"
  /\ clock' = "live"
  /\ n_vclocks' = 0 /\ max_vclocks' = MaxVclocks
  /\ vclock_index' = [k \in 1..MaxVclocks |-> 0]
  /\ children' = <<>>
  /\ failed' = FALSE /\ overlapped' = FALSE
  /\ UNCHANGED <<store, setter, time>>

-----------------------------------------------------------------------------
VcInit ==
  /\ n_vclocks = 0 /\ max_vclocks = MaxVclocks
  /\ vclock_index = [k \in 1..MaxVclocks |-> 0]
  /\ children = <<>>
  /\ store = Idle
  /\ setter = [r \in Setters |-> "idle"]
  /\ time = 0
  /\ clock = "live"
  /\ failed = FALSE /\ overlapped = FALSE

VcNext ==
  \/ \E num \in 0..MaxVclocks : StoreBegin(num)
  \/ StoreAdd \/ StoreAddFails \/ StoreDel \/ StoreEnd
  \/ \E max \in 1..MaxVclocks : MaxStore(max)
  \/ \E r \in Setters : SetTest(r) \/ SetTime(r)
  \/ UnregisterBegin \/ UnregisterChild \/ UnregisterWalked
  \/ UnregisterAttributes \/ UnregisterEnd \/ ClockRegister

VcSpec == VcInit /\ [][VcNext]_vcVars

-----------------------------------------------------------------------------
(* Properties. *)

\* Unless a store has failed half way, the array lists the virtual clocks in the
\* order they were registered, after any sequence of stores (n_vclocks_store
\* clears the entries of as many clocks as it unregisters, from the same end).
IndexIsChildren ==
  (~Locked /\ clock = "live" /\ ~failed) => children = [k \in 1..n_vclocks |-> vclock_index[k]]

\* No virtual clock outlives its physical clock, whose cycle counter it reads,
\* whether or not the wait for the mutex was interrupted and whatever was written
\* before, unless a store has failed half way, or one that was under way or came
\* during the unregistration registered a clock after ptp_clock_unregister had
\* looked, or unregistered clocks at the same time (ptp_clock_unregister,
\* n_vclocks_store, ptp_vclock_read).
NoOrphans == (clock = "gone" /\ ~failed /\ ~overlapped) => children = <<>>
=============================================================================
