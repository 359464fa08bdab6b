# TLA+ models of netdevsim-dkms

This directory holds TLA+ models of the kernel modules in this repository
(`nsim_ptp`, `ptp_mock`, `nsim_dpll`, `netdevsim`), the TLC configurations that
check them on small instances, and TLAPS proofs of the results that matter for
every size. Each module names the source file it is translated from;
`PROJECT.json` maps every definition to its lines.

## The system

netdevsim-dkms builds a simulated network adapter with a PTP hardware clock, a
DPLL and a GNSS receiver, out of tree, next to the kernel's own subsystems.

| part | source | state | operations | interacts with |
|---|---|---|---|---|
| PTP core: events | `ptp/ptp_clock.c`, `ptp_chardev.c`, `ptp_sysfs.c` | one ring of time stamps per open file and one for sysfs, channel masks, the wait queue, `defunct` | event from the driver, open, read, release, `fifo`, mask ioctls, register, unregister | called by the mock PHC; readers sleep in it |
| PTP core: virtual clocks | `ptp/ptp_sysfs.c`, `ptp_vclock.c`, `ptp_clock.c` | `n_vclocks`, `max_vclocks`, the index array, the child clocks | the two attributes, settime/adjtime with the free-running test, unregister | physical clock and its children |
| PTP core: pins | `ptp/ptp_chardev.c`, `ptp_sysfs.c` | function and channel of each pin | set function, ioctls | mock PHC `verify`/`enable` |
| mock PHC | `ptp/ptp_mock.c` | offset, frequency, the 1PPS timer, `extts_delay_ms`, last second, reference count | get/set/adjust time, enable events, delay attribute, timer callback, create, release | PTP core; one PHC shared by several ports |
| DPLL core | `dpll/dpll_core.c` | devices, pins, references in both directions, registrations, ids, marks | get, put, register, unregister, also pin on pin | netdevsim's DPLL, netlink |
| DPLL netlink | `dpll/dpll_netlink.c`, `dpll_nl.c` | dump contexts, notifications | get, dump, set, notifications | DPLL core and the owners' ops |
| DPLL and GNSS emulation | `netdevsim/dpll.c` | lock status, signal, holdover timer, notification timer and work, UBX emitter, GNSS device | sysfs attribute, GNSS open/write/close, timer callbacks, work, init, exit | DPLL core, GNSS core |
| bus and fake PCI | `netdevsim/bus.c`, `fakepci.c` | list and count of devices, ids, enable flag, fake PCI functions | new/del device, new/del port, link/unlink, module exit | devices, PCI core |
| device | `netdevsim/dev.c` | ports, VFs, eswitch mode, devlink resources, traps, reload state | probe, remove, reload, ports, VFs, trap work | bus, ports, fib, health |
| ports | `netdevsim/netdev.c`, `ethtool.c` | peer, PHC pointer, statistics | create, destroy, transmit | mock PHC, bus |
| offloads | `netdevsim/fib.c`, `bpf.c`, `hwstats.c`, `ipsec.c`, `macsec.c`, `udp_tunnels.c`, `psample.c`, `health.c` | tables of what is offloaded | add, delete, dump | device |
| shim, scripts, headers | `shim/`, `scripts/`, `include/` | none | path rewriting, tests, API selection | – |

The hard behaviour is concurrency without locks (lock status, the 1PPS timer,
`queue_cnt`), objects with several owners (DPLL devices and pins, shared PHCs),
steps that fail half way (registrations, `n_vclocks`, initialisation) and
teardown while timers, work and readers are under way. `PROJECT.json` lists
these hazards by line.

## Modules

### NsimDpll - `netdevsim/dpll.c`

The driver takes no lock around `lock_status`, so a handler that changes it is a
sequence of steps (`CancelTimer`, `CompareStatus`, `WriteStatus`, `ScheduleNtf`,
`ArmTimer`) in the variable `th`, one entry per thread: sysfs writers and the
one GNSS writer. `cb` is the progress of the holdover callback, `ntf_at` that of
the notification work, which announces the status of the PPS and then of the EEC
device. NMEA and UBX input is abstracted to what it says about the signal: a GGA
quality, an interference key, a rate message, a poll. `phase` follows
`nsim_dpll_init` with a failure at each step, its unwinding, and
`nsim_dpll_exit` in the order of its statements.

The GNSS device is open to its user from its registration to `gnss_deregister_device`,
so it is written while the DPLL comes up, fails to, and goes away. `nsim_dpll_exit`
cancels the holdover timer and the notification work before it deregisters the GNSS
device, and the error path of `nsim_dpll_init` never cancels that timer: a write that
comes after (`TimerLeft`, `WorkLeft`) leaves them armed on an instance that is freed.
The history variable `late` marks exactly those writes; `NothingArmedWhenFreed` excepts
these two, and nothing else, once it is set, and without it is refuted. The window of a
few instructions from `gnss_set_drvdata` to `hrtimer_init` is one step.

### PtpEvents and PtpFifo - `ptp_clock.c`, `ptp_chardev.c`, `ptp_sysfs.c`

The rings with their `head` and `tail`, stored separately and read without the
lock by `queue_cnt`; the reader's `wait_event_interruptible` as prepare, read
tail, read head, sleep; `ptp_clock_event` walking the list of queues under its
lock and waking readers; the posix clock's read/write lock that
`ptp_clock_unregister` needs; and the release of the clock with its last file. A read
fails while it sleeps (`-ERESTARTSYS`), before it takes events (`-ENODEV`, `-ENOMEM`),
or after it has taken them, when `copy_to_user` does: then they are lost, which
`missed` records.
`PtpFifo` is the abstract specification: per reader, a bounded queue that gives
out events in order, only when full forgets the oldest, and gives a read that fails late
its events in vain (`Miss`). `ImplementsFifo`
states that `PtpEvents` implements it under the refinement mapping `Contents`.

### DpllCore - `dpll/dpll_core.c`

Every call runs under `dpll_lock` and is one action. Devices and pins are
reference counted; a reference between a device and a pin exists at both ends,
each with a count and a list of registrations. An owner is a pair of ops and
priv; the owners keep the API's order (get, register, unregister, put; a pin's
registrations within those of its device and its parent). `AllocFails` lets each
allocation fail, and `IndexTaken` is the clash of two pins with one index in the
xarray. `MaxReg`, `PinIds` and `SettledParents` describe instances outside what
the code handles: a registration repeated by its owner, ids that wrap, and a
parent whose devices change while it has children. A child has one parent:
`dpll_pin_on_pin_unregister` goes over all of the child's devices with the cookie
of the one parent, so a child of two parents with different devices makes
`WARN_ON(!reg)` fire. No driver in this repository has such a pin.

### DpllNetlink - `dpll/dpll_netlink.c`, on top of DpllCore

`EXTENDS DpllCore`: its variables, and `CoreStep` is any of its steps. A request
runs under `dpll_lock` and is one step; a dump takes the lock once per message, so
`DumpStart` and `DumpMessage` have the owners' calls between them. `dump.stayed`
is what was there from the first message to the last, `dump.sent` what has been
reported. A message holds any number of objects, at least `Fits`, unless it holds
the rest; with `Fits = 0` a message whose first object does not fit has length 0
and ends the dump early (`DumpExact` is then refuted). `SetOnAll` is
`dpll_pin_freq_set` and, statement for statement the same,
`dpll_pin_phase_adj_set`: the value goes to one device after the other until one
refuses, and then the first device's old value goes to those before it; any of
these may refuse in turn (`broken`). `CallsReachOwners` says that what the
requests follow without a test (the first device, the first registration of each
reference, the parent's private data on the pin's first device) is there. A pin
that gets another device has on it the value it has on its first; dumps and sets
are kept apart, since they do not meet. Also seen while modelling: a u64 frequency
is compared as u32 (`dpll_netlink.c:355`), and a request with several attributes
that fails at a later one keeps the earlier ones.

### PtpVclocks - `ptp_sysfs.c`, `ptp_clock.c`

`n_vclocks_store` registers or unregisters one clock per step with the mutex
held; `max_vclocks_store` replaces the array; settime tests and sets in two
steps; `ptp_clock_unregister` looks at the count, which a signal that ends its wait for
the mutex makes "in use", and unregisters the children one per step, without the mutex.
The attributes stay until `posix_clock_unregister`, which waits for a write under way.
`failed` records that a store failed half way. `overlapped` records that a store
registered a clock after the unregistration had looked, or unregistered clocks during its
walk: the first leaves a virtual clock without a physical one (`NoOrphans` without
`~overlapped` is refuted), the second lets both unregister the same child.

### MockExtts - `ptp/ptp_mock.c`

Time is TAI in ticks. The timer runs up to `MaxLatency` late; the callback is
three steps (start, check, emit) with other threads in between; `Forward` is
`hrtimer_forward_now`. `raced` records that events were enabled while the
callback was past its tests. Storing `last_extts_sec` and emitting the event is
one step. `stores` counts the writes of the delay since the last event, each of which
starts the timer anew. The instance keeps the relation of the code's constants
(`Timely`, under Proofs).

### PtpPins and MockPins - `ptp_chardev.c`, `ptp_sysfs.c`, `ptp_mock.c`

`PtpPins` is `ptp_set_pinfunc` in three steps: accept the request (`SetBegin`), take the
function from the pin that has it (`SetTake`), give it to the pin asked for (`SetGive`);
before the last two the driver is told to disable what is lost. `MockPins` composes it with
`MockExtts`: such a call is a `Disable` of the 1PPS simulation at any point of its
callback. The ioctls exclude each other through `pincfg_mux`, but the sysfs attribute
`extts_enable` does not take it and comes at any time, also between a disable and the pin's
loss: time stamps then go on although no pin is the input. `enabledOn` records the pins
that had the input when it was enabled (the request needs none), less the pin that has
been told to give it up (`Leaving`), and `InputKeepsPin` is about those. The mock PHC
accepts every pin (`mock_phc_verify`) and has no periodic outputs (`NPer = 0`). That "both
PF pins may map EXTTS to channel 0" (`ptp_mock.c:17`) is to be read as one at a time: the
PTP core takes the function from the pin that had it.

### NsimPorts - `netdevsim/netdev.c`, `bus.c`, `ptp/ptp_mock.c`

The PF ports of all devices. Coming up is `Find` (the lookup in `ptp_class`,
whose device reference is dropped), `Get` or `Create`, then `InitDone` or
`InitFails`; going is `Destroy`, then `Release` and, for the last reference,
`DestroyUnregister` and `DestroyFree`. A clock is in the class until
`DestroyUnregister`, after its count is 0. `CreateUndo` is the error path of
`mock_phc_create` that unregisters a clock another port may have found. `Link` and
`Unlink` are the bus attributes under the rtnl lock. `MCNsimPorts` gives three devices,
two with one logical clock id.

The devlink lock keeps the ports of one device apart and nothing those of different
devices, so their steps interleave freely. That goes wrong in two ways, which history
variables mark at the very step. `stale`: a port takes a reference to a PHC whose last port
has gone since the lookup, or the creation of a PHC that has been found is undone; what
follows works on freed memory, and TLC goes no further (`CONSTRAINT Defined`). `doubled`:
two ports find no PHC with their id and each creates one. `UpHasPhc` holds until the first,
`SharedById` until either; without these conditions TLC refutes both. The virtual clocks of
a PHC, which `ptp_class` has too, are not in `class`.

### NsimDev - `netdevsim/dev.c`

One device. A probe, removal or reload under way is `op`: a plan, which is a
sequence of parts in the order of setting up, and how many of them are set up.
`StepUp` sets up the next part, `StepFail` takes the error label, `StepDown`
tears down the last. The plans are the statements of `nsim_drv_probe`,
`nsim_dev_reload_create`, `nsim_dev_reload_destroy` and `nsim_drv_remove`; an
error label undoes exactly the parts before it, in reverse. The devlink lock is
held from begin to end. Tearing down the traps waits for the trap work, whose
steps are start, trylock, report and requeue; tearing down debugfs waits for a
write of `max_vfs` that has begun. Everything else (ports, `sriov_numvfs`,
eswitch mode, the write itself) is one step under the lock. Failures of these
that leave no trace are no step.

`Uses` names three uses of a device that the code does not handle, each left out
of the passing run and each refuting a property when it is put in: ports added
while a reload has failed (the next reload empties the list without deleting
them, a removal leaves them: `PartsAsTheyShould`); `max_vfs` written during a
removal (`debugfs_remove` waits, with the lock, for a writer that waits for the
lock: `OpCompletes`); `del_port` of a port of a WPC device (its DPLL pin keeps a
pointer to it: `PortsMatch`). A fourth is left out by `PfIndices`, which are
below the base of the VF indices: `del_port` of a larger one deletes a VF's
port. Unbinding through the driver's sysfs files is not modelled.

### NsimBus - `netdevsim/bus.c`, `fakepci.c`, `netdev.c`

The writers of `new_device` and `del_device`, one at a time under the list lock,
step by step: creation of the fake PCI function, the rescan of its bus,
`ida_alloc_range`, `device_register` with the probe, and what follows; removal of
the function, of the id, `device_unregister`, and the release, which comes when
the last reference is put. Each step that may fail has its error path. Beside them
run a writer of `new_port` or `del_port`, users of the PCI files `remove` and
`rescan`, and the loading and unloading of the module. `count` is a `refcount_t`
with its saturation. Probe and removal are one step here and many in `NsimDev`.

Three error paths leave the rails and are modelled as they are. When the id cannot
be allocated the address of the function to remove is read from freed memory:
`NewIdFails` removes any function or none, and `misread` records that it was the
wrong one. When `device_register` fails the release drops a count that was never
taken, and a null pointer is followed with the lock held: the writer is `dead`, as
is one that creates a device when `fakepci_init`, whose result nobody looks at,
has left no root bus. `raced` records that `nsim_bus_exit` dropped the bus's count
under a `new_device` that had passed the test of `nsim_bus_enable`: the completion
then comes too early, and `ExitWaits` without `~raced` is refuted. With
`PciRaces = TRUE` the PCI file `remove` may hit the function that is being deleted,
whose `pci_dev` is used after the mutex is dropped.

### NsimFib - `netdevsim/fib.c`

The kernel's tables are external: `kernel` maps a prefix to its route, a set of one
`fib_info` (IPv4) or of one `fib6_info` per nexthop (IPv6, allocated anew for each
nexthop), and a change calls the notifier while it is registered. The notifier
counts (`num`, for either family) and queues an event; `ev` is the event work, which
splices the queue, takes `fib_lock` and carries out one event per step on `table`
(`fib_rt_ht` and `fib_rt_list`); `flush` is the flush work, which first waits for
the event work that is pending or running when it starts. A work has a pending
bit of its own: it can be scheduled again while it runs. `hwflag` is what the
driver tells the kernel about each nexthop. An IPv6 route is replaced, extended by
siblings (`RouteAppend`), and deleted as a whole or sibling by sibling; the work
reduces an entry or removes it. Creation is the kernel's
`register_fib_notifier`: dump, register, compare `fib_seq`, and either live or
`DumpInconsistent` and again, up to `MaxRetries`; its failure and destruction
share the steps from `cancel` on.

`failed` records the kinds of failure of this lifetime, at most `MaxFailed`. An
offload that fails keeps the notifier's count, and a later replacement of the
route counts again: after it the occupancy may be too large (`OccupancyExact`
says so), and the old route of a failed replacement stays in the table. Three
more things the accounting or the table does not follow are in the history and
excluded by the properties. Deleting one sibling drops the count of the entry,
although "We consider a multipath IPv6 route as one entry" (`fib.c:555`): remove
`"sibling"` from `OccupancyExact` and TLC refutes it in ten steps. A multipath route
that is vetoed is deleted again by the kernel, one notification per sibling, and
each drops a count (`RouteVeto`). After an append that failed,
`nsim_fib6_rt_remove` mistakes which nexthops are left: deleting the refused sibling
removes the entry of the others, and deleting all leaves an entry without nexthops,
which the next route of the prefix is then taken to replace. Rules (a counter each)
and routes with a source prefix (counted and then ignored) are left out. The flush
work is not excluded from `nsim_fib_dump_inconsistent`, which walks the list
without the lock; the model takes each walk as one step.

### NsimHwstats, NsimNexthops and NsimOffloads - `hwstats.c`, `fib.c`, `dev.c`

`NsimHwstats`: the list of netdevs that are counted for, changed through debugfs;
the notifier the networking core (external: `netdevs`, `xstats`, `total`) calls
under the rtnl lock; and the counting work. `enable_ifindex` is two steps, since
`fail_next_enable` and the work need only the list lock: a failure that falls
between is told to nobody (`silent`). `counted` is the history of what there was
to count; a device that goes drops what was not collected, where
`disable_ifindex` pushes it. `NsimNexthops`: the nexthops the kernel announces,
each the number of entries it needs, accounted for one by one against the limit; a
replacement takes before it gives back, so it needs room for both. The kernel does not
make a new nexthop or a replacement that is refused, but it reduces a group that has lost
a member anyway and only logs the refusal (`NhReduce`): with little room left the smaller
group is refused, and the table keeps the larger entry (`nhStale`). A resilient group is
announced once; flags and activity of its single buckets are left out. `NsimOffloads` composes the two in the
order in which a device sets them up and tears them down.

## Runs

| run | instance | shows |
|---|---|---|
| `NsimDpll` | one sysfs writer, the GNSS writer, holdover of one tick | type, `NoLostNotification`, `HoldoverHasTimer`, `NothingArmedWhenFreed` |
| `NsimDpllGnss` | no sysfs writer, two ticks, fairness | `SignalOwnsStatus`, and the liveness `LossEndsInFreerun`, `NavReportsLoss` |
| `PtpEvents` | one reader and the sysfs queue, rings of 3, 4 events, batches of 2, fairness | `NoLostWakeup`, `ImplementsFifo`, `UnregisterCompletes` |
| `DpllNetlink` | two owners, two devices, a mux pin and a child, failing allocations and drivers, messages of one object or more, two values | `RefsAgree`, `ServedIsAlive`, `CountsHolders`, `DumpExact`, `DevicesAgree`, `CallsReachOwners` |
| `PtpVclocks` | up to 3 virtual clocks, one setter, failing registrations | `IndexIsChildren`, `NoOrphans` |
| `MockPins` | seconds of 6 ticks, delays up to 1, 3 seconds, one delay store between two events, two enables, two pins | `NoSecondMissed`, `StampOnDelayedEdge`, `QuietWhenFreed`, `NoSpuriousEdge`, `InputKeepsPin` |
| `NsimPorts` | five ports of three devices, memory for four PHCs (up to symmetry), up to the first use of a PHC on its way out | `UpHasPhc`, `SharedById`, `PeersMutual` |
| `NsimDev` | one port at probe, two PF indices, up to 2 VFs, fairness | `PartsAsTheyShould`, `WorkFollowsTraps`, `PortsMatch`, and the liveness `OpCompletes` |
| `NsimDevReload` | the same | refutes `WpcHasDpll`: a reload does not bring the DPLL back |
| `NsimFib` | an IPv4 and an IPv6 prefix, three `fib6_info`s in routes of up to three nexthops, a limit of 2, two events outstanding, two dumps, one kind of failure | `OccupancyExact`, `TableFollowsKernel`, `EventsScheduled` |
| `NsimBus` | one writer, two ids, functions 0 and 1 of a slot, memory for two devices, fairness | `FunctionsMatch`, `PortUseReady`, `ExitWaits`, and the liveness `ExitCompletes` |
| `NsimOffloads` | two netdevs, three runs of the work; two nexthops of up to 3 entries, one a resilient group, a limit of 4 | `StatsExact`, `HeldIsThere`, `NexthopsExact` |

Another disagreement between code and comments is reached by changing one
constant. `SysfsWriters = {w1}` in `NsimDpllGnss.cfg` refutes `SignalOwnsStatus`:
`lock_status_store` tests the signal and acts later, although "the kernel owns
lock_status" of a lost signal (`dpll.c:228`).

Five properties name, by a history variable, what the code lets happen to them, and are
refuted without it: `NothingArmedWhenFreed` (`late`), `NoOrphans` (`failed`,
`overlapped`), `UpHasPhc` (`stale`), `SharedById` (`stale`, `doubled`) and `NexthopsExact`
(`nhStale`); so do those of `NsimBus` and `NsimFib` described above. For `UpHasPhc` and
`SharedById` the `CONSTRAINT` goes as well.

Bounds. A ring of three holds two events, so four events overflow it twice and
wrap both indices. Two owners and two devices give a reference with two
registrations, and a child whose parent has two devices gives the failure after
a partial success. Three virtual clocks allow growing, shrinking and a failure in
the middle of either. Three devices give a shared PHC with two and three holders and,
beside it, two that are not shared. One device, two port indices and two VFs
suffice for every order of the operations on it; the state space is complete.
Two events outstanding, one of them possibly in the batch under way, give every
order of a replacement, an append and a deletion around the work, and two dumps an
inconsistent one with a second chance. Three `fib6_info`s give a route of two
nexthops that is replaced, extended and reduced; the families meet only in the queue
and the flush, so one prefix of each suffices.
Three seconds hold an enable, a disable, a second enable
and a delay change before and after an edge; two pins suffice for a move. One
writer of the bus suffices, as writers exclude each other, and two functions of one
slot for a function that needs another's function 0. A limit of 4 and sizes of up
to 3 let a nexthop fit, fail half way and be replaced with and without room. One sysfs writer and the GNSS
writer already interleave at every step; the theorems below hold for any number.

Fairness. `NsimDpllGnss` assumes that time passes, that an expired timer's
callback runs to its end, and that a thread that has begun a handler finishes
it: timers are interrupts and a kernel thread is scheduled. Nothing is assumed
about GNSS input. `PtpEvents` assumes that a woken reader runs, that
`ptp_clock_event` and `ptp_clock_unregister`, once begun, proceed when they are
not blocked, and nothing about opening, reading or new events. `NsimDev` assumes
that a thread inside a probe, removal or reload, the trap work and a write of
`max_vfs` proceed when they are not blocked, and nothing about the user. `NsimBus`
assumes that whoever is inside `new_device`, `del_device` or `nsim_bus_exit`
proceeds when not blocked, that a port request ends, and that whoever holds a
reference to a device puts it; nobody has to unload the module.

## Proofs

| theorem | module | statement |
|---|---|---|
| `TypeCorrect` | `NsimDpllProofs` | `Spec => []TypeOK` |
| `NotificationsNeverLost` | `NsimDpllProofs` | `Spec => []NoLostNotification` |
| `CoastingIsBounded` | `NsimDpllProofs` | `Spec => []HoldoverHasTimer` |
| `NothingLeftArmed` | `NsimDpllProofs` | `Spec => []NothingArmedWhenFreed` |
| `StatusFollowsSignal` | `NsimDpllProofs` | `SysfsWriters = {} => (Spec => []SignalOwnsStatus)` |
| `WakeupsNeverLost` | `PtpEventsProofs` | `Spec => []NoLostWakeup` |
| `QueuesAreFifos` | `PtpEventsProofs` | `Spec => ImplementsFifo` |
| `ReferencesAgree` | `DpllProofs` | `Spec => []RefsAgree` |
| `HoldersCounted` | `DpllProofs` | `NoWrap => (Spec => []CountsHolders)` |
| `ServedStaysAlive` | `DpllProofs` | `Orderly => (Spec /\ []OneParent => []ServedIsAlive)` |
| `CoreUnderneath` | `DpllProofs` | `NlSpec => Spec` |
| `DevicesAlwaysAgree` | `DpllProofs` | `NlSpec => []DevicesAgree` |
| `DumpsExact` | `DpllProofs` | `Fits >= 1 => (NlSpec => []DumpExact)` |
| `CallsReach` | `DpllProofs` | `Orderly => (NlSpec /\ []OneParent => []CallsReachOwners)` |
| `ArrayListsClocks` | `PtpClocksProofs` | `VcSpec => []IndexIsChildren` |
| `ClocksGoTogether` | `PtpClocksProofs` | `VcSpec => []NoOrphans` |
| `EverySecond` | `PtpClocksProofs` | `Timely => (SpecPins => []NoSecondMissed)` |
| `NoEdgeTooMany` | `PtpClocksProofs` | `SpecPins => NoSpuriousEdge` |
| `StampsOnEdge` | `PtpClocksProofs` | `SpecPins => []StampOnDelayedEdge` |
| `QuietAtLast` | `PtpClocksProofs` | `SpecPins => []QuietWhenFreed` |
| `InputStays` | `PtpClocksProofs` | `SpecPins => []InputKeepsPin` |
| `LinksMutual` | `NsimPortsProofs` | `Spec => []PeersMutual` |
| `PhcKept` | `NsimPortsProofs` | `Spec => []UpHasPhc` |
| `PhcSharedById` | `NsimPortsProofs` | `Spec => []SharedById` |
| `WorkOutlivesNothing` | `NsimDevProofs` | `Spec => []WorkFollowsTraps` |
| `PartsOnce` | `NsimDevProofs` | `PlainUse => (Spec => []PartsAsTheyShould)` |
| `PortsAndVfs` | `NsimDevProofs` | `PlainUse => (Spec => []PortsMatch)` |
| `FunctionsAlwaysMatch` | `NsimBusProofs` | `Spec => []FunctionsMatch` |
| `PortUsesReady` | `NsimBusProofs` | `Spec => []PortUseReady` |
| `ExitWaitsForAll` | `NsimBusProofs` | `Spec => []ExitWaits` |
| `EveryRunCounted` | `NsimOffloadsProofs` | `Spec => []StatsExact` |
| `ReferencesGoInTime` | `NsimOffloadsProofs` | `Spec => []HeldIsThere` |
| `NexthopsAccounted` | `NsimOffloadsProofs` | `Spec => []NexthopsExact` |
| `NoEventStranded` | `NsimOffloadsProofs` | `FibSpec => []EventsScheduled` |
| `RoutesFollowed` | `NsimOffloadsProofs` | `FibSpec => []TableFollowsKernel` |
| `OccupancyIsExact` | `NsimOffloadsProofs` | `FibSpec => []OccupancyExact` |

They hold for all constants that satisfy the modules' named assumptions: any sets
of threads, readers, owners, devices, pins, ports, netdevs, nexthops and prefixes
(finite where the model takes a cardinality or a sum), any number of virtual clocks,
VFs and outstanding route events, any lengths of time. With them every safety
property that a passing run checks is proved.

The premises name what the code leaves to its callers, and without each of them TLC
refutes the property. `SysfsWriters = {}` is explained above. `NoWrap`: the ids of pins have not wrapped around, so that no
two pins of one index meet. `Orderly` and `OneParent`: an owner registers a pin with a
device once, gives a parent its devices before its children, and puts a child on one
parent at a time. `Fits >= 1`: a message holds at least one object. `PlainUse`: the
three uses of `NsimDev` that the code does not handle do not occur, and the indices of
PF ports are below those of VFs. `Timely`: the largest delay, the slack and the
latency fit in a second, with room for the slack and the latency once more for each
write of `extts_delay_ms` between two events, since each write starts the timer anew.
With the code's 900 ms and 1 ms and a timer at most 1 ms late that allows 48 writes
per event; the bound is sharp (`Sec = 5` in `MockPins.cfg` refutes `NoSecondMissed`).

The arguments.

- `NsimDpll`. `NoLostNotification` and `HoldoverHasTimer` speak of a device at rest
  and are not inductive: their strengthenings say, for every state, who still owes
  the announcement (a thread before its `schedule_work`, the callback, the queued
  work, or the work at an earlier device) and who still owes the timer (a thread
  before its `hrtimer_start`). `NothingArmedWhenFreed` follows the order of
  `nsim_dpll_exit` and of the unwinding: what is cancelled at each phase stays so, the
  holdover timer and the work as long as no GNSS write is `late`.
- `PtpEvents`. The invariant says where each reader is between its reads of `tail`
  and `head`, its place in the wait queue and the queues the writer has still to
  visit; a reader about to sleep has read a pair that was current, or has been woken
  since. `QueuesAreFifos` is the refinement step by step: `Contents` of the ring
  before and after each action, where an `enqueue` into a full ring drops the oldest
  and a `take` drops what the reader got or missed, and every other step leaves it alone.
- `DpllCore`. `RefsAgree` is inductive with the shape of the references; the work is
  in the failure paths, where both ends are undone by the same `RefDel`.
  `CountsHolders` needs that an owner holds the pins it has registered and that a pin
  is found by its index exactly while its count is not 0. `ServedIsAlive` needs most
  (`AliveInv`): every reference has exactly the registrations the owners have made,
  a child's being those of its parent's devices; every mark belongs to an object with
  a registration; and whoever has registered also holds. Each action then changes one
  owner's record and one list.
- `DpllNetlink`. `CoreUnderneath` carries every theorem about the core over. The dump
  invariant: what has been sent lies below the index, and what has stayed and lies
  below it has been sent; a message takes the objects from the index on in the order of
  their ids, so it needs that a set of ids has a least one. `DevicesAgree` is
  inductive: a roll-back restores the value all devices had.
- `PtpVclocks`. The invariant says how many clocks are registered in the middle of a
  store, and that the array lists them up to there; and that from the end of the walk on
  there is no child unless a store overlaps.
- `MockPins`. What the callback has read is still so when it emits, since no time
  passes in it: that gives the stamps and, with the order of the seconds of enabling,
  of the last event and of now, `NoSpuriousEdge`. `NoSecondMissed` is a deadline: the
  timer is queued whenever nobody runs it, is never more than the latency overdue, and
  expires within `Grace(stores)` of the edge after the last event (`DeadlineInv`);
  `Soon` concludes that at most one edge has passed since.
- `NsimPorts`. Until `stale`, who holds or destroys a PHC has it for itself: the count is
  that of the ports that hold it, and while it is not 0 the PHC is in the class with the
  id of its ports. Until `doubled` no two PHCs that are held have one id but -1. A port
  that has only found a PHC knows nothing of it; the history variables say at `Get`,
  `Create` and `CreateUndo` what it would have had to know.
- `NsimDev`. The invariant relates the parts that are set up to the operation's plan
  and to how far it has got, by the places of the parts in the sequences; ports, pins
  and VF configurations are tied to their parts.
- `NsimBus`. The invariant says who holds `nsim_bus_dev_list_lock` (`LockInv`), that a
  device is on the list or in the hands of one actor, and as complete as that actor has
  made it (`DevInv`), that `nsim_bus_devs` is the number of devices and one for the bus
  (`CountInv`), and whose each id and function is, also in the middle of a creation or
  a deletion (`FunInv`). The counts hold until a writer races with `nsim_bus_exit` or
  dies with the lock held, the functions until freed memory is misread: the three
  allowances of the properties.
- `NsimHwstats`. An entry is enabled exactly when the work is to count for its netdev
  (`EnabledInv`), which is what the two halves of `enable_ifindex` could break;
  `ListInv` says who may be on the list at each phase of the exit, `ZeroInv` that
  counting starts from nothing.
- `NsimNexthops`. The occupancy is a sum over a finite set, and a step changes what one
  nexthop weighs. That the sum moves by just that is proved by a minimal counterexample:
  a smallest set for which it fails would, less one member, leave a smaller one. A
  nexthop's entry is never smaller than the kernel's, and larger only if it is in `nhStale`.
- `NsimFib`. The events that are outstanding, the rest of the work's batch and then the
  queue, are one sequence. For each prefix there is a history of what the route was
  between any two of them: it begins with the entry of the table and ends with the
  kernel's route, and each event leads from one to the next (`Trail`); where a deletion
  was lost nexthops may have gone without an event, and the table may lag behind, as
  long as a flush is still to come after that place (`Covered`). When the sequence is
  empty and no flush is due, both ends meet: `TableFollowsKernel`. For the occupancy each prefix
  has a `Bill`: one if it has a route in the end, and one for each event whose
  replacement is still to be given back. The number is bounded by the bills from both
  sides, from above along the tables (`UpperInv`) and from below along the kernel's
  routes (`LowerInv`), and when all is carried out the two meet.

Checked by TLC only: the liveness properties (`LossEndsInFreerun`, `NavReportsLoss`,
`UnregisterCompletes`, `OpCompletes`, `ExitCompletes`), since fairness and `ENABLED` are
beyond the prover.

## Not modelled

BPF, IPsec and MACsec offload could be added: tables changed by one call each under
the rtnl lock, with little that could interleave.

The clock arithmetic of `mock_phc_read_locked` and of `ptp_vclock.c` multiplies 64
bit numbers, beyond TLC's integers.

Not planned: packet I/O, ethtool settings, message formats (UBX and NMEA bytes,
netlink attributes), health reporters and psample (fixed test content), the
compatibility headers, the path-rewriting shim, scripts and packaging.
