------------------------------- MODULE NsimDev ------------------------------
(***************************************************************************)
(* One netdevsim device, netdevsim/dev.c: its probe and removal, devlink   *)
(* reloads, its ports, its virtual functions and eswitch mode, and the two *)
(* things that run beside them, the trap report work and a write of the    *)
(* debugfs file max_vfs.                                                   *)
(*                                                                         *)
(* Probe, removal and reload set parts of the device up or tear them down  *)
(* one by one with the devlink lock held, and any part may fail to set up. *)
(* The other operations hold the lock for one step.  The driver core       *)
(* removes the sysfs files of a device before it unbinds the driver, so    *)
(* they are not used during a removal.                                     *)
(***************************************************************************)
EXTENDS Integers, Sequences, FiniteSets

CONSTANTS
  PortCount,   \* nsim_bus_dev->port_count
  PfIndices,   \* the port indices written to new_port and del_port
  VfBase,      \* NSIM_DEV_VF_PORT_INDEX_BASE
  VfCounts,    \* the values written to sriov_numvfs and max_vfs
  DefaultVfs,  \* NSIM_BUS_DEV_MAX_VFS
  Uses         \* the uses of the device, of those in AllUses, that are made

AllUses == {"ports while reload failed", "max_vfs while going", "del_port of a pin's port"}

ASSUME NsimDevAssumption ==
  /\ PortCount \in Nat /\ VfBase \in Nat /\ DefaultVfs \in Nat
  /\ PfIndices \subseteq Nat /\ VfCounts \subseteq Nat /\ Uses \subseteq AllUses

VARIABLES
  bus,      \* the bus device: [registered, init, wpc, numVfs, maxVfs]
  drvdata,  \* whether the driver data of the bus device is set
  op,       \* probe, removal or reload under way: [name, k], see Plan
  parts,    \* the parts of the device that are set up
  ports,    \* nsim_dev->port_list, [index, vf] records
  devlink,  \* the indices of the ports registered with devlink
  pins,     \* the ports the DPLL has pins for, ndpll->port_pins
  esw,      \* nsim_dev->esw_mode
  vfs,      \* the length of nsim_dev->vfconfigs
  reload,   \* [failed, fail, forbid]: devlink's flag, fail_reload, dont_allow_reload
  work,     \* the trap report work
  writer    \* the value a write of max_vfs is about to set, or -1

vars == <<bus, drvdata, op, parts, ports, devlink, pins, esw, vfs, reload, work, writer>>

NoBus == [registered |-> FALSE, init |-> FALSE, wpc |-> FALSE, numVfs |-> 0, maxVfs |-> 0]

Idle == [name |-> "none", k |-> 0]

\* The devlink lock.
LockFree == op = Idle /\ work # "reporting"

-----------------------------------------------------------------------------
(* What probe, reload and removal do, in the order of setting up.  Tearing *)
(* down goes from the end to the front.                                    *)

ProbeParts == <<"vfconfigs", "register", "resources", "params", "region", "traps", "debugfs",
                "fib", "health", "bpf", "psample", "hwstats", "ports", "dpll">>

ReloadParts == <<"region", "traps", "fib", "health", "psample", "hwstats", "ports">>

ReloadDestroy == ReloadParts \o <<"dpll">>

RemoveRest == <<"vfconfigs", "register", "resources", "params", "debugfs", "bpf">>

\* The parts a running operation goes through; op.k of them are set up.
Plan == CASE op.name \in {"probe", "probe undo"}      -> ProbeParts
          [] op.name \in {"reload up", "reload undo"} -> ReloadParts
          [] op.name = "reload down"                  -> ReloadDestroy
          [] op.name = "remove"                       -> RemoveRest \o ReloadDestroy
          [] OTHER                                    -> <<>>

Rising == op.name \in {"probe", "reload up"} /\ op.k < Len(Plan)

Falling == op.name \in {"probe undo", "reload undo", "reload down", "remove"} /\ op.k > 0

\* cancel_delayed_work_sync has been called.
Canceling == Falling /\ Plan[op.k] = "traps"

-----------------------------------------------------------------------------
(* Ports. *)

Pf(i) == [index |-> i, vf |-> FALSE]

Vf(i) == [index |-> VfBase + i, vf |-> TRUE]

VfPorts == {p \in ports : p.vf}

IndicesOf(ps) == {p.index : p \in ps}

\* __nsim_dev_port_add: devlink refuses an index it has.
MayAdd(ps) ==
  /\ IndicesOf(ps) \cap devlink = {}
  /\ (reload.failed /\ op = Idle) => "ports while reload failed" \in Uses

\* The ports of nsim_dev_port_add_all.
FirstPorts == {Pf(i) : i \in 0..PortCount - 1}

AddPorts(ps) ==
  /\ ports' = ports \cup ps
  /\ devlink' = devlink \cup IndicesOf(ps)

DelPorts(ps) ==
  /\ ports' = ports \ ps
  /\ devlink' = devlink \ IndicesOf(ps)

-----------------------------------------------------------------------------
(* Setting a part up and tearing it down. *)

PartUp(part) ==
  /\ parts' = IF part = "dpll" /\ ~bus.wpc THEN parts ELSE parts \cup {part}
  /\ IF part = "ports" THEN MayAdd(FirstPorts) /\ AddPorts(FirstPorts)
                       ELSE UNCHANGED <<ports, devlink>>
  /\ work' = IF part = "traps" THEN "queued" ELSE work
  /\ pins' = IF part = "dpll" /\ bus.wpc THEN {p \in ports : ~p.vf} ELSE pins
  /\ vfs' = IF part = "vfconfigs" THEN bus.maxVfs ELSE vfs

\* Mutant: the work is cancelled without waiting for it.
MayGoNoSync(part) == part = "debugfs" => writer = -1

\* cancel_delayed_work_sync waits for the work, debugfs_remove for a writer.
MayGo(part) ==
  /\ part = "traps" => work \in {"idle", "queued"}
  /\ part = "debugfs" => writer = -1

PartDown(part) ==
  /\ MayGo(part)
  /\ parts' = parts \ {part}
  /\ IF part = "ports" THEN DelPorts(ports) ELSE UNCHANGED <<ports, devlink>>
  /\ work' = IF part = "traps" /\ work = "queued" THEN "idle" ELSE work
  /\ pins' = IF part = "dpll" THEN {} ELSE pins
  /\ vfs' = IF part = "vfconfigs" THEN 0 ELSE vfs

StepUp ==
  /\ Rising
  /\ PartUp(Plan[op.k + 1])
  /\ op' = [op EXCEPT !.k = @ + 1]
  /\ UNCHANGED <<bus, drvdata, esw, reload, writer>>

\* Mutant: the error path leaves the part set up last.
StepFailSkipsOne ==
  /\ Rising /\ op.k > 0
  /\ op' = [name |-> IF op.name = "probe" THEN "probe undo" ELSE "reload undo", k |-> op.k - 1]
  /\ UNCHANGED <<bus, drvdata, parts, ports, devlink, pins, esw, vfs, reload, work, writer>>

\* The part cannot be set up: what was before it is torn down.
StepFail ==
  /\ Rising
  /\ op' = [op EXCEPT !.name = IF @ = "probe" THEN "probe undo" ELSE "reload undo"]
  /\ UNCHANGED <<bus, drvdata, parts, ports, devlink, pins, esw, vfs, reload, work, writer>>

StepDown ==
  /\ Falling
  /\ PartDown(Plan[op.k])
  /\ op' = [op EXCEPT !.k = @ - 1]
  /\ UNCHANGED <<bus, drvdata, esw, reload, writer>>

-----------------------------------------------------------------------------
(* new_device: device_register calls nsim_drv_probe and succeeds even when *)
(* the probe fails.                                                        *)

ProbeBegin ==
  /\ ~bus.registered
  /\ \E wpc \in BOOLEAN :
       bus' = [NoBus EXCEPT !.registered = TRUE, !.wpc = wpc, !.maxVfs = DefaultVfs]
  /\ drvdata' = TRUE
  /\ op' = [name |-> "probe", k |-> 0]
  /\ esw' = "legacy"
  /\ reload' = [failed |-> FALSE, fail |-> FALSE, forbid |-> FALSE]
  /\ UNCHANGED <<parts, ports, devlink, pins, vfs, work, writer>>

ProbeEnd ==
  /\ \/ op.name = "probe" /\ op.k = Len(ProbeParts) /\ UNCHANGED drvdata
     \/ op.name = "probe undo" /\ op.k = 0 /\ drvdata' = FALSE
  /\ op' = Idle
  /\ bus' = [bus EXCEPT !.init = TRUE]
  /\ UNCHANGED <<parts, ports, devlink, pins, esw, vfs, reload, work, writer>>

\* What nsim_dev_reload_destroy does with the VFs before the parts.
DropVfs ==
  /\ bus' = [bus EXCEPT !.numVfs = 0]
  /\ IF bus.numVfs > 0 /\ esw = "switchdev"
       THEN DelPorts(VfPorts) /\ esw' = "legacy"
       ELSE UNCHANGED <<ports, devlink, esw>>

\* nsim_drv_remove; nsim_dev_reload_destroy does nothing after a failed reload.
RemoveBegin ==
  /\ LockFree /\ drvdata /\ bus.init
  /\ writer # -1 => "max_vfs while going" \in Uses
  /\ op' = [name |-> "remove",
            k |-> Len(RemoveRest) + IF reload.failed THEN 0 ELSE Len(ReloadDestroy)]
  /\ IF reload.failed THEN UNCHANGED <<bus, ports, devlink, esw>> ELSE DropVfs
  /\ UNCHANGED <<drvdata, parts, pins, vfs, reload, work, writer>>

RemoveEnd ==
  /\ op.name = "remove" /\ op.k = 0
  /\ op' = Idle
  /\ drvdata' = FALSE
  /\ bus' = NoBus
  /\ UNCHANGED <<parts, ports, devlink, pins, esw, vfs, reload, work, writer>>

\* del_device of a device without a driver.
RemoveUnbound ==
  /\ bus.registered /\ bus.init /\ ~drvdata /\ op = Idle
  /\ bus' = NoBus
  /\ UNCHANGED <<drvdata, op, parts, ports, devlink, pins, esw, vfs, reload, work, writer>>

-----------------------------------------------------------------------------
(* devlink reload: down, up, and devlink's note of whether it failed. *)

ReloadBegin ==
  /\ LockFree /\ drvdata /\ ~reload.forbid
  /\ op' = [name |-> "reload down", k |-> IF reload.failed THEN 0 ELSE Len(ReloadDestroy)]
  /\ IF reload.failed THEN UNCHANGED <<bus, ports, devlink, esw>> ELSE DropVfs
  /\ UNCHANGED <<drvdata, parts, pins, vfs, reload, work, writer>>

\* nsim_dev_reload_up: nsim_dev_reload_create begins with an empty list.
ReloadUp ==
  /\ op.name = "reload down" /\ op.k = 0
  /\ op' = [op EXCEPT !.name = IF reload.fail THEN "reload undo" ELSE "reload up"]
  /\ ports' = IF reload.fail THEN ports ELSE {}
  /\ UNCHANGED <<bus, drvdata, parts, devlink, pins, esw, vfs, reload, work, writer>>

ReloadEnd ==
  /\ \/ op.name = "reload up" /\ op.k = Len(ReloadParts)
     \/ op.name = "reload undo" /\ op.k = 0
  /\ reload' = [reload EXCEPT !.failed = op.name = "reload undo"]
  /\ op' = Idle
  /\ UNCHANGED <<bus, drvdata, parts, ports, devlink, pins, esw, vfs, work, writer>>

\* debugfs fail_reload and dont_allow_reload.
SetReload ==
  /\ "debugfs" \in parts
  /\ \/ reload' = [reload EXCEPT !.fail = ~@]
     \/ reload' = [reload EXCEPT !.forbid = ~@]
  /\ UNCHANGED <<bus, drvdata, op, parts, ports, devlink, pins, esw, vfs, work, writer>>

-----------------------------------------------------------------------------
(* Ports, VFs and the eswitch mode. *)

\* new_port: nsim_drv_port_add; what fails leaves no trace.
NewPort(i) ==
  /\ LockFree /\ drvdata /\ bus.init
  /\ i \notin IndicesOf(ports)
  /\ MayAdd({Pf(i)}) /\ AddPorts({Pf(i)})
  /\ UNCHANGED <<bus, drvdata, op, parts, pins, esw, vfs, reload, work, writer>>

\* del_port: nsim_drv_port_del looks for the index only.
DelPort(i) ==
  /\ LockFree /\ drvdata /\ bus.init
  /\ i \in IndicesOf(ports)
  /\ i \in IndicesOf(pins) => "del_port of a pin's port" \in Uses
  /\ DelPorts({p \in ports : p.index = i})
  /\ UNCHANGED <<bus, drvdata, op, parts, pins, esw, vfs, reload, work, writer>>

\* nsim_esw_switchdev_enable with n VFs.
AddVfPorts(n) == MayAdd({Vf(i) : i \in 0..n - 1}) /\ AddPorts({Vf(i) : i \in 0..n - 1})

\* Mutant: without VFs the ports of the old ones stay.
ConfigureVfsKeepsPorts(n) ==
  /\ LockFree /\ drvdata
  /\ n # bus.numVfs /\ (bus.numVfs = 0 \/ n = 0) /\ n <= bus.maxVfs
  /\ bus' = [bus EXCEPT !.numVfs = n]
  /\ IF esw = "switchdev" /\ n > 0 THEN AddVfPorts(n) ELSE UNCHANGED <<ports, devlink>>
  /\ UNCHANGED <<drvdata, op, parts, pins, esw, vfs, reload, work, writer>>

\* sriov_numvfs: nsim_drv_configure_vfs.  When the ports cannot be made, the
\* number goes back to the 0 it was and nothing has changed.
ConfigureVfs(n) ==
  /\ LockFree /\ drvdata
  /\ n # bus.numVfs /\ (bus.numVfs = 0 \/ n = 0) /\ n <= bus.maxVfs
  /\ bus' = [bus EXCEPT !.numVfs = n]
  /\ CASE esw = "switchdev" /\ n > 0 -> AddVfPorts(n) /\ UNCHANGED esw
       [] esw = "switchdev" /\ n = 0 -> DelPorts(VfPorts) /\ esw' = "legacy"
       [] OTHER                      -> UNCHANGED <<ports, devlink, esw>>
  /\ UNCHANGED <<drvdata, op, parts, pins, vfs, reload, work, writer>>

\* nsim_devlink_eswitch_mode_set; a switch that fails leaves no VF port.
EswitchModeSet ==
  /\ LockFree /\ drvdata
  /\ IF esw = "legacy"
       THEN \/ AddVfPorts(bus.numVfs) /\ esw' = "switchdev"
            \/ bus.numVfs > 0 /\ DelPorts(VfPorts) /\ UNCHANGED esw
       ELSE DelPorts(VfPorts) /\ esw' = "legacy"
  /\ UNCHANGED <<bus, drvdata, op, parts, pins, vfs, reload, work, writer>>

-----------------------------------------------------------------------------
(* The debugfs file max_vfs. *)

\* The write has begun: debugfs_remove waits for it.
MaxVfsBegin(v) ==
  /\ "debugfs" \in parts /\ writer = -1
  /\ op.name \in {"probe", "probe undo", "remove"} => "max_vfs while going" \in Uses
  /\ writer' = v
  /\ UNCHANGED <<bus, drvdata, op, parts, ports, devlink, pins, esw, vfs, reload, work>>

\* Under the lock: refused while there are VFs.
MaxVfsWrite ==
  /\ writer # -1 /\ LockFree
  /\ IF bus.numVfs > 0 THEN UNCHANGED <<vfs, bus>>
     ELSE vfs' = writer /\ bus' = [bus EXCEPT !.maxVfs = writer]
  /\ writer' = -1
  /\ UNCHANGED <<drvdata, op, parts, ports, devlink, pins, esw, reload, work>>

-----------------------------------------------------------------------------
(* nsim_dev_trap_report_work. *)

WorkMoves(to) ==
  /\ work' = to
  /\ UNCHANGED <<bus, drvdata, op, parts, ports, devlink, pins, esw, vfs, reload, writer>>

WorkStart == work = "queued" /\ ~Canceling /\ WorkMoves("running")

\* Mutant: the work waits for the lock.
WorkTryLockWaits == work = "running" /\ LockFree /\ WorkMoves("reporting")

WorkTryLock == work = "running" /\ WorkMoves(IF LockFree THEN "reporting" ELSE "requeue")

\* The ports are walked, the lock is dropped.
WorkReport == work = "reporting" /\ WorkMoves("requeue")

\* schedule_delayed_work has no effect on work that is being cancelled.
WorkRequeue == work = "requeue" /\ WorkMoves(IF Canceling THEN "idle" ELSE "queued")

-----------------------------------------------------------------------------
Init ==
  /\ bus = NoBus /\ drvdata = FALSE /\ op = Idle
  /\ parts = {} /\ ports = {} /\ devlink = {} /\ pins = {}
  /\ esw = "legacy" /\ vfs = 0
  /\ reload = [failed |-> FALSE, fail |-> FALSE, forbid |-> FALSE]
  /\ work = "idle" /\ writer = -1

\* The rest of a probe, removal or reload that has begun.
OpStep ==
  \/ StepUp \/ StepFail \/ StepDown
  \/ ProbeEnd \/ RemoveEnd \/ ReloadUp \/ ReloadEnd

WorkStep == WorkStart \/ WorkTryLock \/ WorkReport \/ WorkRequeue

Next ==
  \/ ProbeBegin \/ RemoveBegin \/ RemoveUnbound \/ ReloadBegin \/ SetReload
  \/ OpStep \/ WorkStep
  \/ \E i \in PfIndices : NewPort(i) \/ DelPort(i)
  \/ \E n \in VfCounts : ConfigureVfs(n) \/ MaxVfsBegin(n)
  \/ EswitchModeSet \/ MaxVfsWrite

Spec == Init /\ [][Next]_vars

\* The threads that hold or wait for the lock, and the workqueue, run.
FairSpec == Spec /\ WF_vars(OpStep) /\ WF_vars(WorkStep) /\ WF_vars(MaxVfsWrite)

-----------------------------------------------------------------------------
(* Properties. *)

\* No part is set up twice or torn down when it is not there, whatever failed
\* before: the labels of nsim_drv_probe and nsim_dev_reload_create and the two
\* lists of nsim_dev_reload_destroy and nsim_drv_remove agree, and the test of
\* devlink_is_reload_failed stands in for the parts that are gone.  A device whose
\* probe failed or that was removed leaves nothing behind, and one in use has all
\* its parts, or exactly the ones a failed reload leaves.
PartsAsTheyShould ==
  /\ Rising => Plan[op.k + 1] \notin parts
  /\ Falling /\ Plan[op.k] # "dpll" => Plan[op.k] \in parts
  /\ op = Idle =>
       CASE ~drvdata -> parts = {} /\ ports = {} /\ devlink = {} /\ pins = {} /\ work = "idle"
         [] drvdata /\ reload.failed ->
              parts = {RemoveRest[k] : k \in 1..Len(RemoveRest)} /\ ports = {}
         [] OTHER -> parts \cup {"dpll"} = {ProbeParts[k] : k \in 1..Len(ProbeParts)}

\* The trap work exists exactly while its data does ("caution, trap work takes
\* devlink lock"): nsim_dev_traps_exit frees what no work can still use, and as
\* long as there are traps the work stays scheduled, also when it found the
\* devlink lock taken, so reports do not stop for good.
WorkFollowsTraps ==
  /\ work # "idle" => "traps" \in parts
  /\ ("traps" \in parts /\ ~Canceling) => work # "idle"

\* The VF ports are those of the VFs in switchdev mode and none in legacy mode,
\* over all orders of sriov_numvfs, mode changes and reloads, and the ports
\* devlink knows are those of the list: none is lost.  A DPLL pin is for a port
\* that is there: nsim_dpll_cleanup_port_pins uses the port's netdev, so
\* nsim_dpll_exit must come before the ports go; and every VF has its entry of
\* vfconfigs ("Reject if VFs are configured"), which the ndo_set_vf handlers index.
PortsMatch ==
  /\ LockFree =>
       /\ VfPorts = IF esw = "switchdev" THEN {Vf(i) : i \in 0..bus.numVfs - 1} ELSE {}
       /\ devlink = IndicesOf(ports)
  /\ pins \subseteq ports
  /\ (drvdata /\ op.name # "remove") => bus.numVfs <= vfs

\* A probe, removal or reload that has begun ends: it waits for the trap work
\* with the lock held that the work wants.
OpCompletes == (op # Idle) ~> (op = Idle)

\* "WPC NIC: enables DPLL + GNSS emulation": a WPC device in use has a DPLL.
WpcHasDpll == (op = Idle /\ drvdata /\ bus.wpc /\ ~reload.failed) => "dpll" \in parts
=============================================================================
