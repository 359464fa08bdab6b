------------------------------- MODULE NsimBus ------------------------------
(***************************************************************************)
(* The netdevsim bus (netdevsim/bus.c), the fake PCI functions its devices *)
(* sit on (netdevsim/fakepci.c) and the loading and unloading of the       *)
(* module (netdevsim/netdev.c).                                            *)
(*                                                                         *)
(* Writers of the bus files new_device and del_device hold                 *)
(* nsim_bus_dev_list_lock from their test of nsim_bus_enable to the end.   *)
(* Beside them run the loading and unloading of the module (the actor      *)
(* Module), a writer of a device's new_port or del_port, holders of        *)
(* references, who delay the release of a device, and users of the PCI     *)
(* files remove and rescan.                                                *)
(* What probe and removal do inside a device is module NsimDev.            *)
(***************************************************************************)
EXTENDS Integers, FiniteSets, SequencesExt

CONSTANTS
  Writers,    \* the writers of new_device and del_device
  Module,     \* the process that loads and unloads the module
  Ids,        \* the ids written
  Slots,      \* PCI device numbers, without 0, which fakepci_init occupies
  Functions,  \* PCI function numbers
  Objs,       \* memory for struct nsim_bus_dev
  None,
  PciRaces    \* whether users remove a PCI device that is being deleted

ASSUME NsimBusAssumption ==
  /\ Module \notin Writers /\ None \notin Writers \cup {Module} \cup Objs
  /\ 0 \in Functions
  /\ PciRaces \in BOOLEAN

VARIABLES
  enable,    \* nsim_bus_enable
  count,     \* nsim_bus_devs, "Including the bus itself."
  released,  \* the completion nsim_bus_devs_released
  lock,      \* the holder of nsim_bus_dev_list_lock
  list,      \* nsim_bus_dev_list
  ida,       \* nsim_bus_dev_ids
  dev,       \* the bus devices
  root,      \* whether the fake root bus exists
  fake,      \* fake_devices_list, as addresses
  probed,    \* the entries of it whose pci_dev is set
  pci,       \* the devices the PCI core has on the root bus
  pc, arg,   \* where an actor is, and the [id, addr, dev, pdev] it works on
  loaded,    \* whether nsim_module_init succeeded
  port,      \* the device a writer of new_port or del_port works on
  raced,     \* history: the bus's own count was dropped under a new_device
  misread    \* history: the error path of a new_device read a freed address wrongly

busVars == <<enable, count, released, lock, list, ida>>
pciVars == <<root, fake, probed, pci>>
vars == <<busVars, dev, pciVars, pc, arg, loaded, port, raced, misread>>

Addrs == [device : Slots, function : Functions]

Actors == Writers \cup {Module}

NoDev == [state |-> "none"]
NoArg == [id |-> None, addr |-> None, dev |-> None, pdev |-> FALSE]

Goto(x, l) == pc' = [pc EXCEPT ![x] = l]

Live == {d \in Objs : dev[d] # NoDev}

\* kzalloc; it does not matter which memory a device gets.
Fresh == CHOOSE d \in Objs : dev[d] = NoDev

-----------------------------------------------------------------------------
(* refcount_t.  Leaving zero or passing below it saturates the count. *)

Saturated == -1

Inc(c) == IF c \in {0, Saturated} THEN Saturated ELSE c + 1

Dec(c) == IF c \in {0, Saturated} THEN Saturated ELSE c - 1

\* Mutant: the last count does not complete.
DropCountSilently ==
  /\ count' = Dec(count)
  /\ UNCHANGED released

\* refcount_dec_and_test and complete.
DropCount ==
  /\ count' = Dec(count)
  /\ released' = (released \/ Dec(count) = 0)

-----------------------------------------------------------------------------
(* Fake PCI functions. *)

ZeroOf(a) == [a EXCEPT !.function = 0]

\* A scan asks bridge_read_op for function 0 of each slot and, as the header
\* type says MFD, for the others when function 0 answers.
Found == {a \in fake : ZeroOf(a) \in fake}

\* pci_rescan_bus; fake_pci_probe runs for the new devices.
Rescan ==
  /\ pci' = pci \cup Found
  /\ probed' = probed \cup (Found \ pci)

\* The tests of create_fake_pci_device.
MayCreate(a) == a \notin fake /\ ZeroOf(a) \in fake \cup {a}

-----------------------------------------------------------------------------
(* new_device_store and nsim_bus_dev_new. *)

\* The lock is taken and the enable test passed; memory is bounded by Objs.
NewBegin(w) ==
  /\ pc[w] = "idle" /\ lock = None /\ enable
  /\ Live # Objs
  /\ \E i \in Ids, a \in Addrs : arg' = [arg EXCEPT ![w] = [NoArg EXCEPT !.id = i, !.addr = a]]
  /\ lock' = w /\ Goto(w, "create")
  /\ UNCHANGED <<enable, count, released, list, ida, dev, pciVars, loaded, port, raced, misread>>

Return(w) ==
  /\ Goto(w, "idle") /\ lock' = None
  /\ arg' = [arg EXCEPT ![w] = NoArg]

\* create_fake_pci_device, up to the release of fake_devices_mutex.
NewCreate(w) ==
  /\ pc[w] = "create" /\ root
  /\ MayCreate(arg[w].addr)
  /\ fake' = fake \cup {arg[w].addr}
  /\ Goto(w, "scan")
  /\ UNCHANGED <<busVars, dev, root, probed, pci, arg, loaded, port, raced, misread>>

\* No memory, a bad address (found before the root bus is looked at), one in use,
\* or one without its function 0.
NewCreateFails(w) ==
  /\ pc[w] = "create"
  /\ Return(w)
  /\ UNCHANGED <<enable, count, released, list, ida, dev, pciVars, loaded, port, raced, misread>>

\* Without a root bus pci_domain_nr(root_bus) follows a null pointer.
NewWithoutRoot(w) ==
  /\ pc[w] = "create" /\ ~root
  /\ Goto(w, "dead")
  /\ UNCHANGED <<busVars, dev, pciVars, arg, loaded, port, raced, misread>>

NewScan(w) ==
  /\ pc[w] = "scan"
  /\ Rescan
  /\ Goto(w, "register")
  /\ UNCHANGED <<busVars, dev, root, fake, arg, loaded, port, raced, misread>>

\* ida_alloc_range and device_register up to the probe: the files are there.
NewRegister(w) ==
  /\ pc[w] = "register" /\ arg[w].id \notin ida
  /\ LET d == Fresh IN
       /\ dev' = [dev EXCEPT ![d] = [state |-> "registered", id |-> arg[w].id, addr |-> arg[w].addr,
                                     init |-> FALSE, probe |-> "no", counted |-> FALSE]]
       /\ arg' = [arg EXCEPT ![w].dev = d]
  /\ ida' = ida \cup {arg[w].id}
  /\ Goto(w, "probe")
  /\ UNCHANGED <<enable, count, released, lock, list, pciVars, loaded, port, raced, misread>>

\* The id is taken, or there is no memory for it: the device is freed and its
\* address read from the freed memory, which may hold anything by then.  The
\* function at the address that is read is removed, if there is one.
NewIdFails(w) ==
  /\ pc[w] = "register"
  /\ \E a \in Addrs \cup {None} :
       /\ fake' = fake \ {a}
       /\ pci' = pci \ ({a} \cap probed)
       /\ probed' = probed \ {a}
       /\ misread' = (misread \/ a # arg[w].addr)
  /\ Return(w)
  /\ UNCHANGED <<enable, count, released, list, ida, dev, root, loaded, port, raced>>

\* device_register fails: put_device releases the device, which drops a count
\* it never had, and the null pointer that replaces it is followed.
NewRegisterFails(w) ==
  /\ pc[w] = "register" /\ arg[w].id \notin ida
  /\ DropCount
  /\ Goto(w, "dead")
  /\ UNCHANGED <<enable, lock, list, ida, dev, pciVars, arg, loaded, port, raced, misread>>

\* nsim_drv_probe, which may fail; device_register succeeds all the same.
\* The reference it takes to the PCI device keeps that in memory, no more.
NewProbe(w) ==
  /\ pc[w] = "probe"
  /\ LET d == arg[w].dev IN
       \E result \in {"bound", "failed"} : dev' = [dev EXCEPT ![d].probe = result]
  /\ Goto(w, "finish")
  /\ UNCHANGED <<busVars, pciVars, arg, loaded, port, raced, misread>>

\* The rest of new_device_store.
NewFinish(w) ==
  /\ pc[w] = "finish"
  /\ LET d == arg[w].dev IN
       /\ count' = Inc(count)
       /\ dev' = [dev EXCEPT ![d].init = TRUE, ![d].counted = TRUE]
       /\ list' = Append(list, d)
  /\ Return(w)
  /\ UNCHANGED <<enable, released, ida, pciVars, loaded, port, raced, misread>>

-----------------------------------------------------------------------------
(* nsim_bus_dev_del, by del_device_store or by nsim_bus_exit. *)

\* list_del of the k-th entry: the device an actor deletes next.
Take(x, k) ==
  /\ list' = RemoveAt(list, k)
  /\ LET d == list[k] IN
       arg' = [arg EXCEPT ![x] = [NoArg EXCEPT !.id = dev[d].id, !.addr = dev[d].addr, !.dev = d]]
  /\ Goto(x, "unlist")

DelBegin(w) ==
  /\ pc[w] = "idle" /\ lock = None /\ enable
  /\ \E k \in DOMAIN list : Take(w, k)
  /\ lock' = w
  /\ UNCHANGED <<enable, count, released, ida, dev, pciVars, loaded, port, raced, misread>>

\* Mutant: the entry stays in fake_devices_list.
UnlistForgotten(x) ==
  /\ pc[x] = "unlist"
  /\ arg' = [arg EXCEPT ![x].pdev = arg[x].addr \in probed]
  /\ Goto(x, "stop")
  /\ UNCHANGED <<busVars, dev, pciVars, loaded, port, raced, misread>>

\* remove_fake_pci_device up to the release of fake_devices_mutex.
Unlist(x) ==
  /\ pc[x] = "unlist"
  /\ arg' = [arg EXCEPT ![x].pdev = arg[x].addr \in probed]
  /\ fake' = fake \ {arg[x].addr} /\ probed' = probed \ {arg[x].addr}
  /\ Goto(x, "stop")
  /\ UNCHANGED <<busVars, dev, root, pci, loaded, port, raced, misread>>

\* pci_stop_and_remove_bus_device; then init is cleared and the id freed.
Stop(x) ==
  /\ pc[x] = "stop"
  /\ pci' = IF arg[x].pdev THEN pci \ {arg[x].addr} ELSE pci
  /\ dev' = [dev EXCEPT ![arg[x].dev].init = FALSE]
  /\ ida' = ida \ {arg[x].id}
  /\ Goto(x, "unregister")
  /\ UNCHANGED <<enable, count, released, lock, list, root, fake, probed, arg, loaded, port, raced, misread>>

\* device_unregister waits for writers of the device's files, unbinds the
\* driver and puts the device.
Unregister(x) ==
  /\ pc[x] = "unregister" /\ port # arg[x].dev
  /\ dev' = [dev EXCEPT ![arg[x].dev].state = "gone", ![arg[x].dev].probe = "no"]
  /\ IF x = Module
     THEN Goto(x, "loop") /\ arg' = [arg EXCEPT ![x] = NoArg] /\ UNCHANGED lock
     ELSE Return(x)
  /\ UNCHANGED <<enable, count, released, list, ida, pciVars, loaded, port, raced, misread>>

\* nsim_bus_dev_release, when whoever else has a reference has put it.
Release(d) ==
  /\ dev[d].state = "gone"
  /\ dev' = [dev EXCEPT ![d] = NoDev]
  /\ DropCount
  /\ UNCHANGED <<enable, lock, list, ida, pciVars, pc, arg, loaded, port, raced, misread>>

-----------------------------------------------------------------------------
(* Loading: nsim_module_init. *)

\* fakepci_init; nobody looks at its result.
LoadPci ==
  /\ pc[Module] = "load"
  /\ root' \in BOOLEAN
  /\ Goto(Module, "load bus")
  /\ UNCHANGED <<busVars, dev, fake, probed, pci, arg, loaded, port, raced, misread>>

\* nsim_dev_init and nsim_bus_init.
LoadBus ==
  /\ pc[Module] = "load bus"
  /\ enable' = TRUE /\ count' = 1
  /\ Goto(Module, "load link")
  /\ UNCHANGED <<released, lock, list, ida, dev, pciVars, arg, loaded, port, raced, misread>>

LoadBusFails ==
  /\ pc[Module] = "load bus"
  /\ Goto(Module, "failed")
  /\ UNCHANGED <<busVars, dev, pciVars, arg, loaded, port, raced, misread>>

\* rtnl_link_register; its failure goes the way of an unloading.
LoadLink ==
  /\ pc[Module] = "load link"
  /\ \/ loaded' = TRUE /\ Goto(Module, "loaded")
     \/ loaded' = FALSE /\ Goto(Module, "disable")
  /\ UNCHANGED <<busVars, dev, pciVars, arg, port, raced, misread>>

-----------------------------------------------------------------------------
(* Unloading: nsim_module_exit and nsim_bus_exit. *)

ExitBegin ==
  /\ pc[Module] = "loaded"
  /\ Goto(Module, "disable")
  /\ UNCHANGED <<busVars, dev, pciVars, arg, loaded, port, raced, misread>>

ExitDisable ==
  /\ pc[Module] = "disable"
  /\ enable' = FALSE
  /\ Goto(Module, "drop")
  /\ UNCHANGED <<count, released, lock, list, ida, dev, pciVars, arg, loaded, port, raced, misread>>

\* Mutant: the completion does not depend on the count.
ExitDropCompletes ==
  /\ pc[Module] = "drop"
  /\ count' = Dec(count) /\ released' = TRUE
  /\ raced' = \E w \in Writers : pc[w] \in {"create", "scan", "register", "probe", "finish"}
  /\ Goto(Module, "lock")
  /\ UNCHANGED <<enable, lock, list, ida, dev, pciVars, arg, loaded, port, misread>>

\* The bus's own count, dropped before the lock is taken.
ExitDrop ==
  /\ pc[Module] = "drop"
  /\ DropCount
  /\ raced' = \E w \in Writers : pc[w] \in {"create", "scan", "register", "probe", "finish"}
  /\ Goto(Module, "lock")
  /\ UNCHANGED <<enable, lock, list, ida, dev, pciVars, arg, loaded, port, misread>>

ExitLock ==
  /\ pc[Module] = "lock" /\ lock = None
  /\ lock' = Module
  /\ Goto(Module, "loop")
  /\ UNCHANGED <<enable, count, released, list, ida, dev, pciVars, arg, loaded, port, raced, misread>>

ExitNext ==
  /\ pc[Module] = "loop" /\ list # <<>>
  /\ Take(Module, 1)
  /\ UNCHANGED <<enable, count, released, lock, ida, dev, pciVars, loaded, port, raced, misread>>

ExitUnlock ==
  /\ pc[Module] = "loop" /\ list = <<>>
  /\ lock' = None
  /\ Goto(Module, "wait")
  /\ UNCHANGED <<enable, count, released, list, ida, dev, pciVars, arg, loaded, port, raced, misread>>

ExitWait ==
  /\ pc[Module] = "wait" /\ released
  /\ Goto(Module, "unregister bus")
  /\ UNCHANGED <<busVars, dev, pciVars, arg, loaded, port, raced, misread>>

\* bus_unregister waits for writers of the bus files.  fakepci_exit follows
\* unless the loading failed; it needs the root bus.
ExitEnd ==
  /\ pc[Module] = "unregister bus" /\ \A w \in Writers : pc[w] = "idle"
  /\ \/ ~loaded /\ Goto(Module, "failed") /\ UNCHANGED pciVars
     \/ loaded /\ ~root /\ Goto(Module, "dead") /\ UNCHANGED pciVars
     \/ loaded /\ root /\ Goto(Module, "unloaded")
        /\ root' = FALSE /\ pci' = {} /\ probed' = {} /\ UNCHANGED fake
  /\ UNCHANGED <<busVars, dev, arg, loaded, port, raced, misread>>

-----------------------------------------------------------------------------
(* Users of a device's files and of the PCI files. *)

\* Mutant: new_port does not test init.
PortBeginUntested(d) ==
  /\ port = None /\ dev[d].state = "registered"
  /\ port' = d
  /\ UNCHANGED <<busVars, dev, pciVars, pc, arg, loaded, raced, misread>>

\* new_port_store and del_port_store, past their test of init.
PortBegin(d) ==
  /\ port = None /\ dev[d].state = "registered" /\ dev[d].init
  /\ port' = d
  /\ UNCHANGED <<busVars, dev, pciVars, pc, arg, loaded, raced, misread>>

PortEnd ==
  /\ port # None
  /\ port' = None
  /\ UNCHANGED <<busVars, dev, pciVars, pc, arg, loaded, raced, misread>>

\* The PCI file remove: fake_pci_remove clears pci_dev in the entry, if any.
PciRemove(a) ==
  /\ a \in pci
  /\ PciRaces \/ \A x \in Actors : ~(pc[x] = "stop" /\ arg[x].addr = a)
  /\ pci' = pci \ {a} /\ probed' = probed \ {a}
  /\ UNCHANGED <<busVars, dev, root, fake, pc, arg, loaded, port, raced, misread>>

PciRescan ==
  /\ root /\ ~(Found \subseteq pci)
  /\ Rescan
  /\ UNCHANGED <<busVars, dev, root, fake, pc, arg, loaded, port, raced, misread>>

-----------------------------------------------------------------------------
Init ==
  /\ enable = FALSE /\ count = 0 /\ released = FALSE /\ lock = None
  /\ list = <<>> /\ ida = {} /\ dev = [d \in Objs |-> NoDev]
  /\ root = FALSE /\ fake = {} /\ probed = {} /\ pci = {}
  /\ pc = [x \in Actors |-> IF x = Module THEN "load" ELSE "idle"]
  /\ arg = [x \in Actors |-> NoArg]
  /\ loaded = FALSE /\ port = None /\ raced = FALSE /\ misread = FALSE

WriterSteps(w) ==
  \/ NewCreate(w) \/ NewCreateFails(w) \/ NewWithoutRoot(w) \/ NewScan(w)
  \/ NewRegister(w) \/ NewIdFails(w) \/ NewRegisterFails(w) \/ NewProbe(w) \/ NewFinish(w)

DelSteps(x) == Unlist(x) \/ Stop(x) \/ Unregister(x)

ExitSteps ==
  \/ ExitDisable \/ ExitDrop \/ ExitLock \/ ExitNext \/ ExitUnlock \/ ExitWait \/ ExitEnd

Next ==
  \/ \E w \in Writers : NewBegin(w) \/ DelBegin(w) \/ WriterSteps(w)
  \/ \E x \in Actors : DelSteps(x)
  \/ \E d \in Objs : PortBegin(d) \/ Release(d)
  \/ \E a \in Addrs : PciRemove(a)
  \/ PortEnd \/ PciRescan
  \/ LoadPci \/ LoadBus \/ LoadBusFails \/ LoadLink \/ ExitBegin \/ ExitSteps

Spec == Init /\ [][Next]_vars

\* Writers that hold the lock go on, module exit goes on, and whoever holds a
\* reference or works on a port ends.  Nobody has to write a file or unload.
Fairness ==
  /\ \A w \in Writers : WF_vars(WriterSteps(w))
  /\ \A x \in Actors : WF_vars(DelSteps(x))
  /\ WF_vars(ExitSteps)
  /\ \A d \in Objs : WF_vars(Release(d))
  /\ WF_vars(PortEnd)

FairSpec == Spec /\ Fairness

-----------------------------------------------------------------------------
Died == \E x \in Actors : pc[x] = "dead"

\* The devices on the list have distinct ids and distinct PCI functions, the ids
\* taken are theirs, and fake_devices_list holds exactly their functions: none is
\* left behind by a deletion or a failed creation, none is missing.  This is
\* observed while no writer is at work, and as long as the error path of
\* nsim_bus_dev_new read the right address from the memory it had freed.
FunctionsMatch ==
  (lock = None /\ ~misread) =>
    /\ \A d, e \in ToSet(list) : d # e => dev[d].id # dev[e].id /\ dev[d].addr # dev[e].addr
    /\ ida = {dev[d].id : d \in ToSet(list)}
    /\ fake = {dev[d].addr : d \in ToSet(list)}
    /\ probed = fake \cap pci

\* A writer of new_port or del_port past the test of init works on a device that
\* has been probed and whose driver is not being removed: the device may lack its
\* driver data only when its probe failed.
PortUseReady ==
  port # None => dev[port].state = "registered" /\ dev[port].probe # "no"

\* When nsim_bus_exit is past wait_for_completion, no device is left whose
\* release function would run in the unloaded module.
ExitWaits ==
  (pc[Module] \in {"unregister bus", "unloaded"} /\ ~raced /\ ~Died) => Live = {}

\* nsim_bus_exit ends: the lock it waits for is released, and the completion it
\* waits for comes, unless a writer died with the lock held.
ExitCompletes ==
  pc[Module] = "disable" ~> (pc[Module] \in {"unloaded", "failed"} \/ Died)
=============================================================================
