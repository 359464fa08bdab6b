------------------------------ MODULE DpllCore ------------------------------
(***************************************************************************)
(* The objects of the DPLL subsystem, dpll/dpll_core.c: reference counted  *)
(* devices and pins, the registrations of devices by their owners, and the *)
(* references between pins and devices and between pins and parent pins,   *)
(* each with its list of registrations and a count of its own.             *)
(*                                                                         *)
(* Every call runs under dpll_lock and is one step.  A device or a pin is  *)
(* named by the key (clock id, index, module) it is found by; an owner     *)
(* stands for the ops and the priv pointer it registers with.  The owners  *)
(* keep the order the API asks for: get, register, unregister, put, and a  *)
(* pin's registrations within those of its device and its parent.          *)
(***************************************************************************)
EXTENDS Naturals, FiniteSets, Sequences

CONSTANTS
  Owners,      \* drivers, or instances of one, that share devices and pins
  Devices,
  Pins,        \* pins registered with devices, the parents among them
  Children,    \* pins registered with parent pins
  Direct,      \* the cookie of a registration made by dpll_pin_register
  PinIdx,      \* the pin_idx of each pin
  MaxReg,      \* bound: how often an owner registers one pin with one device
  MaxAllocs,   \* bound: how many pins are allocated
  PinIds,      \* how many ids there are for pins (2^32)
  AllocFails,  \* whether memory allocations may fail
  SettledParents \* whether a parent keeps its devices as long as it has children

ASSUME DpllCoreAssumption ==
  /\ Pins \cap Children = {} /\ Direct \notin Pins
  /\ IsFiniteSet(Owners) /\ IsFiniteSet(Pins)
  /\ PinIdx \in [Pins \cup Children -> Nat]
  /\ MaxReg \in Nat \ {0} /\ MaxAllocs \in Nat /\ PinIds \in Nat \ {0}
  /\ AllocFails \in BOOLEAN /\ SettledParents \in BOOLEAN

AllPins == Pins \cup Children

VARIABLES
  devRefs,     \* dpll->refcount, 0 when there is no such device
  devRegs,     \* dpll->registration_list
  devMark,     \* devices with DPLL_REGISTERED in dpll_device_xa
  pinRefs,     \* pin->refcount, 0 when there is no such pin
  pinXa,       \* pins in dpll_pin_xa
  pinMark,     \* pins with DPLL_REGISTERED in dpll_pin_xa
  pinAllocs,   \* pins allocated so far; their ids follow each other
  pin_refs,    \* the references a device has to pins
  dpll_refs,   \* the references a pin has to devices
  parent_refs, \* the references a pin has to parent pins
  own,         \* what each owner holds and has registered
  told,        \* devices user space has heard of and not been told deleted
  warned       \* a WARN_ON has fired

objects == <<devRefs, devRegs, devMark, pinRefs, pinXa, pinMark, pinAllocs>>
refs    == <<pin_refs, dpll_refs, parent_refs>>
vars    == <<objects, refs, own, told, warned>>

-----------------------------------------------------------------------------
(* References: a count, 0 when there is none, and a list of registrations. *)

Registration == [owner: Owners, cookie: Pins \cup Children \cup {Direct}]

NoRef == [cnt |-> 0, regs |-> <<>>]

Registered(ref, reg) == \E i \in 1..Len(ref.regs) : ref.regs[i] = reg

\* dpll_xa_ref_pin_add and dpll_xa_ref_dpll_add, when nothing fails: a
\* registration that is there already is only counted.
RefAdd(ref, reg) ==
  [cnt  |-> ref.cnt + 1,
   regs |-> IF Registered(ref, reg) THEN ref.regs ELSE Append(ref.regs, reg)]

\* The list without its first entry equal to reg.
ListDel(regs, reg) ==
  LET first == CHOOSE i \in 1..Len(regs) : regs[i] = reg /\ \A j \in 1..(i-1) : regs[j] # reg
  IN  [i \in 1..(Len(regs) - 1) |-> IF i < first THEN regs[i] ELSE regs[i + 1]]

\* Mutant: the registration stays on the list.
RefDelKeepsList(ref, reg) ==
  IF ref.cnt = 0 \/ ~Registered(ref, reg) THEN ref
  ELSE IF ref.cnt = 1 THEN NoRef
  ELSE [ref EXCEPT !.cnt = @ - 1]

\* dpll_xa_ref_pin_del and dpll_xa_ref_dpll_del.
RefDel(ref, reg) ==
  IF ref.cnt = 0 \/ ~Registered(ref, reg) THEN ref
  ELSE IF ref.cnt = 1 THEN NoRef
  ELSE [cnt |-> ref.cnt - 1, regs |-> ListDel(ref.regs, reg)]

\* What their WARN_ONs test.
RefDelWarns(ref, reg) ==
  /\ ref.cnt > 0
  /\ \/ ~Registered(ref, reg)
     \/ ref.cnt = 1 /\ Len(ref.regs) > 1

\* xa_insert: the index of the pin is taken by another pin.
IndexTaken(tab, p) == \E q \in DOMAIN tab : q # p /\ PinIdx[q] = PinIdx[p] /\ tab[q].cnt > 0

\* Adding to a reference needs memory unless the registration is there.
MayFail(ref, reg) == AllocFails /\ ~Registered(ref, reg)

-----------------------------------------------------------------------------
(* Devices. *)

\* Owner o has pins registered with device d.
UsesDevice(o, d) ==
  \E p \in AllPins : \E i \in 1..Len(pin_refs[d][p].regs) : pin_refs[d][p].regs[i].owner = o

DeviceGet(o, d) ==
  /\ d \notin own[o].dev
  /\ devRefs' = [devRefs EXCEPT ![d] = @ + 1]
  /\ own' = [own EXCEPT ![o].dev = @ \cup {d}]
  /\ UNCHANGED <<devRegs, devMark, pinRefs, pinXa, pinMark, pinAllocs, refs, told, warned>>

\* The last reference frees the device and, unseen, what is still attached.
DevicePut(o, d) ==
  /\ d \in own[o].dev \ own[o].devReg
  /\ ~UsesDevice(o, d)
  /\ devRefs' = [devRefs EXCEPT ![d] = @ - 1]
  /\ warned' = (warned \/ (devRefs[d] = 1 /\ (\/ d \in devMark \/ devRegs[d] # <<>>
                                               \/ \E q \in AllPins : pin_refs[d][q].cnt > 0)))
  /\ own' = [own EXCEPT ![o].dev = @ \ {d}]
  /\ UNCHANGED <<devRegs, devMark, pinRefs, pinXa, pinMark, pinAllocs, refs, told>>

\* Only the first registration marks the device and announces it.
DeviceRegister(o, d) ==
  /\ d \in own[o].dev \ own[o].devReg
  /\ devRegs' = [devRegs EXCEPT ![d] = Append(@, o)]
  /\ devMark' = devMark \cup {d}
  /\ told' = IF devRegs[d] = <<>> THEN told \cup {d} ELSE told
  /\ own' = [own EXCEPT ![o].devReg = @ \cup {d}]
  /\ UNCHANGED <<devRefs, pinRefs, pinXa, pinMark, pinAllocs, refs, warned>>

\* Mutant: the mark goes with the first registration that goes.
DeviceUnregisterClearsMark(o, d) ==
  /\ d \in own[o].devReg
  /\ ~UsesDevice(o, d)
  /\ told' = told \ {d}
  /\ devRegs' = [devRegs EXCEPT ![d] = ListDel(@, o)]
  /\ devMark' = devMark \ {d}
  /\ own' = [own EXCEPT ![o].devReg = @ \ {d}]
  /\ warned' = (warned \/ d \notin devMark)
  /\ UNCHANGED <<devRefs, pinRefs, pinXa, pinMark, pinAllocs, refs>>

\* The deletion is announced before it is known whether others remain.
DeviceUnregister(o, d) ==
  /\ d \in own[o].devReg
  /\ ~UsesDevice(o, d)
  /\ told' = told \ {d}
  /\ devRegs' = [devRegs EXCEPT ![d] = ListDel(@, o)]
  /\ devMark' = IF devRegs[d] = <<o>> THEN devMark \ {d} ELSE devMark
  /\ own' = [own EXCEPT ![o].devReg = @ \ {d}]
  /\ warned' = (warned \/ d \notin devMark)
  /\ UNCHANGED <<devRefs, pinRefs, pinXa, pinMark, pinAllocs, refs>>

-----------------------------------------------------------------------------
(* Pins. *)

\* A pin whose id is the first after the ids have wrapped around.
Wraps(n) == n > 0 /\ n % PinIds = 0

\* Mutant: a pin that is found is not counted.
PinGetNoCount(o, p) ==
  /\ p \notin own[o].pin
  /\ \/ /\ p \in pinXa
        /\ UNCHANGED <<pinRefs, pinXa, pinAllocs>>
     \/ /\ p \notin pinXa /\ pinAllocs < MaxAllocs
        /\ pinRefs' = [pinRefs EXCEPT ![p] = 1]
        /\ pinXa' = pinXa \cup {p}
        /\ pinAllocs' = pinAllocs + 1
  /\ own' = [own EXCEPT ![o].pin = @ \cup {p}]
  /\ UNCHANGED <<devRefs, devRegs, devMark, pinMark, refs, told, warned>>

\* dpll_pin_get: an existing pin, or dpll_pin_alloc.  xa_alloc_cyclic returns 1
\* when the ids have wrapped; dpll_pin_alloc then frees the pin and leaves it in
\* dpll_pin_xa, and the caller does not take ERR_PTR(1) for an error.
PinGet(o, p) ==
  /\ p \notin own[o].pin
  /\ \/ /\ p \in pinXa
        /\ pinRefs' = [pinRefs EXCEPT ![p] = @ + 1]
        /\ UNCHANGED <<pinXa, pinAllocs>>
     \/ /\ p \notin pinXa /\ pinAllocs < MaxAllocs
        /\ pinRefs' = [pinRefs EXCEPT ![p] = IF Wraps(pinAllocs) THEN 0 ELSE 1]
        /\ pinXa' = pinXa \cup {p}
        /\ pinAllocs' = pinAllocs + 1
  /\ own' = [own EXCEPT ![o].pin = @ \cup {p}]
  /\ UNCHANGED <<devRefs, devRegs, devMark, pinMark, refs, told, warned>>

\* What owner o has registered of or under pin p.
Uses(o, p) ==
  \/ \E d \in Devices : own[o].pinReg[<<d, p>>] > 0
  \/ \E q \in AllPins : <<p, q>> \in own[o].onPin \/ <<q, p>> \in own[o].onPin

PinPut(o, p) ==
  /\ p \in own[o].pin /\ ~Uses(o, p)
  /\ pinRefs' = [pinRefs EXCEPT ![p] = @ - 1]
  /\ pinXa' = IF pinRefs[p] = 1 THEN pinXa \ {p} ELSE pinXa
  /\ pinMark' = IF pinRefs[p] = 1 THEN pinMark \ {p} ELSE pinMark
  /\ own' = [own EXCEPT ![o].pin = @ \ {p}]
  /\ UNCHANGED <<devRefs, devRegs, devMark, pinAllocs, refs, told, warned>>

-----------------------------------------------------------------------------
(* Pins on devices. *)

\* Whether the owners may now change the devices of pin p.
MayChange(p) == SettledParents => \A q \in Children : parent_refs[q][p].cnt = 0

DirectReg(o) == [owner |-> o, cookie |-> Direct]

PinRegister(o, d, p) ==
  LET reg == DirectReg(o) IN
  /\ p \in own[o].pin /\ d \in own[o].devReg /\ own[o].pinReg[<<d, p>>] < MaxReg
  /\ MayChange(p) \/ dpll_refs[p][d].cnt > 0
  /\ ~IndexTaken(pin_refs[d], p)
  /\ pin_refs' = [pin_refs EXCEPT ![d][p] = RefAdd(@, reg)]
  /\ dpll_refs' = [dpll_refs EXCEPT ![p][d] = RefAdd(@, reg)]
  /\ pinMark' = pinMark \cup {p}
  /\ own' = [own EXCEPT ![o].pinReg[<<d, p>>] = @ + 1]
  /\ UNCHANGED <<devRefs, devRegs, devMark, pinRefs, pinXa, pinAllocs, parent_refs, told, warned>>

\* Mutant: the first reference is not undone.
PinRegisterFailKeepsRef(o, d, p) ==
  LET reg == DirectReg(o) IN
  /\ p \in own[o].pin /\ d \in own[o].devReg /\ own[o].pinReg[<<d, p>>] < MaxReg
  /\ ~IndexTaken(pin_refs[d], p) /\ MayFail(dpll_refs[p][d], reg)
  /\ pin_refs' = [pin_refs EXCEPT ![d][p] = RefAdd(@, reg)]
  /\ UNCHANGED <<objects, dpll_refs, parent_refs, own, told, warned>>

\* The second of the two references cannot be made: the first is undone.
PinRegisterFail(o, d, p) ==
  LET reg == DirectReg(o) IN
  /\ p \in own[o].pin /\ d \in own[o].devReg /\ own[o].pinReg[<<d, p>>] < MaxReg
  /\ ~IndexTaken(pin_refs[d], p) /\ MayFail(dpll_refs[p][d], reg)
  /\ pin_refs' = [pin_refs EXCEPT ![d][p] = RefDel(RefAdd(@, reg), reg)]
  /\ warned' = (warned \/ RefDelWarns(RefAdd(pin_refs[d][p], reg), reg))
  /\ UNCHANGED <<objects, dpll_refs, parent_refs, own, told>>

\* dpll_pin_unregister returns early, with a warning, when the pin has parents.
PinUnregister(o, d, p) ==
  LET reg == DirectReg(o) IN
  /\ own[o].pinReg[<<d, p>>] > 0
  /\ MayChange(p) \/ dpll_refs[p][d].cnt > 1
  /\ own' = [own EXCEPT ![o].pinReg[<<d, p>>] = @ - 1]
  /\ IF \/ \A q \in AllPins : pin_refs[d][q].cnt = 0
        \/ \E q \in Pins : parent_refs[p][q].cnt > 0
     THEN /\ warned' = TRUE
          /\ UNCHANGED <<pin_refs, dpll_refs, pinMark>>
     ELSE /\ pin_refs' = [pin_refs EXCEPT ![d][p] = RefDel(@, reg)]
          /\ dpll_refs' = [dpll_refs EXCEPT ![p][d] = RefDel(@, reg)]
          /\ pinMark' = IF \A e \in Devices : dpll_refs'[p][e].cnt = 0
                        THEN pinMark \ {p} ELSE pinMark
          /\ warned' = (warned \/ p \notin pinMark \/ RefDelWarns(pin_refs[d][p], reg))
  /\ UNCHANGED <<devRefs, devRegs, devMark, pinRefs, pinXa, pinAllocs, parent_refs, told>>

-----------------------------------------------------------------------------
(* Pins on parent pins. *)

ChildReg(o, parent) == [owner |-> o, cookie |-> parent]

\* The devices the parent is registered with.
DevicesOf(p) == {d \in Devices : dpll_refs[p][d].cnt > 0}

\* Add to, or delete from, the references between child p and the devices ds.
AddToDevices(ds, p, reg) ==
  /\ pin_refs' = [d \in Devices |-> IF d \in ds
                    THEN [pin_refs[d] EXCEPT ![p] = RefAdd(@, reg)] ELSE pin_refs[d]]
  /\ dpll_refs' = [dpll_refs EXCEPT ![p] = [d \in Devices |->
                    IF d \in ds THEN RefAdd(@[d], reg) ELSE @[d]]]

DelFromDevices(ds, p, reg) ==
  /\ pin_refs' = [d \in Devices |-> IF d \in ds
                    THEN [pin_refs[d] EXCEPT ![p] = RefDel(@, reg)] ELSE pin_refs[d]]
  /\ dpll_refs' = [dpll_refs EXCEPT ![p] = [d \in Devices |->
                    IF d \in ds THEN RefDel(@[d], reg) ELSE @[d]]]

CanRegisterOnPin(o, parent, p) ==
  /\ {parent, p} \subseteq own[o].pin /\ <<parent, p>> \notin own[o].onPin
  /\ ~IndexTaken(parent_refs[p], parent)

PinOnPinRegister(o, parent, p) ==
  LET reg == ChildReg(o, parent)
      ds  == DevicesOf(parent)
  IN
  /\ CanRegisterOnPin(o, parent, p)
  /\ \A d \in ds : ~IndexTaken(pin_refs[d], p)
  /\ parent_refs' = [parent_refs EXCEPT ![p][parent] = RefAdd(@, ChildReg(o, p))]
  /\ pinRefs' = [pinRefs EXCEPT ![p] = @ + 1]
  /\ AddToDevices(ds, p, reg)
  /\ pinMark' = IF ds # {} THEN pinMark \cup {p} ELSE pinMark
  /\ own' = [own EXCEPT ![o].onPin = @ \cup {<<parent, p>>}]
  /\ UNCHANGED <<devRefs, devRegs, devMark, pinXa, pinAllocs, told, warned>>

\* One of the parent's devices, after those in done, refuses: they are undone,
\* which clears the mark of a pin that is left without a device.  (The half made
\* reference to the refusing device is undone as in PinRegisterFail.)
PinOnPinRegisterFail(o, parent, p) ==
  LET reg == ChildReg(o, parent) IN
  /\ CanRegisterOnPin(o, parent, p)
  /\ \E done \in SUBSET DevicesOf(parent), d \in DevicesOf(parent) :
       /\ d \notin done
       /\ IndexTaken(pin_refs[d], p) \/ MayFail(pin_refs[d][p], reg)
       /\ \A e \in done : ~IndexTaken(pin_refs[e], p)
       /\ pin_refs' = [e \in Devices |-> IF e \in done
                         THEN [pin_refs[e] EXCEPT ![p] = RefDel(RefAdd(@, reg), reg)]
                         ELSE pin_refs[e]]
       /\ dpll_refs' = [dpll_refs EXCEPT ![p] = [e \in Devices |->
                          IF e \in done THEN RefDel(RefAdd(@[e], reg), reg) ELSE @[e]]]
       /\ pinMark' = IF done # {} /\ \A e \in Devices : dpll_refs'[p][e].cnt = 0
                     THEN pinMark \ {p} ELSE pinMark
  /\ parent_refs' = [parent_refs EXCEPT ![p][parent] =
                       RefDel(RefAdd(@, ChildReg(o, p)), ChildReg(o, p))]
  /\ UNCHANGED <<devRefs, devRegs, devMark, pinRefs, pinXa, pinAllocs, own, told, warned>>

\* The loop goes over all devices the child is registered with, also those it
\* reached through another parent.
PinOnPinUnregister(o, parent, p) ==
  LET reg == ChildReg(o, parent)
      ds  == DevicesOf(p)
  IN
  /\ <<parent, p>> \in own[o].onPin
  /\ parent_refs' = [parent_refs EXCEPT ![p][parent] = RefDel(@, ChildReg(o, p))]
  /\ pinRefs' = [pinRefs EXCEPT ![p] = @ - 1]
  /\ DelFromDevices(ds, p, reg)
  /\ pinMark' = IF ds # {} /\ \A e \in Devices : dpll_refs'[p][e].cnt = 0
                THEN pinMark \ {p} ELSE pinMark
  /\ warned' = (\/ warned
                \/ RefDelWarns(parent_refs[p][parent], ChildReg(o, p))
                \/ \E d \in ds : p \notin pinMark \/ RefDelWarns(dpll_refs[p][d], reg))
  /\ own' = [own EXCEPT ![o].onPin = @ \ {<<parent, p>>}]
  /\ UNCHANGED <<devRefs, devRegs, devMark, pinXa, pinAllocs, told>>

-----------------------------------------------------------------------------
Init ==
  /\ devRefs = [d \in Devices |-> 0]
  /\ devRegs = [d \in Devices |-> <<>>]
  /\ devMark = {}
  /\ pinRefs = [p \in AllPins |-> 0]
  /\ pinXa = {} /\ pinMark = {} /\ pinAllocs = 0
  /\ pin_refs = [d \in Devices |-> [p \in AllPins |-> NoRef]]
  /\ dpll_refs = [p \in AllPins |-> [d \in Devices |-> NoRef]]
  /\ parent_refs = [p \in AllPins |-> [q \in Pins |-> NoRef]]
  /\ own = [o \in Owners |-> [dev |-> {}, devReg |-> {}, pin |-> {}, onPin |-> {},
                              pinReg |-> [dp \in Devices \X AllPins |-> 0]]]
  /\ told = {}
  /\ warned = FALSE

Next == \E o \in Owners :
  \/ \E d \in Devices : \/ DeviceGet(o, d) \/ DevicePut(o, d)
                        \/ DeviceRegister(o, d) \/ DeviceUnregister(o, d)
  \/ \E p \in AllPins : PinGet(o, p) \/ PinPut(o, p)
  \/ \E d \in Devices, p \in Pins : \/ PinRegister(o, d, p) \/ PinRegisterFail(o, d, p)
                                    \/ PinUnregister(o, d, p)
  \/ \E parent \in Pins, p \in Children : \/ PinOnPinRegister(o, parent, p)
                                          \/ PinOnPinRegisterFail(o, parent, p)
                                          \/ PinOnPinUnregister(o, parent, p)

Spec == Init /\ [][Next]_vars

-----------------------------------------------------------------------------
(* Properties. *)

Ref == [cnt: Nat, regs: Seq(Registration)]

\* The two ends of every reference between a device and a pin tell the same
\* story, also after a registration that failed half way (__dpll_pin_register
\* and the unwinding of dpll_pin_on_pin_register).
RefsAgree == \A d \in Devices, p \in AllPins : pin_refs[d][p] = dpll_refs[p][d]

\* What user space can reach is alive: a marked device has an owner whose
\* private data dpll_priv may use, and is allocated; a marked pin has a device,
\* and is allocated; and a device user space has been told of is still there
\* (dpll_device_get_by_id, dpll_cmd_pin_get_one, the create and delete
\* notifications).  None of the subsystem's WARN_ONs fires for owners that keep to
\* the order of calls the API asks for.
ServedIsAlive ==
  /\ \A d \in devMark : /\ devRegs[d] # <<>> /\ devRefs[d] > 0
                        /\ d \in own[devRegs[d][1]].devReg
  /\ \A d \in Devices : devRegs[d] # <<>> => d \in devMark
  /\ \A p \in pinMark : DevicesOf(p) # {} /\ pinRefs[p] > 0
  /\ told \subseteq devMark
  /\ ~warned

\* The reference counts count who holds a device or a pin, and a pin stays in
\* dpll_pin_xa until the last of them lets go (dpll_pin_get, dpll_pin_put,
\* dpll_pin_on_pin_register).
CountsHolders ==
  /\ \A d \in Devices : devRefs[d] = Cardinality({o \in Owners : d \in own[o].dev})
  /\ \A p \in AllPins :
       pinRefs[p] = Cardinality({o \in Owners : p \in own[o].pin})
                    + Cardinality({op \in Owners \X Pins : <<op[2], p>> \in own[op[1]].onPin})
=============================================================================
