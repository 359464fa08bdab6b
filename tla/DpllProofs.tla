----------------------------- MODULE DpllProofs -----------------------------
(***************************************************************************)
(* For any number of owners, devices and pins, and whatever allocation     *)
(* fails: the two ends of every reference between a device and a pin agree *)
(* (IInv), and the reference counts count who holds a device or a pin      *)
(* (HoldInv).  For owners that keep to an order of calls, every list of    *)
(* registrations is what the owners have registered, and what user space   *)
(* reaches is alive (AliveInv).  The netlink side leaves the objects to    *)
(* dpll_core.c, dumps report what stayed exactly once, the devices of a pin*)
(* agree on its value, and what a request calls belongs to an owner that is*)
(* still there.                                                            *)
(***************************************************************************)
EXTENDS DpllNetlink, FiniteSetTheorems, WellFoundedInduction, TLAPS

\* The tables of references between devices and pins.
TablesOK ==
  /\ pin_refs \in [Devices -> [AllPins -> Ref]]
  /\ dpll_refs \in [AllPins -> [Devices -> Ref]]

\* A reference that is not there has no registrations: adding the first one and
\* deleting it again gives back the same reference.
NoneIsEmpty ==
  \A d \in Devices, p \in AllPins : pin_refs[d][p].cnt = 0 => pin_refs[d][p] = NoRef

IInv == TablesOK /\ NoneIsEmpty /\ RefsAgree

\* Adding a registration keeps a reference well formed and makes it present.
LEMMA RefAddType ==
  ASSUME NEW ref \in Ref, NEW reg \in Registration
  PROVE  RefAdd(ref, reg) \in Ref /\ RefAdd(ref, reg).cnt = ref.cnt + 1
BY DEF RefAdd, Ref

\* Deleting one entry of a list that has it gives a list.
LEMMA ListDelType ==
  ASSUME NEW s \in Seq(Registration), NEW reg, \E i \in 1..Len(s) : s[i] = reg
  PROVE  ListDel(s, reg) \in Seq(Registration)
<1> DEFINE first == CHOOSE i \in 1..Len(s) : s[i] = reg /\ \A j \in 1..(i-1) : s[j] # reg
           t == [i \in 1..(Len(s) - 1) |-> IF i < first THEN s[i] ELSE s[i + 1]]
<1>1. Len(s) - 1 \in Nat
  OBVIOUS
<1>2. t \in [1..(Len(s) - 1) -> Registration]
  <2> HIDE DEF first
  <2> SUFFICES ASSUME NEW i \in 1..(Len(s) - 1) PROVE s[i] \in Registration /\ s[i + 1] \in Registration
    OBVIOUS
  <2> QED
    OBVIOUS
<1>3. t \in Seq(Registration)
  <2> HIDE DEF t
  <2> QED BY <1>1, <1>2
<1> QED
  BY <1>3 DEF ListDel

\* Deleting a registration keeps a reference well formed, and a reference whose
\* count drops to zero is gone.
LEMMA RefDelType ==
  ASSUME NEW ref \in Ref, NEW reg \in Registration, ref.cnt = 0 => ref = NoRef
  PROVE  RefDel(ref, reg) \in Ref /\ (RefDel(ref, reg).cnt = 0 => RefDel(ref, reg) = NoRef)
<1>1. CASE ref.cnt = 0 \/ ~Registered(ref, reg)
  BY <1>1 DEF RefDel
<1>2. CASE ref.cnt = 1 /\ Registered(ref, reg)
  BY <1>2 DEF RefDel, NoRef, Ref
<1>3. CASE ref.cnt # 0 /\ ref.cnt # 1 /\ Registered(ref, reg)
  <2>1. ListDel(ref.regs, reg) \in Seq(Registration)
    BY <1>3, ListDelType DEF Registered, Ref
  <2>2. ref.cnt - 1 \in Nat /\ ref.cnt - 1 # 0
    BY <1>3 DEF Ref
  <2> QED
    BY <1>3, <2>1, <2>2 DEF RefDel, Ref
<1> QED
  BY <1>1, <1>2, <1>3

\* Deleting what was just appended gives back the list.
LEMMA ListDelAppend ==
  ASSUME NEW s \in Seq(Registration), NEW reg \in Registration,
         \A i \in 1..Len(s) : s[i] # reg
  PROVE  ListDel(Append(s, reg), reg) = s
<1> DEFINE a == Append(s, reg)
           P(i) == a[i] = reg /\ \A j \in 1..(i-1) : a[j] # reg
           first == CHOOSE i \in 1..Len(a) : P(i)
<1>1. Len(a) = Len(s) + 1 /\ a[Len(s) + 1] = reg /\ \A i \in 1..Len(s) : a[i] = s[i]
  OBVIOUS
<1>2. P(Len(s) + 1)
  BY <1>1
<1>3. \A i \in 1..Len(a) : P(i) => i = Len(s) + 1
  BY <1>1
<1>4. first = Len(s) + 1
  <2> HIDE DEF P
  <2>1. Len(s) + 1 \in 1..Len(a)
    BY <1>1
  <2> QED
    BY <1>2, <1>3, <2>1
<1>5. ListDel(a, reg) = [i \in 1..(Len(a) - 1) |-> IF i < first THEN a[i] ELSE a[i + 1]]
  BY DEF ListDel
<1>6. ListDel(a, reg) = [i \in 1..Len(s) |-> s[i]]
  <2> HIDE DEF a, first
  <2> QED BY <1>1, <1>4, <1>5
<1>7. s = [i \in 1..Len(s) |-> s[i]]
  OBVIOUS
<1> QED
  BY <1>6, <1>7

\* A registration that is added and taken back leaves the reference as it was:
\* the unwinding of __dpll_pin_register and dpll_pin_on_pin_register.
LEMMA AddThenDel ==
  ASSUME NEW ref \in Ref, NEW reg \in Registration, ~Registered(ref, reg),
         ref.cnt = 0 => ref = NoRef
  PROVE  RefDel(RefAdd(ref, reg), reg) = ref
<1>1. \A i \in 1..Len(ref.regs) : ref.regs[i] # reg
  BY DEF Registered
<1>2. RefAdd(ref, reg) = [cnt |-> ref.cnt + 1, regs |-> Append(ref.regs, reg)]
  BY DEF RefAdd
<1>3. Registered(RefAdd(ref, reg), reg)
  <2>1. ref.regs \in Seq(Registration)
    BY DEF Ref
  <2>2. Len(Append(ref.regs, reg)) = Len(ref.regs) + 1
        /\ Append(ref.regs, reg)[Len(ref.regs) + 1] = reg
    BY <2>1
  <2>3. Len(ref.regs) + 1 \in 1..Len(Append(ref.regs, reg))
    BY <2>1, <2>2
  <2> QED
    BY <1>2, <2>2, <2>3 DEF Registered
<1>4. CASE ref.cnt = 0
  BY <1>2, <1>3, <1>4 DEF RefDel, NoRef
<1>5. CASE ref.cnt # 0
  <2>1. ListDel(Append(ref.regs, reg), reg) = ref.regs
    BY <1>1, ListDelAppend DEF Ref
  <2>2. /\ RefAdd(ref, reg).cnt # 0 /\ RefAdd(ref, reg).cnt # 1
        /\ RefAdd(ref, reg).cnt - 1 = ref.cnt
    BY <1>2, <1>5 DEF Ref
  <2>3. RefDel(RefAdd(ref, reg), reg) = [cnt |-> ref.cnt, regs |-> ref.regs]
    BY <1>2, <1>3, <2>1, <2>2 DEF RefDel
  <2> QED
    BY <2>3 DEF Ref
<1> QED
  BY <1>4, <1>5

\* Every reference between a device and a pin keeps its two ends equal and well
\* formed when one registration is added or deleted at both ends.
LEMMA OneReference ==
  ASSUME IInv, NEW d \in Devices, NEW p \in AllPins, NEW r \in Ref,
         r.cnt = 0 => r = NoRef,
         pin_refs' = [pin_refs EXCEPT ![d][p] = r],
         dpll_refs' = [dpll_refs EXCEPT ![p][d] = r]
  PROVE  IInv'
<1> USE DEF IInv
<1>1. TablesOK'
  BY DEF TablesOK
<1>2. \A e \in Devices, q \in AllPins :
        /\ pin_refs'[e][q] = IF e = d /\ q = p THEN r ELSE pin_refs[e][q]
        /\ dpll_refs'[q][e] = IF e = d /\ q = p THEN r ELSE dpll_refs[q][e]
  BY DEF TablesOK
<1>3. NoneIsEmpty' /\ RefsAgree'
  BY <1>2 DEF NoneIsEmpty, RefsAgree
<1> QED
  BY <1>1, <1>3

\* The same for the references between a child and a set of devices: g says what
\* becomes of the reference to each device.
LEMMA ManyReferences ==
  ASSUME IInv, NEW p \in AllPins, NEW g \in [Devices -> Ref],
         \A e \in Devices : g[e].cnt = 0 => g[e] = NoRef,
         pin_refs' = [e \in Devices |-> [pin_refs[e] EXCEPT ![p] = g[e]]],
         dpll_refs' = [dpll_refs EXCEPT ![p] = g]
  PROVE  IInv'
<1> USE DEF IInv
<1>1. TablesOK'
  BY DEF TablesOK
<1>2. \A e \in Devices, q \in AllPins :
        /\ pin_refs'[e][q] = IF q = p THEN g[e] ELSE pin_refs[e][q]
        /\ dpll_refs'[q][e] = IF q = p THEN g[e] ELSE dpll_refs[q][e]
  BY DEF TablesOK
<1>3. NoneIsEmpty' /\ RefsAgree'
  BY <1>2 DEF NoneIsEmpty, RefsAgree
<1> QED
  BY <1>1, <1>3

\* The registrations the actions make.
LEMMA RegistrationType ==
  ASSUME NEW o \in Owners, NEW c \in AllPins
  PROVE  DirectReg(o) \in Registration /\ ChildReg(o, c) \in Registration
BY DEF DirectReg, ChildReg, Registration, AllPins

\* dpll_pin_register, with and without success, and dpll_pin_unregister.
LEMMA DirectStep ==
  ASSUME IInv, NEW o \in Owners, NEW d \in Devices, NEW p \in Pins,
         PinRegister(o, d, p) \/ PinRegisterFail(o, d, p) \/ PinUnregister(o, d, p)
  PROVE  IInv'
<1> DEFINE reg == DirectReg(o)
           ref == pin_refs[d][p]
<1>1. p \in AllPins
  BY DEF AllPins
<1>2. reg \in Registration
  BY <1>1, RegistrationType
<1>3. /\ ref \in Ref /\ (ref.cnt = 0 => ref = NoRef) /\ dpll_refs[p][d] = ref
      /\ pin_refs \in [Devices -> [AllPins -> Ref]]
      /\ dpll_refs \in [AllPins -> [Devices -> Ref]]
  BY <1>1 DEF IInv, TablesOK, NoneIsEmpty, RefsAgree
<1>4. CASE PinRegister(o, d, p)
  <2>1. RefAdd(ref, reg) \in Ref /\ RefAdd(ref, reg).cnt # 0
    BY <1>2, <1>3, RefAddType DEF Ref
  <2>2. /\ pin_refs' = [pin_refs EXCEPT ![d][p] = RefAdd(ref, reg)]
        /\ dpll_refs' = [dpll_refs EXCEPT ![p][d] = RefAdd(ref, reg)]
    BY <1>3, <1>4 DEF PinRegister
  <2> QED
    BY <1>1, <2>1, <2>2, OneReference
<1>5. CASE PinRegisterFail(o, d, p)
  <2>1. ~Registered(ref, reg)
    BY <1>3, <1>5 DEF PinRegisterFail, MayFail
  <2>2. RefDel(RefAdd(ref, reg), reg) = ref
    BY <1>2, <1>3, <2>1, AddThenDel
  <2>3. pin_refs' = [pin_refs EXCEPT ![d][p] = ref] /\ dpll_refs' = dpll_refs
    BY <1>5, <2>2 DEF PinRegisterFail
  <2>4. dpll_refs' = [dpll_refs EXCEPT ![p][d] = ref]
    BY <1>1, <1>3, <2>3
  <2>5. ref \in Ref /\ (ref.cnt = 0 => ref = NoRef)
    BY <1>3
  <2> HIDE DEF ref
  <2> QED
    BY <1>1, <2>3, <2>4, <2>5, OneReference
<1>6. CASE PinUnregister(o, d, p)
  <2>1. CASE UNCHANGED <<pin_refs, dpll_refs>>
    BY <2>1 DEF IInv, TablesOK, NoneIsEmpty, RefsAgree
  <2>2. CASE /\ pin_refs' = [pin_refs EXCEPT ![d][p] = RefDel(@, reg)]
             /\ dpll_refs' = [dpll_refs EXCEPT ![p][d] = RefDel(@, reg)]
    <3>1. RefDel(ref, reg) \in Ref /\ (RefDel(ref, reg).cnt = 0 => RefDel(ref, reg) = NoRef)
      BY <1>2, <1>3, RefDelType
    <3>2. /\ pin_refs' = [pin_refs EXCEPT ![d][p] = RefDel(ref, reg)]
          /\ dpll_refs' = [dpll_refs EXCEPT ![p][d] = RefDel(ref, reg)]
      BY <1>3, <2>2
    <3> QED
      BY <1>1, <3>1, <3>2, OneReference
  <2> QED
    BY <1>6, <2>1, <2>2 DEF PinUnregister
<1> QED
  BY <1>4, <1>5, <1>6

\* dpll_pin_on_pin_register, with and without success, and
\* dpll_pin_on_pin_unregister.
LEMMA ChildStep ==
  ASSUME IInv, NEW o \in Owners, NEW parent \in Pins, NEW p \in Children,
         \/ PinOnPinRegister(o, parent, p) \/ PinOnPinRegisterFail(o, parent, p)
         \/ PinOnPinUnregister(o, parent, p)
  PROVE  IInv'
<1> DEFINE reg == ChildReg(o, parent)
<1>1. p \in AllPins /\ parent \in AllPins
  BY DEF AllPins
<1>2. reg \in Registration
  BY <1>1, RegistrationType
<1>3. /\ pin_refs \in [Devices -> [AllPins -> Ref]]
      /\ dpll_refs \in [AllPins -> [Devices -> Ref]]
      /\ \A e \in Devices : /\ dpll_refs[p][e] \in Ref /\ pin_refs[e][p] = dpll_refs[p][e]
                            /\ dpll_refs[p][e].cnt = 0 => dpll_refs[p][e] = NoRef
  BY <1>1 DEF IInv, TablesOK, NoneIsEmpty, RefsAgree
<1> HIDE DEF reg
<1>4. CASE PinOnPinRegister(o, parent, p)
  <2> DEFINE ds == DevicesOf(parent)
             g == [e \in Devices |-> IF e \in ds THEN RefAdd(dpll_refs[p][e], reg)
                                                ELSE dpll_refs[p][e]]
  <2>1. \A e \in Devices : /\ RefAdd(dpll_refs[p][e], reg) \in Ref
                           /\ RefAdd(dpll_refs[p][e], reg).cnt # 0
    BY <1>2, <1>3, RefAddType DEF Ref
  <2>2. g \in [Devices -> Ref] /\ \A e \in Devices : g[e].cnt = 0 => g[e] = NoRef
    BY <1>3, <2>1
  <2>3. AddToDevices(ds, p, reg)
    BY <1>4 DEF PinOnPinRegister, reg
  <2> HIDE DEF ds
  <2>4. pin_refs' = [e \in Devices |-> [pin_refs[e] EXCEPT ![p] = g[e]]]
    BY <1>1, <1>3, <2>3 DEF AddToDevices
  <2>5. dpll_refs' = [dpll_refs EXCEPT ![p] = g]
    BY <1>1, <1>3, <2>3 DEF AddToDevices
  <2> HIDE DEF g
  <2> QED
    BY <1>1, <2>2, <2>4, <2>5, ManyReferences
<1>5. CASE PinOnPinRegisterFail(o, parent, p)
  <2>1. PICK done \in SUBSET DevicesOf(parent) :
          /\ pin_refs' = [e \in Devices |-> IF e \in done
                            THEN [pin_refs[e] EXCEPT ![p] = RefDel(RefAdd(@, reg), reg)]
                            ELSE pin_refs[e]]
          /\ dpll_refs' = [dpll_refs EXCEPT ![p] = [e \in Devices |->
                             IF e \in done THEN RefDel(RefAdd(@[e], reg), reg) ELSE @[e]]]
    BY <1>5 DEF PinOnPinRegisterFail, reg
  <2> DEFINE g == [e \in Devices |-> IF e \in done THEN RefDel(RefAdd(dpll_refs[p][e], reg), reg)
                                                  ELSE dpll_refs[p][e]]
  <2>2. \A e \in Devices : /\ RefAdd(dpll_refs[p][e], reg) \in Ref
                           /\ RefAdd(dpll_refs[p][e], reg).cnt # 0
    BY <1>2, <1>3, RefAddType DEF Ref
  <2>3. \A e \in Devices :
          LET r == RefDel(RefAdd(dpll_refs[p][e], reg), reg) IN r \in Ref /\ (r.cnt = 0 => r = NoRef)
    BY <1>2, <2>2, RefDelType
  <2>4. g \in [Devices -> Ref] /\ \A e \in Devices : g[e].cnt = 0 => g[e] = NoRef
    BY <1>3, <2>3
  <2>5. pin_refs' = [e \in Devices |-> [pin_refs[e] EXCEPT ![p] = g[e]]]
    BY <1>1, <1>3, <2>1
  <2>6. dpll_refs' = [dpll_refs EXCEPT ![p] = g]
    BY <1>1, <1>3, <2>1
  <2> HIDE DEF g
  <2> QED
    BY <1>1, <2>4, <2>5, <2>6, ManyReferences
<1>6. CASE PinOnPinUnregister(o, parent, p)
  <2> DEFINE ds == DevicesOf(p)
             g == [e \in Devices |-> IF e \in ds THEN RefDel(dpll_refs[p][e], reg)
                                                ELSE dpll_refs[p][e]]
  <2>1. \A e \in Devices :
          LET r == RefDel(dpll_refs[p][e], reg) IN r \in Ref /\ (r.cnt = 0 => r = NoRef)
    BY <1>2, <1>3, RefDelType
  <2>2. g \in [Devices -> Ref] /\ \A e \in Devices : g[e].cnt = 0 => g[e] = NoRef
    BY <1>3, <2>1
  <2>3. DelFromDevices(ds, p, reg)
    BY <1>6 DEF PinOnPinUnregister, reg
  <2> HIDE DEF ds
  <2>4. pin_refs' = [e \in Devices |-> [pin_refs[e] EXCEPT ![p] = g[e]]]
    BY <1>1, <1>3, <2>3 DEF DelFromDevices
  <2>5. dpll_refs' = [dpll_refs EXCEPT ![p] = g]
    BY <1>1, <1>3, <2>3 DEF DelFromDevices
  <2> HIDE DEF g
  <2> QED
    BY <1>1, <2>2, <2>4, <2>5, ManyReferences
<1> QED
  BY <1>4, <1>5, <1>6

\* The invariant is inductive: only the calls that register and unregister pins
\* touch the references.
LEMMA RefsStep == IInv /\ [Next]_vars => IInv'
<1> SUFFICES ASSUME IInv, [Next]_vars PROVE IInv'
  OBVIOUS
<1>1. ASSUME UNCHANGED <<pin_refs, dpll_refs>> PROVE IInv'
  BY <1>1 DEF IInv, TablesOK, NoneIsEmpty, RefsAgree
<1>2. CASE UNCHANGED vars
  BY <1>1, <1>2 DEF vars, refs
<1>3. ASSUME NEW o \in Owners, NEW d \in Devices,
             DeviceGet(o, d) \/ DevicePut(o, d) \/ DeviceRegister(o, d) \/ DeviceUnregister(o, d)
      PROVE IInv'
  BY <1>1, <1>3 DEF DeviceGet, DevicePut, DeviceRegister, DeviceUnregister, refs
<1>4. ASSUME NEW o \in Owners, NEW p \in AllPins, PinGet(o, p) \/ PinPut(o, p) PROVE IInv'
  BY <1>1, <1>4 DEF PinGet, PinPut, refs
<1> QED
  BY <1>2, <1>3, <1>4, DirectStep, ChildStep DEF Next

\* dpll_core.c keeps the two ends of every reference equal, whatever its callers
\* do and whichever allocation fails.
THEOREM ReferencesAgree == Spec => []RefsAgree
<1>1. Init => IInv
  BY DEF Init, IInv, TablesOK, NoneIsEmpty, RefsAgree, NoRef, Ref
<1>2. IInv => RefsAgree
  BY DEF IInv
<1> QED
  BY <1>1, <1>2, RefsStep, PTL DEF Spec

-----------------------------------------------------------------------------
(* The reference counts of devices and pins. *)

\* The ids of pins do not wrap around: see PinGet for what happens when they do.
NoWrap == MaxAllocs <= PinIds

Holders(d) == {o \in Owners : d \in own[o].dev}

PinHolders(p) == {o \in Owners : p \in own[o].pin}

\* Who has put pin p on which parent.
ChildHolds(p) == {op \in Owners \X Pins : <<op[2], p>> \in own[op[1]].onPin}

Holding == [dev : SUBSET Devices, devReg : SUBSET Devices, pin : SUBSET AllPins,
            onPin : SUBSET (Pins \X Children), pinReg : [Devices \X AllPins -> Nat]]

OwnOK == own \in [Owners -> Holding]

CountersOK ==
  /\ devRefs \in [Devices -> Nat] /\ pinRefs \in [AllPins -> Nat]
  /\ pinAllocs \in Nat

\* An owner holds the pins it has put on others, and a pin is in dpll_pin_xa as
\* long as it is counted.
HoldsBoth ==
  \A o \in Owners, q \in Pins, c \in Children :
    <<q, c>> \in own[o].onPin => q \in own[o].pin /\ c \in own[o].pin

FoundWhileCounted == pinXa = {p \in AllPins : pinRefs[p] > 0}

HoldInv == OwnOK /\ CountersOK /\ HoldsBoth /\ FoundWhileCounted /\ CountsHolders

\* What one change of an owner's record does to all of them.
LEMMA OwnChange ==
  ASSUME OwnOK, NEW o \in Owners, NEW h \in Holding, own' = [own EXCEPT ![o] = h]
  PROVE  OwnOK' /\ \A x \in Owners : own'[x] = IF x = o THEN h ELSE own[x]
BY DEF OwnOK

\* The record of an owner after each call.
LEMMA OwnSteps ==
  ASSUME OwnOK, NEW o \in Owners
  PROVE  /\ own[o] \in Holding
         /\ \A d \in Devices :
              /\ [own[o] EXCEPT !.dev = @ \cup {d}] \in Holding
              /\ [own[o] EXCEPT !.dev = @ \ {d}] \in Holding
              /\ [own[o] EXCEPT !.devReg = @ \cup {d}] \in Holding
              /\ [own[o] EXCEPT !.devReg = @ \ {d}] \in Holding
         /\ \A p \in AllPins : /\ [own[o] EXCEPT !.pin = @ \cup {p}] \in Holding
                               /\ [own[o] EXCEPT !.pin = @ \ {p}] \in Holding
         /\ \A q \in Pins, c \in Children :
              /\ [own[o] EXCEPT !.onPin = @ \cup {<<q, c>>}] \in Holding
              /\ [own[o] EXCEPT !.onPin = @ \ {<<q, c>>}] \in Holding
         /\ \A d \in Devices, p \in AllPins, n \in Nat :
              [own[o] EXCEPT !.pinReg[<<d, p>>] = n] \in Holding
<1>1. own[o] \in Holding
  BY DEF OwnOK
<1>2. ASSUME NEW d \in Devices
      PROVE  /\ [own[o] EXCEPT !.dev = @ \cup {d}] \in Holding
             /\ [own[o] EXCEPT !.dev = @ \ {d}] \in Holding
             /\ [own[o] EXCEPT !.devReg = @ \cup {d}] \in Holding
             /\ [own[o] EXCEPT !.devReg = @ \ {d}] \in Holding
  BY <1>1 DEF Holding
<1>3. ASSUME NEW p \in AllPins
      PROVE  /\ [own[o] EXCEPT !.pin = @ \cup {p}] \in Holding
             /\ [own[o] EXCEPT !.pin = @ \ {p}] \in Holding
  BY <1>1 DEF Holding
<1>4. ASSUME NEW q \in Pins, NEW c \in Children
      PROVE  /\ [own[o] EXCEPT !.onPin = @ \cup {<<q, c>>}] \in Holding
             /\ [own[o] EXCEPT !.onPin = @ \ {<<q, c>>}] \in Holding
  BY <1>1 DEF Holding
<1>5. ASSUME NEW d \in Devices, NEW p \in AllPins, NEW n \in Nat
      PROVE  [own[o] EXCEPT !.pinReg[<<d, p>>] = n] \in Holding
  <2>1. own[o].pinReg \in [Devices \X AllPins -> Nat]
    BY <1>1 DEF Holding
  <2>2. [own[o].pinReg EXCEPT ![<<d, p>>] = n] \in [Devices \X AllPins -> Nat]
    BY <2>1
  <2> QED
    BY <1>1, <2>2 DEF Holding
<1> QED
  BY <1>1, <1>2, <1>3, <1>4, <1>5

\* Counting finite sets of holders.
LEMMA Counting ==
  ASSUME NEW d, NEW p
  PROVE  /\ IsFiniteSet(Holders(d)) /\ IsFiniteSet(PinHolders(p)) /\ IsFiniteSet(ChildHolds(p))
         /\ Cardinality(Holders(d)) \in Nat /\ Cardinality(PinHolders(p)) \in Nat
         /\ Cardinality(ChildHolds(p)) \in Nat
<1>1. IsFiniteSet(Owners) /\ IsFiniteSet(Owners \X Pins)
  BY DpllCoreAssumption, FS_Product DEF DpllCoreAssumption
<1>2. /\ Holders(d) \in SUBSET Owners /\ PinHolders(p) \in SUBSET Owners
      /\ ChildHolds(p) \in SUBSET (Owners \X Pins)
  BY DEF Holders, PinHolders, ChildHolds
<1>3. IsFiniteSet(Holders(d)) /\ IsFiniteSet(PinHolders(p)) /\ IsFiniteSet(ChildHolds(p))
  BY <1>1, <1>2, FS_Subset
<1> QED
  BY <1>3, FS_CardinalityType

\* CountsHolders, with the sets of holders named.
LEMMA CountsAre ==
  CountsHolders <=>
    /\ \A d \in Devices : devRefs[d] = Cardinality(Holders(d))
    /\ \A p \in AllPins : pinRefs[p] = Cardinality(PinHolders(p)) + Cardinality(ChildHolds(p))
BY DEF CountsHolders, Holders, PinHolders, ChildHolds

\* What a call that changes what one owner holds does to its record.
LEMMA OwnBecomes ==
  ASSUME OwnOK, NEW o \in Owners
  PROVE  /\ \A d \in Devices :
              /\ DeviceGet(o, d) => own' = [own EXCEPT ![o] = [own[o] EXCEPT !.dev = @ \cup {d}]]
              /\ DevicePut(o, d) => own' = [own EXCEPT ![o] = [own[o] EXCEPT !.dev = @ \ {d}]]
              /\ DeviceRegister(o, d) =>
                   own' = [own EXCEPT ![o] = [own[o] EXCEPT !.devReg = @ \cup {d}]]
              /\ DeviceUnregister(o, d) =>
                   own' = [own EXCEPT ![o] = [own[o] EXCEPT !.devReg = @ \ {d}]]
         /\ \A p \in AllPins :
              /\ PinGet(o, p) => own' = [own EXCEPT ![o] = [own[o] EXCEPT !.pin = @ \cup {p}]]
              /\ PinPut(o, p) => own' = [own EXCEPT ![o] = [own[o] EXCEPT !.pin = @ \ {p}]]
         /\ \A d \in Devices, p \in Pins :
              /\ PinRegister(o, d, p) =>
                   own' = [own EXCEPT ![o] = [own[o] EXCEPT !.pinReg[<<d, p>>] = @ + 1]]
              /\ PinUnregister(o, d, p) =>
                   own' = [own EXCEPT ![o] = [own[o] EXCEPT !.pinReg[<<d, p>>] = @ - 1]]
         /\ \A q \in Pins, c \in Children :
              /\ PinOnPinRegister(o, q, c) =>
                   own' = [own EXCEPT ![o] = [own[o] EXCEPT !.onPin = @ \cup {<<q, c>>}]]
              /\ PinOnPinUnregister(o, q, c) =>
                   own' = [own EXCEPT ![o] = [own[o] EXCEPT !.onPin = @ \ {<<q, c>>}]]
<1>1. own \in [Owners -> Holding]
  BY DEF OwnOK
<1>2. ASSUME NEW d \in Devices
      PROVE  /\ DeviceGet(o, d) => own' = [own EXCEPT ![o] = [own[o] EXCEPT !.dev = @ \cup {d}]]
             /\ DevicePut(o, d) => own' = [own EXCEPT ![o] = [own[o] EXCEPT !.dev = @ \ {d}]]
             /\ DeviceRegister(o, d) =>
                  own' = [own EXCEPT ![o] = [own[o] EXCEPT !.devReg = @ \cup {d}]]
             /\ DeviceUnregister(o, d) =>
                  own' = [own EXCEPT ![o] = [own[o] EXCEPT !.devReg = @ \ {d}]]
  BY <1>1 DEF DeviceGet, DevicePut, DeviceRegister, DeviceUnregister
<1>3. ASSUME NEW p \in AllPins
      PROVE  /\ PinGet(o, p) => own' = [own EXCEPT ![o] = [own[o] EXCEPT !.pin = @ \cup {p}]]
             /\ PinPut(o, p) => own' = [own EXCEPT ![o] = [own[o] EXCEPT !.pin = @ \ {p}]]
  BY <1>1 DEF PinGet, PinPut
<1>4. ASSUME NEW d \in Devices, NEW p \in Pins
      PROVE  /\ PinRegister(o, d, p) =>
                  own' = [own EXCEPT ![o] = [own[o] EXCEPT !.pinReg[<<d, p>>] = @ + 1]]
             /\ PinUnregister(o, d, p) =>
                  own' = [own EXCEPT ![o] = [own[o] EXCEPT !.pinReg[<<d, p>>] = @ - 1]]
  BY <1>1 DEF PinRegister, PinUnregister
<1>5. ASSUME NEW q \in Pins, NEW c \in Children
      PROVE  /\ PinOnPinRegister(o, q, c) =>
                  own' = [own EXCEPT ![o] = [own[o] EXCEPT !.onPin = @ \cup {<<q, c>>}]]
             /\ PinOnPinUnregister(o, q, c) =>
                  own' = [own EXCEPT ![o] = [own[o] EXCEPT !.onPin = @ \ {<<q, c>>}]]
  BY <1>1 DEF PinOnPinRegister, PinOnPinUnregister
<1> QED
  BY <1>2, <1>3, <1>4, <1>5

\* Registering and unregistering devices and pins changes nothing that is counted.
LEMMA NotCounted ==
  ASSUME HoldInv, OwnOK', UNCHANGED <<devRefs, pinRefs, pinXa, pinAllocs>>,
         \A x \in Owners : /\ own'[x].dev = own[x].dev /\ own'[x].pin = own[x].pin
                           /\ own'[x].onPin = own[x].onPin
  PROVE  HoldInv'
<1>1. HoldsBoth' /\ FoundWhileCounted' /\ CountersOK'
  BY DEF HoldInv, HoldsBoth, FoundWhileCounted, CountersOK
<1>2. \A d : Holders(d)' = Holders(d)
  BY DEF Holders
<1>3. \A p : PinHolders(p)' = PinHolders(p) /\ ChildHolds(p)' = ChildHolds(p)
  BY DEF PinHolders, ChildHolds
<1>4. CountsHolders'
  BY <1>2, <1>3, CountsAre DEF HoldInv, CountsHolders, Holders, PinHolders, ChildHolds
<1> QED
  BY <1>1, <1>4 DEF HoldInv

\* The counts follow who holds what.
LEMMA CountsNext ==
  ASSUME \A d \in Devices : devRefs'[d] = Cardinality(Holders(d)'),
         \A p \in AllPins : pinRefs'[p] = Cardinality(PinHolders(p)') + Cardinality(ChildHolds(p)')
  PROVE  CountsHolders'
BY DEF CountsHolders, Holders, PinHolders, ChildHolds

\* dpll_device_get and dpll_device_put: one holder of the device more or less.
LEMMA HoldDevices ==
  ASSUME HoldInv, NEW o \in Owners, NEW d \in Devices, DeviceGet(o, d) \/ DevicePut(o, d)
  PROVE  HoldInv'
<1>1. OwnOK /\ CountersOK /\ CountsHolders
  BY DEF HoldInv
<1>2. /\ \A e \in Devices : devRefs[e] = Cardinality(Holders(e))
      /\ \A p \in AllPins : pinRefs[p] = Cardinality(PinHolders(p)) + Cardinality(ChildHolds(p))
  BY <1>1, CountsAre
<1>3. own[o] \in Holding
  BY <1>1, OwnSteps
<1>4. UNCHANGED <<pinRefs, pinXa, pinAllocs>>
  BY DEF DeviceGet, DevicePut
<1>5. ASSUME NEW h \in Holding, own' = [own EXCEPT ![o] = h], h.pin = own[o].pin,
             h.onPin = own[o].onPin, devRefs' \in [Devices -> Nat],
             \A e \in Devices : devRefs'[e] = Cardinality(Holders(e)')
      PROVE  HoldInv'
  <2>1. OwnOK' /\ \A x \in Owners : own'[x] = IF x = o THEN h ELSE own[x]
    BY <1>1, <1>5, OwnChange
  <2>2. \A x \in Owners : own'[x].pin = own[x].pin /\ own'[x].onPin = own[x].onPin
    BY <1>5, <2>1
  <2>3. HoldsBoth' /\ FoundWhileCounted' /\ CountersOK'
    BY <1>4, <1>5, <2>2 DEF HoldInv, HoldsBoth, FoundWhileCounted, CountersOK
  <2>4. \A p : PinHolders(p)' = PinHolders(p) /\ ChildHolds(p)' = ChildHolds(p)
    BY <2>2 DEF PinHolders, ChildHolds
  <2>5. CountsHolders'
    BY <1>2, <1>4, <1>5, <2>4, CountsNext
  <2> QED
    BY <2>1, <2>3, <2>5 DEF HoldInv
<1>6. CASE DeviceGet(o, d)
  <2> DEFINE h == [own[o] EXCEPT !.dev = @ \cup {d}]
  <2>1. h \in Holding /\ own' = [own EXCEPT ![o] = h]
    BY <1>1, <1>6, OwnSteps, OwnBecomes
  <2>2. h.pin = own[o].pin /\ h.onPin = own[o].onPin /\ h.dev = own[o].dev \cup {d}
    BY <1>3 DEF Holding
  <2>3. d \notin own[o].dev /\ devRefs' = [devRefs EXCEPT ![d] = @ + 1]
    BY <1>6 DEF DeviceGet
  <2> HIDE DEF h
  <2>4. \A x \in Owners : own'[x] = IF x = o THEN h ELSE own[x]
    BY <1>1, <2>1, OwnChange
  <2>5. /\ Holders(d)' = Holders(d) \cup {o} /\ o \notin Holders(d)
        /\ \A e \in Devices \ {d} : Holders(e)' = Holders(e)
    BY <2>2, <2>3, <2>4 DEF Holders
  <2>6. Cardinality(Holders(d)') = Cardinality(Holders(d)) + 1
    BY <2>5, Counting, FS_AddElement
  <2>7. devRefs' \in [Devices -> Nat] /\ \A e \in Devices : devRefs'[e] = Cardinality(Holders(e)')
    <3>1. devRefs \in [Devices -> Nat]
      BY <1>1 DEF CountersOK
    <3>2. /\ devRefs' \in [Devices -> Nat] /\ devRefs'[d] = devRefs[d] + 1
          /\ \A e \in Devices \ {d} : devRefs'[e] = devRefs[e]
      BY <2>3, <3>1
    <3> QED
      BY <1>2, <2>5, <2>6, <3>2
  <2> QED
    BY <1>5, <2>1, <2>2, <2>7
<1>7. CASE DevicePut(o, d)
  <2> DEFINE h == [own[o] EXCEPT !.dev = @ \ {d}]
  <2>1. h \in Holding /\ own' = [own EXCEPT ![o] = h]
    BY <1>1, <1>7, OwnSteps, OwnBecomes
  <2>2. h.pin = own[o].pin /\ h.onPin = own[o].onPin /\ h.dev = own[o].dev \ {d}
    BY <1>3 DEF Holding
  <2>3. d \in own[o].dev /\ devRefs' = [devRefs EXCEPT ![d] = @ - 1]
    BY <1>7 DEF DevicePut
  <2> HIDE DEF h
  <2>4. \A x \in Owners : own'[x] = IF x = o THEN h ELSE own[x]
    BY <1>1, <2>1, OwnChange
  <2>5. /\ Holders(d)' = Holders(d) \ {o} /\ o \in Holders(d)
        /\ \A e \in Devices \ {d} : Holders(e)' = Holders(e)
    BY <2>2, <2>3, <2>4 DEF Holders
  <2>6. /\ Cardinality(Holders(d)') = Cardinality(Holders(d)) - 1
        /\ Cardinality(Holders(d)') \in Nat
    BY <2>5, Counting, FS_RemoveElement, FS_CardinalityType
  <2>7. devRefs' \in [Devices -> Nat] /\ \A e \in Devices : devRefs'[e] = Cardinality(Holders(e)')
    BY <1>1, <1>2, <2>3, <2>5, <2>6 DEF CountersOK
  <2> QED
    BY <1>5, <2>1, <2>2, <2>7
<1> QED
  BY <1>6, <1>7

\* A holder of a pin is counted, and the last one is the only one.
LEMMA PinCounts ==
  ASSUME HoldInv, NEW o \in Owners, NEW p \in AllPins, p \in own[o].pin
  PROVE  /\ pinRefs[p] > 0
         /\ pinRefs[p] = 1 => PinHolders(p) = {o} /\ ChildHolds(p) = {}
         /\ ChildHolds(p) # {} => pinRefs[p] > 1
<1> DEFINE H == PinHolders(p)
           C == ChildHolds(p)
<1>1. o \in H
  BY DEF PinHolders
<1>2. pinRefs[p] = Cardinality(H) + Cardinality(C)
  BY CountsAre DEF HoldInv
<1>3. IsFiniteSet(H) /\ IsFiniteSet(C) /\ Cardinality(H) \in Nat /\ Cardinality(C) \in Nat
  BY Counting
<1> HIDE DEF H, C
<1>4. Cardinality(H) # 0 /\ (Cardinality(C) = 0 <=> C = {})
  BY <1>1, <1>3, FS_EmptySet
<1>5. Cardinality(H) = 1 => H = {o}
  BY <1>1, <1>3, FS_Singleton
<1> QED
  BY <1>2, <1>3, <1>4, <1>5 DEF H, C

\* A step that changes what one owner holds of pins.
LEMMA HoldPins ==
  ASSUME HoldInv, NEW o \in Owners, NEW h \in Holding, own' = [own EXCEPT ![o] = h],
         h.dev = own[o].dev, UNCHANGED devRefs, CountersOK', FoundWhileCounted',
         \A q \in Pins, c \in Children : <<q, c>> \in h.onPin => q \in h.pin /\ c \in h.pin,
         \A p \in AllPins : pinRefs'[p] = Cardinality(PinHolders(p)') + Cardinality(ChildHolds(p)')
  PROVE  HoldInv'
<1>1. OwnOK' /\ \A x \in Owners : own'[x] = IF x = o THEN h ELSE own[x]
  BY OwnChange DEF HoldInv
<1>2. \A d : Holders(d)' = Holders(d)
  BY <1>1 DEF Holders
<1>3. \A d \in Devices : devRefs'[d] = Cardinality(Holders(d)')
  BY <1>2, CountsAre DEF HoldInv
<1>4. CountsHolders'
  BY <1>3, CountsNext
<1>5. HoldsBoth'
  BY <1>1 DEF HoldInv, HoldsBoth
<1> QED
  BY <1>1, <1>4, <1>5 DEF HoldInv

\* dpll_pin_get and dpll_pin_put: one holder of the pin more or less.
LEMMA HoldGetPut ==
  ASSUME NoWrap, HoldInv, NEW o \in Owners, NEW p \in AllPins, PinGet(o, p) \/ PinPut(o, p)
  PROVE  HoldInv'
<1>1. /\ OwnOK /\ HoldsBoth /\ FoundWhileCounted
      /\ pinRefs \in [AllPins -> Nat] /\ devRefs \in [Devices -> Nat] /\ pinAllocs \in Nat
  BY DEF HoldInv, CountersOK
<1>2. \A q \in AllPins : pinRefs[q] = Cardinality(PinHolders(q)) + Cardinality(ChildHolds(q))
  BY CountsAre DEF HoldInv
<1>3. own[o] \in Holding
  BY <1>1, OwnSteps
<1>4. UNCHANGED devRefs
  BY DEF PinGet, PinPut
<1>5. CASE PinGet(o, p)
  <2> DEFINE h == [own[o] EXCEPT !.pin = @ \cup {p}]
  <2>1. h \in Holding /\ own' = [own EXCEPT ![o] = h]
    BY <1>1, <1>5, OwnSteps, OwnBecomes
  <2>2. h.dev = own[o].dev /\ h.onPin = own[o].onPin /\ h.pin = own[o].pin \cup {p}
    BY <1>3 DEF Holding
  <2> HIDE DEF h
  <2>3. \A x \in Owners : own'[x] = IF x = o THEN h ELSE own[x]
    BY <1>1, <2>1, OwnChange
  <2>4. p \notin own[o].pin
    BY <1>5 DEF PinGet
  <2>5. /\ PinHolders(p)' = PinHolders(p) \cup {o} /\ o \notin PinHolders(p)
        /\ \A q \in AllPins \ {p} : PinHolders(q)' = PinHolders(q)
        /\ \A q \in AllPins : ChildHolds(q)' = ChildHolds(q)
    BY <2>2, <2>3, <2>4 DEF PinHolders, ChildHolds
  <2>6. Cardinality(PinHolders(p)') = Cardinality(PinHolders(p)) + 1
    BY <2>5, Counting, FS_AddElement
  <2>7. /\ pinRefs' = [pinRefs EXCEPT ![p] = @ + 1]
        /\ pinXa' = pinXa \cup {p} /\ pinAllocs' \in Nat
    <3>1. CASE p \in pinXa
      BY <1>1, <1>5, <3>1 DEF PinGet
    <3>2. CASE p \notin pinXa
      <4>1. /\ pinAllocs < MaxAllocs /\ pinXa' = pinXa \cup {p} /\ pinAllocs' = pinAllocs + 1
            /\ pinRefs' = [pinRefs EXCEPT ![p] = IF Wraps(pinAllocs) THEN 0 ELSE 1]
        BY <1>5, <3>2 DEF PinGet
      <4>2. ~Wraps(pinAllocs)
        <5>1. MaxAllocs \in Nat /\ PinIds \in Nat \ {0}
          BY DpllCoreAssumption DEF DpllCoreAssumption
        <5>2. pinAllocs < PinIds
          BY <1>1, <4>1, <5>1 DEF NoWrap
        <5>3. pinAllocs % PinIds = pinAllocs
          BY <1>1, <5>1, <5>2
        <5> QED
          BY <1>1, <5>3 DEF Wraps
      <4>3. pinRefs[p] = 0
        BY <1>1, <3>2 DEF FoundWhileCounted
      <4> QED
        BY <1>1, <4>1, <4>2, <4>3
    <3> QED
      BY <3>1, <3>2
  <2>8. /\ pinRefs' \in [AllPins -> Nat] /\ pinRefs'[p] = pinRefs[p] + 1
        /\ \A q \in AllPins \ {p} : pinRefs'[q] = pinRefs[q]
    BY <1>1, <2>7
  <2>9. CountersOK' /\ FoundWhileCounted'
    BY <1>1, <1>4, <2>7, <2>8 DEF CountersOK, FoundWhileCounted
  <2>10. \A q \in AllPins : pinRefs'[q] = Cardinality(PinHolders(q)') + Cardinality(ChildHolds(q)')
    <3>1. Cardinality(PinHolders(p)) \in Nat /\ Cardinality(ChildHolds(p)) \in Nat
      BY Counting
    <3>2. pinRefs'[p] = Cardinality(PinHolders(p)') + Cardinality(ChildHolds(p)')
      BY <1>2, <2>5, <2>6, <2>8, <3>1
    <3> QED
      BY <1>2, <2>5, <2>8, <3>2
  <2>11. \A q \in Pins, c \in Children : <<q, c>> \in h.onPin => q \in h.pin /\ c \in h.pin
    BY <1>1, <2>2 DEF HoldsBoth
  <2> QED
    BY <1>4, <2>1, <2>2, <2>9, <2>10, <2>11, HoldPins
<1>6. CASE PinPut(o, p)
  <2> DEFINE h == [own[o] EXCEPT !.pin = @ \ {p}]
  <2>1. h \in Holding /\ own' = [own EXCEPT ![o] = h]
    BY <1>1, <1>6, OwnSteps, OwnBecomes
  <2>2. h.dev = own[o].dev /\ h.onPin = own[o].onPin /\ h.pin = own[o].pin \ {p}
    BY <1>3 DEF Holding
  <2> HIDE DEF h
  <2>3. \A x \in Owners : own'[x] = IF x = o THEN h ELSE own[x]
    BY <1>1, <2>1, OwnChange
  <2>4. /\ p \in own[o].pin /\ ~Uses(o, p) /\ pinRefs' = [pinRefs EXCEPT ![p] = @ - 1]
        /\ pinXa' = IF pinRefs[p] = 1 THEN pinXa \ {p} ELSE pinXa
        /\ pinAllocs' = pinAllocs
    BY <1>6 DEF PinPut
  <2>5. /\ PinHolders(p)' = PinHolders(p) \ {o} /\ o \in PinHolders(p)
        /\ \A q \in AllPins \ {p} : PinHolders(q)' = PinHolders(q)
        /\ \A q \in AllPins : ChildHolds(q)' = ChildHolds(q)
    BY <2>2, <2>3, <2>4 DEF PinHolders, ChildHolds
  <2>6. Cardinality(PinHolders(p)') = Cardinality(PinHolders(p)) - 1
    BY <2>5, Counting, FS_RemoveElement
  <2>7. pinRefs[p] > 0
    BY <2>4, PinCounts
  <2>8. /\ pinRefs' \in [AllPins -> Nat] /\ pinRefs'[p] = pinRefs[p] - 1
        /\ \A q \in AllPins \ {p} : pinRefs'[q] = pinRefs[q]
    BY <1>1, <2>4, <2>7
  <2>9. CountersOK' /\ FoundWhileCounted'
    <3>1. CountersOK'
      BY <1>1, <1>4, <2>4, <2>8 DEF CountersOK
    <3>2. pinRefs'[p] > 0 <=> pinRefs[p] # 1
      BY <1>1, <2>7, <2>8
    <3> QED
      BY <1>1, <2>4, <2>7, <2>8, <3>1, <3>2 DEF FoundWhileCounted
  <2>10. \A q \in AllPins : pinRefs'[q] = Cardinality(PinHolders(q)') + Cardinality(ChildHolds(q)')
    <3>1. Cardinality(PinHolders(p)) \in Nat /\ Cardinality(ChildHolds(p)) \in Nat
      BY Counting
    <3>2. pinRefs'[p] = Cardinality(PinHolders(p)') + Cardinality(ChildHolds(p)')
      BY <1>2, <2>5, <2>6, <2>8, <3>1
    <3> QED
      BY <1>2, <2>5, <2>8, <3>2
  <2>11. \A q \in Pins, c \in Children : <<q, c>> \in h.onPin => q \in h.pin /\ c \in h.pin
    BY <1>1, <2>2, <2>4 DEF HoldsBoth, Uses, AllPins
  <2> QED
    BY <1>4, <2>1, <2>2, <2>9, <2>10, <2>11, HoldPins
<1> QED
  BY <1>5, <1>6

\* dpll_pin_on_pin_register and _unregister: the parent's registration holds the child.
LEMMA HoldOnPin ==
  ASSUME HoldInv, NEW o \in Owners, NEW parent \in Pins, NEW p \in Children,
         PinOnPinRegister(o, parent, p) \/ PinOnPinUnregister(o, parent, p)
  PROVE  HoldInv'
<1>1. /\ OwnOK /\ HoldsBoth /\ FoundWhileCounted /\ p \in AllPins
      /\ pinRefs \in [AllPins -> Nat] /\ devRefs \in [Devices -> Nat] /\ pinAllocs \in Nat
  BY DEF HoldInv, CountersOK, AllPins
<1>2. \A q \in AllPins : pinRefs[q] = Cardinality(PinHolders(q)) + Cardinality(ChildHolds(q))
  BY CountsAre DEF HoldInv
<1>3. own[o] \in Holding
  BY <1>1, OwnSteps
<1>4. UNCHANGED <<devRefs, pinXa, pinAllocs>>
  BY DEF PinOnPinRegister, PinOnPinUnregister
<1>5. Cardinality(PinHolders(p)) \in Nat /\ Cardinality(ChildHolds(p)) \in Nat
  BY Counting
<1>6. CASE PinOnPinRegister(o, parent, p)
  <2> DEFINE h == [own[o] EXCEPT !.onPin = @ \cup {<<parent, p>>}]
  <2>1. h \in Holding /\ own' = [own EXCEPT ![o] = h]
    <3>1. h \in Holding
      BY <1>1, OwnSteps
    <3>2. own' = [own EXCEPT ![o] = h]
      BY <1>1, <1>6, OwnBecomes
    <3> QED
      BY <3>1, <3>2
  <2>2. h.dev = own[o].dev /\ h.pin = own[o].pin /\ h.onPin = own[o].onPin \cup {<<parent, p>>}
    BY <1>3 DEF Holding
  <2> HIDE DEF h
  <2>3. \A x \in Owners : own'[x] = IF x = o THEN h ELSE own[x]
    BY <1>1, <2>1, OwnChange
  <2>4. /\ <<parent, p>> \notin own[o].onPin /\ parent \in own[o].pin /\ p \in own[o].pin
        /\ pinRefs' = [pinRefs EXCEPT ![p] = @ + 1]
    BY <1>6 DEF PinOnPinRegister, CanRegisterOnPin
  <2>5. /\ ChildHolds(p)' = ChildHolds(p) \cup {<<o, parent>>} /\ <<o, parent>> \notin ChildHolds(p)
        /\ \A q \in AllPins \ {p} : ChildHolds(q)' = ChildHolds(q)
        /\ \A q \in AllPins : PinHolders(q)' = PinHolders(q)
    BY <2>2, <2>3, <2>4 DEF PinHolders, ChildHolds
  <2>6. Cardinality(ChildHolds(p)') = Cardinality(ChildHolds(p)) + 1
    BY <2>5, Counting, FS_AddElement
  <2>7. pinRefs[p] > 0
    BY <1>1, <2>4, PinCounts
  <2>8. /\ pinRefs' \in [AllPins -> Nat] /\ pinRefs'[p] = pinRefs[p] + 1
        /\ \A q \in AllPins \ {p} : pinRefs'[q] = pinRefs[q]
    BY <1>1, <2>4
  <2>9. CountersOK' /\ FoundWhileCounted'
    BY <1>1, <1>4, <2>7, <2>8 DEF CountersOK, FoundWhileCounted
  <2>10. pinRefs'[p] = Cardinality(PinHolders(p)') + Cardinality(ChildHolds(p)')
    BY <1>1, <1>2, <1>5, <2>5, <2>6, <2>8
  <2>11. \A q \in AllPins : pinRefs'[q] = Cardinality(PinHolders(q)') + Cardinality(ChildHolds(q)')
    BY <1>2, <2>5, <2>8, <2>10
  <2>12. \A q \in Pins, c \in Children : <<q, c>> \in h.onPin => q \in h.pin /\ c \in h.pin
    BY <1>1, <2>2, <2>4 DEF HoldsBoth
  <2> QED
    BY <1>4, <2>1, <2>2, <2>9, <2>11, <2>12, HoldPins
<1>7. CASE PinOnPinUnregister(o, parent, p)
  <2> DEFINE h == [own[o] EXCEPT !.onPin = @ \ {<<parent, p>>}]
  <2>1. h \in Holding /\ own' = [own EXCEPT ![o] = h]
    <3>1. h \in Holding
      BY <1>1, OwnSteps
    <3>2. own' = [own EXCEPT ![o] = h]
      BY <1>1, <1>7, OwnBecomes
    <3> QED
      BY <3>1, <3>2
  <2>2. h.dev = own[o].dev /\ h.pin = own[o].pin /\ h.onPin = own[o].onPin \ {<<parent, p>>}
    BY <1>3 DEF Holding
  <2> HIDE DEF h
  <2>3. \A x \in Owners : own'[x] = IF x = o THEN h ELSE own[x]
    BY <1>1, <2>1, OwnChange
  <2>4. <<parent, p>> \in own[o].onPin /\ pinRefs' = [pinRefs EXCEPT ![p] = @ - 1]
    BY <1>7 DEF PinOnPinUnregister
  <2>5. /\ ChildHolds(p)' = ChildHolds(p) \ {<<o, parent>>} /\ <<o, parent>> \in ChildHolds(p)
        /\ \A q \in AllPins \ {p} : ChildHolds(q)' = ChildHolds(q)
        /\ \A q \in AllPins : PinHolders(q)' = PinHolders(q)
    BY <2>2, <2>3, <2>4 DEF PinHolders, ChildHolds
  <2>6. Cardinality(ChildHolds(p)') = Cardinality(ChildHolds(p)) - 1
    BY <2>5, Counting, FS_RemoveElement
  <2>7. pinRefs[p] > 1
    BY <1>1, <2>4, <2>5, PinCounts DEF HoldsBoth
  <2>8. /\ pinRefs' \in [AllPins -> Nat] /\ pinRefs'[p] = pinRefs[p] - 1
        /\ \A q \in AllPins \ {p} : pinRefs'[q] = pinRefs[q]
    BY <1>1, <2>4, <2>7
  <2>9. CountersOK' /\ FoundWhileCounted'
    BY <1>1, <1>4, <2>7, <2>8 DEF CountersOK, FoundWhileCounted
  <2>10. pinRefs'[p] = Cardinality(PinHolders(p)') + Cardinality(ChildHolds(p)')
    BY <1>1, <1>2, <1>5, <2>5, <2>6, <2>8
  <2>11. \A q \in AllPins : pinRefs'[q] = Cardinality(PinHolders(q)') + Cardinality(ChildHolds(q)')
    BY <1>2, <2>5, <2>8, <2>10
  <2>12. \A q \in Pins, c \in Children : <<q, c>> \in h.onPin => q \in h.pin /\ c \in h.pin
    BY <1>1, <2>2 DEF HoldsBoth
  <2> QED
    BY <1>4, <2>1, <2>2, <2>9, <2>11, <2>12, HoldPins
<1> QED
  BY <1>6, <1>7

\* The other calls.
LEMMA HoldOthers ==
  ASSUME HoldInv, NEW o \in Owners, NEW d \in Devices,
         \/ DeviceRegister(o, d) \/ DeviceUnregister(o, d)
         \/ \E p \in Pins : PinRegister(o, d, p) \/ PinUnregister(o, d, p)
  PROVE  HoldInv'
<1>1. OwnOK /\ own[o] \in Holding
  BY OwnSteps DEF HoldInv
<1>2. UNCHANGED <<devRefs, pinRefs, pinXa, pinAllocs>>
  BY DEF DeviceRegister, DeviceUnregister, PinRegister, PinUnregister
<1>3. ASSUME NEW h \in Holding, own' = [own EXCEPT ![o] = h],
             h.dev = own[o].dev, h.pin = own[o].pin, h.onPin = own[o].onPin
      PROVE  HoldInv'
  <2>1. OwnOK' /\ \A x \in Owners : own'[x] = IF x = o THEN h ELSE own[x]
    BY <1>1, <1>3, OwnChange
  <2>2. \A x \in Owners : /\ own'[x].dev = own[x].dev /\ own'[x].pin = own[x].pin
                          /\ own'[x].onPin = own[x].onPin
    BY <1>3, <2>1
  <2> QED
    BY <1>2, <2>1, <2>2, NotCounted
<1>4. CASE DeviceRegister(o, d) \/ DeviceUnregister(o, d)
  <2>1. PICK S \in {own[o].devReg \cup {d}, own[o].devReg \ {d}} :
          own' = [own EXCEPT ![o] = [own[o] EXCEPT !.devReg = S]]
    BY <1>1, <1>4, OwnBecomes
  <2>2. S \in SUBSET Devices
    BY <1>1 DEF Holding
  <2> DEFINE h == [own[o] EXCEPT !.devReg = S]
  <2>3. h \in Holding /\ h.dev = own[o].dev /\ h.pin = own[o].pin /\ h.onPin = own[o].onPin
    BY <1>1, <2>2 DEF Holding
  <2> HIDE DEF h
  <2> QED
    BY <1>3, <2>1, <2>3 DEF h
<1>5. ASSUME NEW p \in Pins, PinRegister(o, d, p) \/ PinUnregister(o, d, p) PROVE HoldInv'
  <2>1. p \in AllPins /\ own[o].pinReg[<<d, p>>] \in Nat
    BY <1>1 DEF AllPins, Holding
  <2>2. PICK n \in Nat : own' = [own EXCEPT ![o] = [own[o] EXCEPT !.pinReg[<<d, p>>] = n]]
    <3>1. PinUnregister(o, d, p) => own[o].pinReg[<<d, p>>] > 0
      BY DEF PinUnregister
    <3>2. CASE PinRegister(o, d, p)
      <4>1. own[o].pinReg[<<d, p>>] + 1 \in Nat
        BY <2>1
      <4> QED
        BY <1>1, <3>2, <4>1, OwnBecomes
    <3>3. CASE PinUnregister(o, d, p)
      <4>1. own[o].pinReg[<<d, p>>] - 1 \in Nat
        BY <2>1, <3>1, <3>3
      <4> QED
        BY <1>1, <3>3, <4>1, OwnBecomes
    <3> QED
      BY <1>5, <3>2, <3>3
  <2> DEFINE h == [own[o] EXCEPT !.pinReg[<<d, p>>] = n]
  <2>3. h \in Holding
    BY <1>1, <2>1, OwnSteps
  <2>4. h.dev = own[o].dev /\ h.pin = own[o].pin /\ h.onPin = own[o].onPin
    BY <1>1 DEF Holding
  <2> HIDE DEF h
  <2> QED
    BY <1>3, <2>2, <2>3, <2>4 DEF h
<1> QED
  BY <1>4, <1>5

\* Every call of an owner keeps the counts.
LEMMA HoldStep ==
  ASSUME NoWrap, HoldInv, [Next]_vars
  PROVE  HoldInv'
<1>1. ASSUME UNCHANGED <<own, devRefs, pinRefs, pinXa, pinAllocs>> PROVE HoldInv'
  BY <1>1, NotCounted DEF HoldInv, OwnOK
<1>2. CASE UNCHANGED vars
  BY <1>1, <1>2 DEF vars, objects
<1>3. ASSUME NEW o \in Owners, NEW d \in Devices, NEW p \in Pins, PinRegisterFail(o, d, p)
      PROVE  HoldInv'
  BY <1>1, <1>3 DEF PinRegisterFail, objects
<1>4. ASSUME NEW o \in Owners, NEW q \in Pins, NEW p \in Children, PinOnPinRegisterFail(o, q, p)
      PROVE  HoldInv'
  BY <1>1, <1>4 DEF PinOnPinRegisterFail
<1> QED
  BY <1>2, <1>3, <1>4, HoldDevices, HoldGetPut, HoldOnPin, HoldOthers DEF Next

\* At first nobody holds anything.
LEMMA HoldInit == Init => HoldInv
<1> SUFFICES ASSUME Init PROVE HoldInv
  OBVIOUS
<1>1. \A o \in Owners : own[o] = [dev |-> {}, devReg |-> {}, pin |-> {}, onPin |-> {},
                                  pinReg |-> [dp \in Devices \X AllPins |-> 0]]
  BY DEF Init
<1>2. OwnOK /\ CountersOK
  BY DEF Init, OwnOK, Holding, CountersOK
<1>3. HoldsBoth /\ FoundWhileCounted
  BY <1>1 DEF Init, HoldsBoth, FoundWhileCounted
<1>4. \A d : Holders(d) = {}
  BY <1>1 DEF Holders
<1>5. \A p : PinHolders(p) = {} /\ ChildHolds(p) = {}
  BY <1>1 DEF PinHolders, ChildHolds
<1>6. CountsHolders
  <2>1. /\ \A d \in Devices : devRefs[d] = 0 /\ Cardinality(Holders(d)) = 0
        /\ \A p \in AllPins : /\ pinRefs[p] = 0 /\ Cardinality(PinHolders(p)) = 0
                              /\ Cardinality(ChildHolds(p)) = 0
    BY <1>4, <1>5, FS_EmptySet DEF Init
  <2> QED
    BY <2>1, CountsAre
<1> QED
  BY <1>2, <1>3, <1>6 DEF HoldInv

\* Whatever the owners do and whichever allocation fails, the reference counts
\* count who holds a device or a pin, as long as the ids of pins do not wrap.
THEOREM HoldersCounted == NoWrap => (Spec => []CountsHolders)
<1> SUFFICES ASSUME NoWrap PROVE Spec => []CountsHolders
  OBVIOUS
<1>1. HoldInv /\ [Next]_vars => HoldInv'
  BY HoldStep
<1>2. HoldInv => CountsHolders
  BY DEF HoldInv
<1> QED
  BY <1>1, <1>2, HoldInit, PTL DEF Spec

-----------------------------------------------------------------------------
(* Lists without duplicates, and references that are such a list. *)

Entries(s) == {s[i] : i \in 1..Len(s)}

Distinct(s) == \A i, j \in 1..Len(s) : s[i] = s[j] => i = j

\* A list without repetition, with a new entry at its end.
LEMMA AppendEntry ==
  ASSUME NEW T, NEW s \in Seq(T), NEW x \in T, Distinct(s), x \notin Entries(s)
  PROVE  /\ Append(s, x) \in Seq(T) /\ Len(Append(s, x)) = Len(s) + 1
         /\ Distinct(Append(s, x)) /\ Entries(Append(s, x)) = Entries(s) \cup {x}
<1> DEFINE a == Append(s, x)
<1>1. /\ a \in Seq(T) /\ Len(a) = Len(s) + 1 /\ a[Len(s) + 1] = x
      /\ \A i \in 1..Len(s) : a[i] = s[i]
  OBVIOUS
<1>2. Len(s) \in Nat /\ \A i \in 1..Len(a) : i \in 1..Len(s) \/ i = Len(s) + 1
  BY <1>1
<1>3. 1..Len(s) \subseteq 1..Len(a) /\ Len(s) + 1 \in 1..Len(a)
  BY <1>1, <1>2
<1> HIDE DEF a
<1>4. \A i \in 1..Len(s) : a[i] # x
  BY <1>1 DEF Entries
<1>5. Distinct(a)
  BY <1>1, <1>2, <1>4 DEF Distinct
<1>6. Entries(a) = Entries(s) \cup {x}
  BY <1>1, <1>2, <1>3 DEF Entries
<1> QED
  BY <1>1, <1>5, <1>6 DEF a

\* A list without repetition, with one of its entries taken out.
LEMMA DelEntry ==
  ASSUME NEW T, NEW s \in Seq(T), NEW x, Distinct(s), x \in Entries(s)
  PROVE  /\ ListDel(s, x) \in Seq(T) /\ Len(ListDel(s, x)) = Len(s) - 1
         /\ Distinct(ListDel(s, x)) /\ Entries(ListDel(s, x)) = Entries(s) \ {x}
<1> DEFINE P(i) == s[i] = x /\ \A j \in 1..(i-1) : s[j] # x
           first == CHOOSE i \in 1..Len(s) : P(i)
           t == [i \in 1..(Len(s) - 1) |-> IF i < first THEN s[i] ELSE s[i + 1]]
<1>1. PICK k \in 1..Len(s) : s[k] = x
  BY DEF Entries
<1>2. \A i \in 1..Len(s) : s[i] = x => i = k
  BY <1>1 DEF Distinct
<1>3. P(k)
  <2>1. \A j \in 1..(k-1) : j \in 1..Len(s) /\ j # k
    BY <1>1
  <2> QED
    BY <1>1, <1>2, <2>1
<1>4. first = k
  <2>1. \A i \in 1..Len(s) : P(i) => i = k
    BY <1>2
  <2> HIDE DEF P
  <2> QED
    BY <1>1, <1>3, <2>1
<1>5. ListDel(s, x) = t
  BY DEF ListDel
<1> HIDE DEF first
<1>6. Len(s) \in Nat /\ Len(s) - 1 \in Nat /\ k \in 1..Len(s)
  BY <1>1
<1>7. \A i \in 1..(Len(s) - 1) : /\ i \in 1..Len(s) /\ i + 1 \in 1..Len(s)
                                 /\ t[i] = IF i < k THEN s[i] ELSE s[i + 1]
  BY <1>4, <1>6
<1>8. t \in [1..(Len(s) - 1) -> T]
  BY <1>7
<1> HIDE DEF t
<1>9. t \in Seq(T) /\ Len(t) = Len(s) - 1
  BY <1>6, <1>8
<1>10. Distinct(t)
  BY <1>6, <1>7, <1>9 DEF Distinct
<1>11. Entries(t) = Entries(s) \ {x}
  <2>1. ASSUME NEW i \in 1..Len(t) PROVE t[i] \in Entries(s) \ {x}
    <3>1. i \in 1..(Len(s) - 1)
      BY <1>9
    <3>2. i \in 1..Len(s) /\ i + 1 \in 1..Len(s) /\ t[i] = IF i < k THEN s[i] ELSE s[i + 1]
      BY <1>7, <3>1
    <3>3. (i < k => i # k) /\ (~(i < k) => i + 1 # k)
      BY <1>6, <3>1
    <3> QED
      BY <1>2, <3>2, <3>3 DEF Entries
  <2>2. ASSUME NEW j \in 1..Len(s), j # k PROVE \E i \in 1..Len(t) : t[i] = s[j]
    <3>1. CASE j < k
      <4>1. j \in 1..(Len(s) - 1)
        BY <1>6, <3>1
      <4>2. t[j] = s[j]
        BY <1>7, <3>1, <4>1
      <4> QED
        BY <1>9, <4>1, <4>2
    <3>2. CASE ~(j < k)
      <4> DEFINE i == j - 1
      <4>1. i \in 1..(Len(s) - 1) /\ ~(i < k) /\ i + 1 = j
        BY <1>6, <2>2, <3>2
      <4> HIDE DEF i
      <4>2. t[i] = s[j]
        BY <1>7, <4>1
      <4> QED
        BY <1>9, <4>1, <4>2
    <3> QED
      BY <3>1, <3>2
  <2>3. \A j \in 1..Len(s) : s[j] # x => j # k
    BY <1>1
  <2> QED
    BY <2>1, <2>2, <2>3 DEF Entries
<1> QED
  BY <1>5, <1>9, <1>10, <1>11

\* A reference whose registrations are those in S, each counted once.
RefIs(ref, S) ==
  /\ ref \in Ref /\ ref.cnt = Len(ref.regs)
  /\ Distinct(ref.regs) /\ Entries(ref.regs) = S

\* What a reference with exactly the registrations S looks like.
LEMMA RefIsFacts ==
  ASSUME NEW ref, NEW S, RefIs(ref, S)
  PROVE  /\ ref \in Ref /\ ref.cnt \in Nat
         /\ ref.cnt > 0 <=> S # {}
         /\ S # {} => ref.regs # <<>> /\ ref.regs[1] \in S
         /\ S = {} => ref = NoRef
         /\ \A reg : Registered(ref, reg) <=> reg \in S
<1>1. /\ ref \in [cnt : Nat, regs : Seq(Registration)] /\ ref.regs \in Seq(Registration)
      /\ ref.cnt = Len(ref.regs) /\ Len(ref.regs) \in Nat
  BY DEF RefIs, Ref
<1>2. S = {ref.regs[i] : i \in 1..Len(ref.regs)}
  BY DEF RefIs, Entries
<1>3. Len(ref.regs) > 0 => 1 \in 1..Len(ref.regs)
  BY <1>1
<1>4. S # {} <=> Len(ref.regs) > 0
  BY <1>1, <1>2, <1>3
<1>5. S # {} => ref.regs # <<>> /\ ref.regs[1] \in S
  BY <1>1, <1>2, <1>3, <1>4
<1>6. S = {} => ref = NoRef
  BY <1>1, <1>4 DEF NoRef
<1>7. \A reg : Registered(ref, reg) <=> reg \in S
  BY <1>2 DEF Registered
<1> QED
  BY <1>1, <1>4, <1>5, <1>6, <1>7 DEF Ref

\* A registration that is not there is added ...
LEMMA RefIsAdd ==
  ASSUME NEW ref, NEW S, RefIs(ref, S), NEW reg \in Registration, reg \notin S
  PROVE  RefIs(RefAdd(ref, reg), S \cup {reg})
<1>1. /\ ref.regs \in Seq(Registration) /\ ref.cnt = Len(ref.regs)
      /\ Distinct(ref.regs) /\ Entries(ref.regs) = S /\ ref.cnt \in Nat
  BY DEF RefIs, Ref
<1>2. ~Registered(ref, reg)
  BY RefIsFacts
<1>3. RefAdd(ref, reg) = [cnt |-> ref.cnt + 1, regs |-> Append(ref.regs, reg)]
  BY <1>2 DEF RefAdd
<1> DEFINE a == Append(ref.regs, reg)
<1>4. a \in Seq(Registration) /\ Len(a) = Len(ref.regs) + 1 /\ Distinct(a) /\ Entries(a) = S \cup {reg}
  BY <1>1, AppendEntry
<1> HIDE DEF a
<1>5. RefAdd(ref, reg) = [cnt |-> ref.cnt + 1, regs |-> a]
  BY <1>3 DEF a
<1> QED
  BY <1>1, <1>4, <1>5 DEF RefIs, Ref

\* ... and one that is there is deleted without a warning.
LEMMA RefIsDel ==
  ASSUME NEW ref, NEW S, RefIs(ref, S), NEW reg \in S
  PROVE  /\ RefIs(RefDel(ref, reg), S \ {reg}) /\ ~RefDelWarns(ref, reg)
         /\ RefDel(ref, reg).cnt = ref.cnt - 1
<1>1. /\ ref.regs \in Seq(Registration) /\ ref.cnt = Len(ref.regs)
      /\ Distinct(ref.regs) /\ Entries(ref.regs) = S /\ ref.cnt \in Nat
  BY DEF RefIs, Ref
<1>2. Registered(ref, reg) /\ ref.cnt > 0
  BY RefIsFacts
<1> DEFINE l == ListDel(ref.regs, reg)
<1>3. l \in Seq(Registration) /\ Len(l) = Len(ref.regs) - 1 /\ Distinct(l) /\ Entries(l) = S \ {reg}
  BY <1>1, DelEntry
<1> HIDE DEF l
<1>4. ~RefDelWarns(ref, reg)
  <2>1. ref.cnt = 1 => ~(Len(ref.regs) > 1)
    BY <1>1
  <2> QED
    BY <1>2, <2>1, Zenon DEF RefDelWarns
<1>5. CASE ref.cnt = 1
  <2>1. RefDel(ref, reg) = NoRef
    BY <1>2, <1>5 DEF RefDel
  <2>2. Len(l) = 0
    BY <1>1, <1>3, <1>5
  <2>3. l = <<>>
    BY <1>3, <2>2
  <2>4. RefIs(NoRef, S \ {reg}) /\ NoRef.cnt = 0
    <3>1. NoRef.cnt = 0 /\ NoRef.regs = l
      BY <2>3 DEF NoRef
    <3>2. NoRef \in Ref
      BY DEF NoRef, Ref
    <3> QED
      BY <1>3, <2>2, <3>1, <3>2 DEF RefIs
  <2> QED
    BY <1>4, <1>5, <2>1, <2>4
<1>6. CASE ref.cnt # 1
  <2>1. RefDel(ref, reg) = [cnt |-> ref.cnt - 1, regs |-> l]
    BY <1>2, <1>6 DEF RefDel, l
  <2>2. ref.cnt - 1 \in Nat
    BY <1>1, <1>2
  <2> QED
    BY <1>1, <1>3, <1>4, <2>1, <2>2 DEF RefIs, Ref
<1> QED
  BY <1>5, <1>6

-----------------------------------------------------------------------------
(* Owners that keep to the order of calls. *)

\* An owner registers a pin with a device once; a parent keeps its devices while
\* it has children; the ids of pins do not wrap.
Orderly == MaxReg = 1 /\ SettledParents /\ NoWrap

\* A child is put on one parent: dpll_pin_on_pin_unregister goes over the devices
\* the child has reached through any.
OneParent ==
  \A a, b \in Owners, q, r \in Pins, c \in Children :
    <<q, c>> \in own[a].onPin /\ <<r, c>> \in own[b].onPin => q = r

\* The registrations the references should have.
DirectOf(d, p) == {DirectReg(o) : o \in {x \in Owners : own[x].pinReg[<<d, p>>] > 0}}

ChildOf(d, c) ==
  {ChildReg(x[1], x[2]) : x \in {y \in ChildHolds(c) : dpll_refs[y[2]][d].cnt > 0}}

ParentOf(c, q) == {ChildReg(o, c) : o \in {x \in Owners : <<q, c>> \in own[x].onPin}}

RefsInv ==
  /\ parent_refs \in [AllPins -> [Pins -> Ref]]
  /\ \A d \in Devices, p \in Pins : RefIs(dpll_refs[p][d], DirectOf(d, p))
  /\ \A d \in Devices, c \in Children : RefIs(dpll_refs[c][d], ChildOf(d, c))
  /\ \A c \in Children, q \in Pins : RefIs(parent_refs[c][q], ParentOf(c, q))
  /\ \A p, q \in Pins : parent_refs[p][q] = NoRef

\* What an owner has registered it holds, and has registered once.
OwnInv ==
  /\ \A o \in Owners, d \in Devices, p \in Pins :
       own[o].pinReg[<<d, p>>] > 0 => d \in own[o].devReg /\ p \in own[o].pin
  /\ \A o \in Owners, d \in Devices, p \in Pins : own[o].pinReg[<<d, p>>] <= 1
  /\ \A o \in Owners : own[o].devReg \subseteq own[o].dev

DevInv ==
  /\ devRegs \in [Devices -> Seq(Owners)]
  /\ \A d \in Devices : /\ Distinct(devRegs[d])
                        /\ Entries(devRegs[d]) = {o \in Owners : d \in own[o].devReg}
  /\ devMark = {d \in Devices : devRegs[d] # <<>>}
  /\ told \subseteq devMark

MarkInv == pinMark = {p \in AllPins : DevicesOf(p) # {}}

AliveInv == IInv /\ HoldInv /\ RefsInv /\ OwnInv /\ DevInv /\ MarkInv /\ warned = FALSE

\* One field of one owner's record changes.
LEMMA DevChanges ==
  ASSUME OwnOK, NEW o \in Owners, NEW v \in SUBSET Devices,
         own' = [own EXCEPT ![o] = [own[o] EXCEPT !.dev = v]]
  PROVE  OwnOK' /\ \A x \in Owners :
           /\ own'[x].dev = IF x = o THEN v ELSE own[x].dev
           /\ own'[x].devReg = own[x].devReg /\ own'[x].pin = own[x].pin
           /\ own'[x].onPin = own[x].onPin /\ own'[x].pinReg = own[x].pinReg
<1>1. own[o] \in Holding
  BY DEF OwnOK
<1> DEFINE h == [own[o] EXCEPT !.dev = v]
<1>2. /\ h \in Holding /\ h.dev = v /\ h.devReg = own[o].devReg
      /\ h.pin = own[o].pin /\ h.onPin = own[o].onPin /\ h.pinReg = own[o].pinReg
  BY <1>1 DEF Holding
<1> HIDE DEF h
<1>3. OwnOK' /\ \A x \in Owners : own'[x] = IF x = o THEN h ELSE own[x]
  BY <1>2, OwnChange DEF h
<1> QED
  BY <1>2, <1>3

\* One owner's record changes in the devices it has registered ...
LEMMA DevRegChanges ==
  ASSUME OwnOK, NEW o \in Owners, NEW v \in SUBSET Devices,
         own' = [own EXCEPT ![o] = [own[o] EXCEPT !.devReg = v]]
  PROVE  OwnOK' /\ \A x \in Owners :
           /\ own'[x].devReg = IF x = o THEN v ELSE own[x].devReg
           /\ own'[x].dev = own[x].dev /\ own'[x].pin = own[x].pin
           /\ own'[x].onPin = own[x].onPin /\ own'[x].pinReg = own[x].pinReg
<1>1. own[o] \in Holding
  BY DEF OwnOK
<1> DEFINE h == [own[o] EXCEPT !.devReg = v]
<1>2. /\ h \in Holding /\ h.devReg = v /\ h.dev = own[o].dev
      /\ h.pin = own[o].pin /\ h.onPin = own[o].onPin /\ h.pinReg = own[o].pinReg
  BY <1>1 DEF Holding
<1> HIDE DEF h
<1>3. OwnOK' /\ \A x \in Owners : own'[x] = IF x = o THEN h ELSE own[x]
  BY <1>2, OwnChange DEF h
<1> QED
  BY <1>2, <1>3

\* ... in the pins it has got ...
LEMMA PinChanges ==
  ASSUME OwnOK, NEW o \in Owners, NEW v \in SUBSET AllPins,
         own' = [own EXCEPT ![o] = [own[o] EXCEPT !.pin = v]]
  PROVE  OwnOK' /\ \A x \in Owners :
           /\ own'[x].pin = IF x = o THEN v ELSE own[x].pin
           /\ own'[x].dev = own[x].dev /\ own'[x].devReg = own[x].devReg
           /\ own'[x].onPin = own[x].onPin /\ own'[x].pinReg = own[x].pinReg
<1>1. own[o] \in Holding
  BY DEF OwnOK
<1> DEFINE h == [own[o] EXCEPT !.pin = v]
<1>2. /\ h \in Holding /\ h.pin = v /\ h.dev = own[o].dev
      /\ h.devReg = own[o].devReg /\ h.onPin = own[o].onPin /\ h.pinReg = own[o].pinReg
  BY <1>1 DEF Holding
<1> HIDE DEF h
<1>3. OwnOK' /\ \A x \in Owners : own'[x] = IF x = o THEN h ELSE own[x]
  BY <1>2, OwnChange DEF h
<1> QED
  BY <1>2, <1>3

\* ... in the children it has put on parents ...
LEMMA OnPinChanges ==
  ASSUME OwnOK, NEW o \in Owners, NEW v \in SUBSET (Pins \X Children),
         own' = [own EXCEPT ![o] = [own[o] EXCEPT !.onPin = v]]
  PROVE  OwnOK' /\ \A x \in Owners :
           /\ own'[x].onPin = IF x = o THEN v ELSE own[x].onPin
           /\ own'[x].dev = own[x].dev /\ own'[x].devReg = own[x].devReg
           /\ own'[x].pin = own[x].pin /\ own'[x].pinReg = own[x].pinReg
<1>1. own[o] \in Holding
  BY DEF OwnOK
<1> DEFINE h == [own[o] EXCEPT !.onPin = v]
<1>2. /\ h \in Holding /\ h.onPin = v /\ h.dev = own[o].dev
      /\ h.devReg = own[o].devReg /\ h.pin = own[o].pin /\ h.pinReg = own[o].pinReg
  BY <1>1 DEF Holding
<1> HIDE DEF h
<1>3. OwnOK' /\ \A x \in Owners : own'[x] = IF x = o THEN h ELSE own[x]
  BY <1>2, OwnChange DEF h
<1> QED
  BY <1>2, <1>3

\* ... in its registrations of pins with devices.
LEMMA PinRegChanges ==
  ASSUME OwnOK, NEW o \in Owners, NEW v \in [Devices \X AllPins -> Nat],
         own' = [own EXCEPT ![o] = [own[o] EXCEPT !.pinReg = v]]
  PROVE  OwnOK' /\ \A x \in Owners :
           /\ own'[x].pinReg = IF x = o THEN v ELSE own[x].pinReg
           /\ own'[x].dev = own[x].dev /\ own'[x].devReg = own[x].devReg
           /\ own'[x].pin = own[x].pin /\ own'[x].onPin = own[x].onPin
<1>1. own[o] \in Holding
  BY DEF OwnOK
<1> DEFINE h == [own[o] EXCEPT !.pinReg = v]
<1>2. /\ h \in Holding /\ h.pinReg = v /\ h.dev = own[o].dev
      /\ h.devReg = own[o].devReg /\ h.pin = own[o].pin /\ h.onPin = own[o].onPin
  BY <1>1 DEF Holding
<1> HIDE DEF h
<1>3. OwnOK' /\ \A x \in Owners : own'[x] = IF x = o THEN h ELSE own[x]
  BY <1>2, OwnChange DEF h
<1> QED
  BY <1>2, <1>3

\* Calls that leave the references alone.
LEMMA SameRefs ==
  ASSUME RefsInv, UNCHANGED <<dpll_refs, parent_refs>>,
         \A x \in Owners : own'[x].onPin = own[x].onPin /\ own'[x].pinReg = own[x].pinReg
  PROVE  RefsInv' /\ \A p : DevicesOf(p)' = DevicesOf(p)
<1>1. \A d, p : DirectOf(d, p)' = DirectOf(d, p)
  BY DEF DirectOf
<1>2. \A c : ChildHolds(c)' = ChildHolds(c)
  BY DEF ChildHolds
<1>3. \A d, c : ChildOf(d, c)' = ChildOf(d, c)
  BY <1>2 DEF ChildOf
<1>4. \A c, q : ParentOf(c, q)' = ParentOf(c, q)
  BY DEF ParentOf
<1>5. \A p : DevicesOf(p)' = DevicesOf(p)
  BY DEF DevicesOf
<1>6. RefsInv'
  BY <1>1, <1>3, <1>4 DEF RefsInv
<1> QED
  BY <1>5, <1>6

\* A device has a pin only while an owner has it registered, and that owner has
\* registered a pin with it.
LEMMA DeviceOfPin ==
  ASSUME RefsInv, OwnInv, HoldInv, NEW d \in Devices, NEW p \in AllPins, dpll_refs[p][d].cnt > 0
  PROVE  /\ \E o \in Owners, q \in Pins : own[o].pinReg[<<d, q>>] > 0
         /\ \E o \in Owners : p \in own[o].pin
<1>1. ASSUME NEW q \in Pins, dpll_refs[q][d].cnt > 0
      PROVE  \E o \in Owners : own[o].pinReg[<<d, q>>] > 0 /\ q \in own[o].pin
  <2>1. RefIs(dpll_refs[q][d], DirectOf(d, q))
    BY DEF RefsInv
  <2>2. DirectOf(d, q) # {}
    BY <1>1, <2>1, RefIsFacts
  <2>3. q \in AllPins
    BY DEF AllPins
  <2> QED
    BY <2>2, <2>3 DEF DirectOf, OwnInv
<1>2. CASE p \in Pins
  BY <1>1, <1>2
<1>3. CASE p \in Children
  <2>1. RefIs(dpll_refs[p][d], ChildOf(d, p))
    BY <1>3 DEF RefsInv
  <2>2. ChildOf(d, p) # {}
    BY <2>1, RefIsFacts
  <2>3. PICK y \in ChildHolds(p) : dpll_refs[y[2]][d].cnt > 0
    BY <2>2 DEF ChildOf
  <2>4. y[1] \in Owners /\ y[2] \in Pins /\ <<y[2], p>> \in own[y[1]].onPin
    BY <2>3 DEF ChildHolds
  <2>5. p \in own[y[1]].pin
    BY <1>3, <2>4 DEF HoldInv, HoldsBoth
  <2> QED
    BY <1>1, <2>3, <2>4, <2>5
<1> QED
  BY <1>2, <1>3 DEF AllPins

\* dpll_device_get, _put, _register and _unregister.
LEMMA AliveDevices ==
  ASSUME AliveInv, NEW o \in Owners, NEW d \in Devices,
         DeviceGet(o, d) \/ DevicePut(o, d) \/ DeviceRegister(o, d) \/ DeviceUnregister(o, d)
  PROVE  RefsInv' /\ OwnInv' /\ DevInv' /\ MarkInv' /\ warned' = FALSE
<1>1. OwnOK /\ own[o] \in Holding /\ RefsInv /\ OwnInv /\ DevInv /\ MarkInv /\ warned = FALSE /\ HoldInv
  BY OwnSteps DEF AliveInv, HoldInv
<1>2. UNCHANGED <<dpll_refs, parent_refs, pinMark>>
  BY DEF DeviceGet, DevicePut, DeviceRegister, DeviceUnregister, refs
<1>3. ASSUME \A x \in Owners : own'[x].onPin = own[x].onPin /\ own'[x].pinReg = own[x].pinReg
      PROVE  RefsInv' /\ MarkInv'
  <2>1. RefsInv' /\ \A p : DevicesOf(p)' = DevicesOf(p)
    BY <1>1, <1>2, <1>3, SameRefs
  <2> QED
    BY <1>1, <1>2, <2>1 DEF MarkInv
<1>4. CASE DeviceGet(o, d)
  <2>1. own[o].dev \cup {d} \in SUBSET Devices
    BY <1>1 DEF Holding
  <2>2. own' = [own EXCEPT ![o] = [own[o] EXCEPT !.dev = own[o].dev \cup {d}]]
    BY <1>1, <1>4, OwnBecomes
  <2>3. \A x \in Owners : /\ own'[x].dev = IF x = o THEN own[o].dev \cup {d} ELSE own[x].dev
                          /\ own'[x].devReg = own[x].devReg /\ own'[x].pin = own[x].pin
                          /\ own'[x].onPin = own[x].onPin /\ own'[x].pinReg = own[x].pinReg
    BY <1>1, <2>1, <2>2, DevChanges
  <2>4. UNCHANGED <<devRegs, devMark, told, warned>>
    BY <1>4 DEF DeviceGet
  <2>5. OwnInv'
    BY <1>1, <2>3 DEF OwnInv
  <2>6. DevInv'
    BY <1>1, <2>3, <2>4 DEF DevInv
  <2> QED
    BY <1>1, <1>3, <2>3, <2>4, <2>5, <2>6
<1>5. CASE DevicePut(o, d)
  <2>1. own[o].dev \ {d} \in SUBSET Devices
    BY <1>1 DEF Holding
  <2>2. own' = [own EXCEPT ![o] = [own[o] EXCEPT !.dev = own[o].dev \ {d}]]
    BY <1>1, <1>5, OwnBecomes
  <2>3. \A x \in Owners : /\ own'[x].dev = IF x = o THEN own[o].dev \ {d} ELSE own[x].dev
                          /\ own'[x].devReg = own[x].devReg /\ own'[x].pin = own[x].pin
                          /\ own'[x].onPin = own[x].onPin /\ own'[x].pinReg = own[x].pinReg
    BY <1>1, <2>1, <2>2, DevChanges
  <2>4. UNCHANGED <<devRegs, devMark, told>> /\ d \in own[o].dev /\ d \notin own[o].devReg
    BY <1>5 DEF DevicePut
  <2>5. OwnInv'
    BY <1>1, <2>3, <2>4 DEF OwnInv
  <2>6. DevInv'
    BY <1>1, <2>3, <2>4 DEF DevInv
  <2>7. ASSUME devRefs[d] = 1
        PROVE  /\ d \notin devMark /\ devRegs[d] = <<>>
               /\ \A q \in AllPins : ~(pin_refs[d][q].cnt > 0)
    <3>1. Holders(d) = {o}
      <4>1. Cardinality(Holders(d)) = 1 /\ IsFiniteSet(Holders(d))
        BY <1>1, <2>7, CountsAre, Counting DEF HoldInv
      <4>2. o \in Holders(d)
        BY <2>4 DEF Holders
      <4> QED
        BY <4>1, <4>2, FS_Singleton
    <3>2. \A x \in Owners : d \notin own[x].devReg
      BY <1>1, <2>4, <3>1 DEF OwnInv, Holders
    <3>3. devRegs[d] \in Seq(Owners) /\ Entries(devRegs[d]) = {}
      BY <1>1, <3>2 DEF DevInv
    <3>4. devRegs[d] = <<>>
      <4>1. Len(devRegs[d]) > 0 => 1 \in 1..Len(devRegs[d])
        BY <3>3
      <4>2. ~(Len(devRegs[d]) > 0)
        BY <3>3, <4>1 DEF Entries
      <4> QED
        BY <3>3, <4>2
    <3>5. ASSUME NEW q \in AllPins PROVE ~(pin_refs[d][q].cnt > 0)
      <4>1. pin_refs[d][q] = dpll_refs[q][d]
        BY DEF AliveInv, IInv, RefsAgree
      <4>2. dpll_refs[q][d].cnt > 0 => \E x \in Owners, r \in Pins : own[x].pinReg[<<d, r>>] > 0
        BY <1>1, DeviceOfPin
      <4> QED
        BY <1>1, <3>2, <4>1, <4>2 DEF OwnInv, AllPins
    <3> QED
      BY <1>1, <3>4, <3>5 DEF DevInv
  <2>8. warned' = (warned \/ (devRefs[d] = 1 /\ (\/ d \in devMark \/ devRegs[d] # <<>>
                                                 \/ \E q \in AllPins : pin_refs[d][q].cnt > 0)))
    BY <1>5 DEF DevicePut
  <2> QED
    BY <1>1, <1>3, <2>3, <2>5, <2>6, <2>7, <2>8
<1>6. CASE DeviceRegister(o, d)
  <2>1. own[o].devReg \cup {d} \in SUBSET Devices
    BY <1>1 DEF Holding
  <2>2. own' = [own EXCEPT ![o] = [own[o] EXCEPT !.devReg = own[o].devReg \cup {d}]]
    BY <1>1, <1>6, OwnBecomes
  <2>3. \A x \in Owners : /\ own'[x].devReg = IF x = o THEN own[o].devReg \cup {d} ELSE own[x].devReg
                          /\ own'[x].dev = own[x].dev /\ own'[x].pin = own[x].pin
                          /\ own'[x].onPin = own[x].onPin /\ own'[x].pinReg = own[x].pinReg
    BY <1>1, <2>1, <2>2, DevRegChanges
  <2>4. /\ d \in own[o].dev /\ d \notin own[o].devReg /\ warned' = warned
        /\ devRegs' = [devRegs EXCEPT ![d] = Append(@, o)] /\ devMark' = devMark \cup {d}
        /\ told' \subseteq told \cup {d}
    BY <1>6 DEF DeviceRegister
  <2>5. OwnInv'
    BY <1>1, <2>3, <2>4 DEF OwnInv
  <2>6. DevInv'
    <3> DEFINE a == Append(devRegs[d], o)
    <3>1. devRegs[d] \in Seq(Owners) /\ Distinct(devRegs[d]) /\ o \notin Entries(devRegs[d])
      BY <1>1, <2>4 DEF DevInv
    <3>2. a \in Seq(Owners) /\ Distinct(a) /\ Entries(a) = Entries(devRegs[d]) \cup {o} /\ a # <<>>
      <4>1. /\ a \in Seq(Owners) /\ Distinct(a) /\ Entries(a) = Entries(devRegs[d]) \cup {o}
            /\ o \in Entries(a)
        BY <3>1, AppendEntry
      <4>2. Entries(<<>>) = {}
        BY DEF Entries
      <4> HIDE DEF a
      <4> QED
        BY <4>1, <4>2
    <3> HIDE DEF a
    <3>3. /\ devRegs' \in [Devices -> Seq(Owners)] /\ devRegs'[d] = a
          /\ \A e \in Devices \ {d} : devRegs'[e] = devRegs[e]
      BY <1>1, <2>4, <3>2 DEF DevInv, a
    <3>4. \A e \in Devices : /\ Distinct(devRegs'[e])
                             /\ Entries(devRegs'[e]) = {x \in Owners : e \in own'[x].devReg}
      <4>1. {x \in Owners : d \in own'[x].devReg} = {x \in Owners : d \in own[x].devReg} \cup {o}
        BY <2>3
      <4>2. ASSUME NEW e \in Devices, e # d
            PROVE  {x \in Owners : e \in own'[x].devReg} = {x \in Owners : e \in own[x].devReg}
        BY <2>3, <4>2
      <4>3. Distinct(devRegs'[d]) /\ Entries(devRegs'[d]) = {x \in Owners : d \in own'[x].devReg}
        BY <1>1, <3>2, <3>3, <4>1 DEF DevInv
      <4>4. \A e \in Devices : e # d =>
              Distinct(devRegs'[e]) /\ Entries(devRegs'[e]) = {x \in Owners : e \in own'[x].devReg}
        BY <1>1, <3>3, <4>2 DEF DevInv
      <4> QED
        BY <4>3, <4>4
    <3>5. devMark' = {e \in Devices : devRegs'[e] # <<>>} /\ told' \subseteq devMark'
      BY <1>1, <2>4, <3>2, <3>3 DEF DevInv
    <3> QED
      BY <3>3, <3>4, <3>5 DEF DevInv
  <2> QED
    BY <1>1, <1>3, <2>3, <2>4, <2>5, <2>6
<1>7. CASE DeviceUnregister(o, d)
  <2>1. own[o].devReg \ {d} \in SUBSET Devices
    BY <1>1 DEF Holding
  <2>2. own' = [own EXCEPT ![o] = [own[o] EXCEPT !.devReg = own[o].devReg \ {d}]]
    BY <1>1, <1>7, OwnBecomes
  <2>3. \A x \in Owners : /\ own'[x].devReg = IF x = o THEN own[o].devReg \ {d} ELSE own[x].devReg
                          /\ own'[x].dev = own[x].dev /\ own'[x].pin = own[x].pin
                          /\ own'[x].onPin = own[x].onPin /\ own'[x].pinReg = own[x].pinReg
    BY <1>1, <2>1, <2>2, DevRegChanges
  <2>4. /\ d \in own[o].devReg /\ ~UsesDevice(o, d) /\ warned' = (warned \/ d \notin devMark)
        /\ devRegs' = [devRegs EXCEPT ![d] = ListDel(@, o)]
        /\ devMark' = IF devRegs[d] = <<o>> THEN devMark \ {d} ELSE devMark
        /\ told' = told \ {d}
    BY <1>7 DEF DeviceUnregister
  <2>5. OwnInv'
    <3>1. ASSUME NEW p \in Pins PROVE ~(own[o].pinReg[<<d, p>>] > 0)
      <4>1. SUFFICES ASSUME own[o].pinReg[<<d, p>>] > 0 PROVE FALSE
        OBVIOUS
      <4>2. DirectReg(o) \in DirectOf(d, p)
        BY <4>1 DEF DirectOf
      <4>3. Registered(dpll_refs[p][d], DirectReg(o))
        BY <1>1, <4>2, RefIsFacts DEF RefsInv
      <4>4. p \in AllPins /\ pin_refs[d][p] = dpll_refs[p][d] /\ DirectReg(o).owner = o
        BY DEF AllPins, AliveInv, IInv, RefsAgree, DirectReg
      <4> QED
        BY <2>4, <4>3, <4>4 DEF UsesDevice, Registered
    <3> QED
      BY <1>1, <2>3, <2>4, <3>1 DEF OwnInv, AllPins
  <2>6. o \in Entries(devRegs[d]) /\ d \in devMark
    <3>1. o \in Entries(devRegs[d]) /\ devRegs[d] \in Seq(Owners)
      BY <1>1, <2>4 DEF DevInv
    <3>2. devRegs[d] # <<>>
      BY <3>1 DEF Entries
    <3> QED
      BY <1>1, <3>1, <3>2 DEF DevInv
  <2>7. DevInv'
    <3> DEFINE l == ListDel(devRegs[d], o)
    <3>1. devRegs[d] \in Seq(Owners) /\ Distinct(devRegs[d])
      BY <1>1 DEF DevInv
    <3>2. /\ l \in Seq(Owners) /\ Distinct(l) /\ Entries(l) = Entries(devRegs[d]) \ {o}
          /\ Len(l) = Len(devRegs[d]) - 1
      BY <2>6, <3>1, DelEntry
    <3> HIDE DEF l
    <3>3. l = <<>> <=> devRegs[d] = <<o>>
      <4>1. l = <<>> <=> Len(devRegs[d]) = 1
        <5>1. l = <<>> <=> Len(l) = 0
          <6>1. l \in Seq(Owners)
            BY <3>2
          <6> QED
            BY <6>1
        <5>2. Len(devRegs[d]) \in Nat
          BY <3>1
        <5> QED
          BY <3>2, <5>1, <5>2
      <4>2. ASSUME Len(devRegs[d]) = 1 PROVE devRegs[d] = <<o>>
        <5>1. devRegs[d][1] = o
          BY <2>6, <4>2 DEF Entries
        <5> QED
          BY <3>1, <4>2, <5>1
      <4>3. Len(<<o>>) = 1
        OBVIOUS
      <4> QED
        BY <4>1, <4>2, <4>3
    <3>4. /\ devRegs' \in [Devices -> Seq(Owners)] /\ devRegs'[d] = l
          /\ \A e \in Devices \ {d} : devRegs'[e] = devRegs[e]
      BY <1>1, <2>4, <3>2 DEF DevInv, l
    <3>5. \A e \in Devices : /\ Distinct(devRegs'[e])
                             /\ Entries(devRegs'[e]) = {x \in Owners : e \in own'[x].devReg}
      <4>1. {x \in Owners : d \in own'[x].devReg} = {x \in Owners : d \in own[x].devReg} \ {o}
        BY <2>3
      <4>2. ASSUME NEW e \in Devices, e # d
            PROVE  {x \in Owners : e \in own'[x].devReg} = {x \in Owners : e \in own[x].devReg}
        BY <2>3, <4>2
      <4> QED
        BY <1>1, <3>2, <3>4, <4>1, <4>2 DEF DevInv
    <3>6. devMark' = {e \in Devices : devRegs'[e] # <<>>} /\ told' \subseteq devMark'
      BY <1>1, <2>4, <2>6, <3>3, <3>4 DEF DevInv
    <3> QED
      BY <3>4, <3>5, <3>6 DEF DevInv
  <2> QED
    BY <1>1, <1>3, <2>3, <2>4, <2>5, <2>6, <2>7
<1> QED
  BY <1>4, <1>5, <1>6, <1>7

\* dpll_pin_get and dpll_pin_put: the last holder has withdrawn what it registered.
LEMMA AlivePins ==
  ASSUME AliveInv, NEW o \in Owners, NEW p \in AllPins, PinGet(o, p) \/ PinPut(o, p)
  PROVE  RefsInv' /\ OwnInv' /\ DevInv' /\ MarkInv' /\ warned' = FALSE
<1>1. OwnOK /\ own[o] \in Holding /\ RefsInv /\ OwnInv /\ DevInv /\ MarkInv /\ warned = FALSE /\ HoldInv
  BY OwnSteps DEF AliveInv, HoldInv
<1>2. UNCHANGED <<dpll_refs, parent_refs, devRegs, devMark, told, warned>>
  BY DEF PinGet, PinPut, refs
<1>3. PICK S \in SUBSET AllPins : /\ own' = [own EXCEPT ![o] = [own[o] EXCEPT !.pin = S]]
                                  /\ S = own[o].pin \cup {p} \/ (PinPut(o, p) /\ S = own[o].pin \ {p})
  <2>1. own[o].pin \cup {p} \in SUBSET AllPins /\ own[o].pin \ {p} \in SUBSET AllPins
    BY <1>1 DEF Holding
  <2> QED
    BY <1>1, <2>1, OwnBecomes
<1>4. \A x \in Owners : /\ own'[x].pin = IF x = o THEN S ELSE own[x].pin
                        /\ own'[x].dev = own[x].dev /\ own'[x].devReg = own[x].devReg
                        /\ own'[x].onPin = own[x].onPin /\ own'[x].pinReg = own[x].pinReg
  BY <1>1, <1>3, PinChanges
<1>5. DevInv' /\ warned' = FALSE
  BY <1>1, <1>2, <1>4 DEF DevInv
<1>6. OwnInv'
  BY <1>1, <1>3, <1>4 DEF OwnInv, PinPut, Uses
<1>7. RefsInv' /\ \A q : DevicesOf(q)' = DevicesOf(q)
  BY <1>1, <1>2, <1>4, SameRefs
<1>8. pinMark' = pinMark
  <2>1. CASE PinGet(o, p)
    BY <2>1 DEF PinGet
  <2>2. CASE PinPut(o, p) /\ pinRefs[p] # 1
    BY <2>2 DEF PinPut
  <2>3. CASE PinPut(o, p) /\ pinRefs[p] = 1
    <3>1. p \in own[o].pin /\ ~Uses(o, p) /\ pinMark' = pinMark \ {p}
      BY <2>3 DEF PinPut
    <3>2. PinHolders(p) = {o} /\ ChildHolds(p) = {}
      BY <1>1, <2>3, <3>1, PinCounts
    <3>3. ASSUME NEW d \in Devices PROVE ~(dpll_refs[p][d].cnt > 0)
      <4>1. CASE p \in Pins
        <5>1. DirectOf(d, p) = {}
          BY <1>1, <3>1, <3>2, <4>1 DEF DirectOf, OwnInv, PinHolders, Uses
        <5> QED
          BY <1>1, <4>1, <5>1, RefIsFacts DEF RefsInv
      <4>2. CASE p \in Children
        <5>1. ChildOf(d, p) = {}
          BY <3>2 DEF ChildOf
        <5> QED
          BY <1>1, <4>2, <5>1, RefIsFacts DEF RefsInv
      <4> QED
        BY <4>1, <4>2 DEF AllPins
    <3>4. p \notin pinMark
      BY <1>1, <3>3 DEF MarkInv, DevicesOf
    <3> QED
      BY <3>1, <3>4
  <2> QED
    BY <2>1, <2>2, <2>3
<1>9. MarkInv'
  BY <1>1, <1>7, <1>8 DEF MarkInv
<1> QED
  BY <1>5, <1>6, <1>7, <1>9

\* A registration that fails leaves everything as it was.
LEMMA FailsChangeNothing ==
  ASSUME AliveInv, NEW o \in Owners,
         \/ \E d \in Devices, p \in Pins : PinRegisterFail(o, d, p)
         \/ \E parent \in Pins, p \in Children : PinOnPinRegisterFail(o, parent, p)
  PROVE  UNCHANGED vars
<1>1. /\ OwnOK /\ RefsInv /\ MarkInv /\ warned = FALSE
      /\ pin_refs \in [Devices -> [AllPins -> Ref]] /\ dpll_refs \in [AllPins -> [Devices -> Ref]]
      /\ \A d \in Devices, p \in AllPins : pin_refs[d][p] = dpll_refs[p][d]
      /\ parent_refs \in [AllPins -> [Pins -> Ref]]
  BY DEF AliveInv, HoldInv, IInv, TablesOK, RefsAgree, RefsInv
<1>2. ASSUME NEW ref, NEW S, RefIs(ref, S), NEW reg \in Registration, ~Registered(ref, reg)
      PROVE  RefDel(RefAdd(ref, reg), reg) = ref /\ ~RefDelWarns(RefAdd(ref, reg), reg)
  <2>1. ref \in Ref /\ (ref.cnt = 0 => ref = NoRef) /\ reg \notin S
    BY <1>2, RefIsFacts
  <2>2. RefIs(RefAdd(ref, reg), S \cup {reg})
    BY <1>2, <2>1, RefIsAdd
  <2> QED
    BY <1>2, <2>1, <2>2, AddThenDel, RefIsDel
<1>3. ASSUME NEW d \in Devices, NEW p \in Pins, PinRegisterFail(o, d, p)
      PROVE  UNCHANGED vars
  <2> DEFINE reg == DirectReg(o)
             ref == pin_refs[d][p]
  <2>1. p \in AllPins
    BY DEF AllPins
  <2>2. reg \in Registration
    BY <2>1, RegistrationType
  <2>3. RefIs(ref, DirectOf(d, p)) /\ dpll_refs[p][d] = ref
    BY <1>1, <2>1 DEF RefsInv
  <2>4. ~Registered(ref, reg)
    BY <1>3, <2>3 DEF PinRegisterFail, MayFail
  <2>5. RefDel(RefAdd(ref, reg), reg) = ref /\ ~RefDelWarns(RefAdd(ref, reg), reg)
    BY <1>2, <2>2, <2>3, <2>4
  <2>6. /\ pin_refs' = [pin_refs EXCEPT ![d][p] = RefDel(RefAdd(ref, reg), reg)]
        /\ warned' = (warned \/ RefDelWarns(RefAdd(ref, reg), reg))
        /\ UNCHANGED <<objects, dpll_refs, parent_refs, own, told>>
    BY <1>3 DEF PinRegisterFail
  <2>7. pin_refs' = pin_refs
    <3>1. pin_refs' = [pin_refs EXCEPT ![d][p] = ref]
      BY <2>5, <2>6
    <3> QED
      BY <1>1, <2>1, <3>1
  <2>8. warned' = warned
    BY <1>1, <2>5, <2>6
  <2> QED
    BY <2>6, <2>7, <2>8 DEF vars, refs
<1>4. ASSUME NEW parent \in Pins, NEW p \in Children, PinOnPinRegisterFail(o, parent, p)
      PROVE  UNCHANGED vars
  <2> DEFINE reg == ChildReg(o, parent)
  <2>1. p \in AllPins /\ parent \in AllPins
    BY DEF AllPins
  <2>2. reg \in Registration /\ ChildReg(o, p) \in Registration
    BY <2>1, RegistrationType
  <2>3. <<parent, p>> \notin own[o].onPin
    BY <1>4 DEF PinOnPinRegisterFail, CanRegisterOnPin
  <2>4. ASSUME NEW d \in Devices
        PROVE  RefDel(RefAdd(dpll_refs[p][d], reg), reg) = dpll_refs[p][d]
    <3>1. RefIs(dpll_refs[p][d], ChildOf(d, p))
      BY <1>1 DEF RefsInv
    <3>2. reg \notin ChildOf(d, p)
      BY <2>3 DEF ChildOf, ChildHolds, ChildReg
    <3>3. ~Registered(dpll_refs[p][d], reg)
      BY <3>1, <3>2, RefIsFacts
    <3> QED
      BY <1>2, <2>2, <3>1, <3>3
  <2>5. RefDel(RefAdd(parent_refs[p][parent], ChildReg(o, p)), ChildReg(o, p)) = parent_refs[p][parent]
    <3>1. RefIs(parent_refs[p][parent], ParentOf(p, parent))
      BY <1>1 DEF RefsInv
    <3>2. ChildReg(o, p) \notin ParentOf(p, parent)
      BY <2>3 DEF ParentOf, ChildReg
    <3>3. ~Registered(parent_refs[p][parent], ChildReg(o, p))
      BY <3>1, <3>2, RefIsFacts
    <3> QED
      BY <1>2, <2>2, <3>1, <3>3
  <2> HIDE DEF reg
  <2>6. PICK done \in SUBSET DevicesOf(parent) :
          /\ pin_refs' = [e \in Devices |-> IF e \in done
                            THEN [pin_refs[e] EXCEPT ![p] = RefDel(RefAdd(@, reg), reg)]
                            ELSE pin_refs[e]]
          /\ dpll_refs' = [dpll_refs EXCEPT ![p] = [e \in Devices |->
                             IF e \in done THEN RefDel(RefAdd(@[e], reg), reg) ELSE @[e]]]
          /\ pinMark' = IF done # {} /\ \A e \in Devices : dpll_refs'[p][e].cnt = 0
                        THEN pinMark \ {p} ELSE pinMark
    BY <1>4 DEF PinOnPinRegisterFail, reg
  <2>7. dpll_refs' = dpll_refs
    <3>1. \A e \in Devices : (IF e \in done THEN RefDel(RefAdd(dpll_refs[p][e], reg), reg)
                                            ELSE dpll_refs[p][e]) = dpll_refs[p][e]
      BY <2>4
    <3>2. [e \in Devices |-> IF e \in done THEN RefDel(RefAdd(dpll_refs[p][e], reg), reg)
                                           ELSE dpll_refs[p][e]] = dpll_refs[p]
      BY <1>1, <2>1, <3>1
    <3> QED
      BY <1>1, <2>1, <2>6, <3>2
  <2>8. pin_refs' = pin_refs
    <3>1. \A e \in Devices : RefDel(RefAdd(pin_refs[e][p], reg), reg) = pin_refs[e][p]
      BY <1>1, <2>1, <2>4
    <3>2. \A e \in Devices : [pin_refs[e] EXCEPT ![p] = RefDel(RefAdd(@, reg), reg)] = pin_refs[e]
      BY <1>1, <2>1, <3>1
    <3> QED
      BY <1>1, <2>6, <3>2
  <2>9. parent_refs' = parent_refs
    <3>1. parent_refs' = [parent_refs EXCEPT ![p][parent] = parent_refs[p][parent]]
      BY <1>4, <2>5 DEF PinOnPinRegisterFail
    <3> QED
      BY <1>1, <2>1, <3>1
  <2>10. pinMark' = pinMark
    <3>1. (\A e \in Devices : dpll_refs[p][e].cnt = 0) => p \notin pinMark
      BY <1>1 DEF MarkInv, DevicesOf
    <3> QED
      BY <2>6, <2>7, <3>1
  <2>11. UNCHANGED <<devRefs, devRegs, devMark, pinRefs, pinXa, pinAllocs, own, told, warned>>
    BY <1>4 DEF PinOnPinRegisterFail
  <2> QED
    BY <2>7, <2>8, <2>9, <2>10, <2>11 DEF vars, objects, refs
<1> QED
  BY <1>3, <1>4

\* A parent that has children may not change its devices.
LEMMA ParentIsSettled ==
  ASSUME Orderly, RefsInv, NEW o \in Owners, NEW p \in Pins, NEW c \in Children,
         <<p, c>> \in own[o].onPin
  PROVE  ~MayChange(p)
<1>1. ChildReg(o, c) \in ParentOf(c, p)
  BY DEF ParentOf
<1>2. RefIs(parent_refs[c][p], ParentOf(c, p))
  BY DEF RefsInv
<1>3. parent_refs[c][p].cnt > 0 /\ parent_refs[c][p].cnt \in Nat
  BY <1>1, <1>2, RefIsFacts
<1>4. parent_refs[c][p].cnt # 0
  BY <1>3
<1> QED
  BY <1>4 DEF MayChange, Orderly

\* One registration of a pin with a device comes or goes.
LEMMA DirectChange ==
  ASSUME AliveInv, NEW d \in Devices, NEW p \in Pins, NEW r, NEW S, RefIs(r, S),
         dpll_refs' = [dpll_refs EXCEPT ![p][d] = r], UNCHANGED parent_refs,
         \A x \in Owners : own'[x].onPin = own[x].onPin,
         DirectOf(d, p)' = S,
         \A e \in Devices, q \in Pins : e # d \/ q # p => DirectOf(e, q)' = DirectOf(e, q),
         \A o \in Owners, c \in Children :
           <<p, c>> \in own[o].onPin => r.cnt > 0 /\ dpll_refs[p][d].cnt > 0
  PROVE  /\ RefsInv'
         /\ \A q \in AllPins \ {p} : DevicesOf(q)' = DevicesOf(q)
         /\ \A e \in Devices : dpll_refs'[p][e] = IF e = d THEN r ELSE dpll_refs[p][e]
<1>1. RefsInv /\ dpll_refs \in [AllPins -> [Devices -> Ref]] /\ p \in AllPins /\ p \notin Children
  BY DpllCoreAssumption DEF AliveInv, IInv, TablesOK, AllPins, DpllCoreAssumption
<1>2. \A q \in AllPins, e \in Devices :
        dpll_refs'[q][e] = IF q = p /\ e = d THEN r ELSE dpll_refs[q][e]
  BY <1>1
<1>3. \A c : ChildHolds(c)' = ChildHolds(c)
  BY DEF ChildHolds
<1>4. ASSUME NEW e \in Devices, NEW c \in Children PROVE ChildOf(e, c)' = ChildOf(e, c)
  <2>1. ASSUME NEW y \in ChildHolds(c)
        PROVE  dpll_refs'[y[2]][e].cnt > 0 <=> dpll_refs[y[2]][e].cnt > 0
    <3>1. y[1] \in Owners /\ y[2] \in Pins /\ y[2] \in AllPins /\ <<y[2], c>> \in own[y[1]].onPin
      BY <2>1 DEF ChildHolds, AllPins
    <3> QED
      BY <1>2, <3>1
  <2> QED
    BY <1>3, <2>1 DEF ChildOf
<1>5. \A c, q : ParentOf(c, q)' = ParentOf(c, q)
  BY DEF ParentOf
<1>6. \A e \in Devices, q \in Pins : RefIs(dpll_refs'[q][e], DirectOf(e, q)')
  <2>1. \A q \in Pins : q \in AllPins
    BY DEF AllPins
  <2> QED
    BY <1>1, <1>2, <2>1 DEF RefsInv
<1>7. \A e \in Devices, c \in Children : RefIs(dpll_refs'[c][e], ChildOf(e, c)')
  <2>1. \A c \in Children : c \in AllPins /\ c # p
    BY <1>1 DEF AllPins
  <2> QED
    BY <1>1, <1>2, <1>4, <2>1 DEF RefsInv
<1>8. RefsInv'
  BY <1>1, <1>5, <1>6, <1>7 DEF RefsInv
<1>9. \A q \in AllPins \ {p} : DevicesOf(q)' = DevicesOf(q)
  BY <1>2 DEF DevicesOf
<1> QED
  BY <1>1, <1>2, <1>8, <1>9

\* The count of owner o's registrations of pin p with device d becomes v[<<d, p>>].
RegChange(o, d, p, v) ==
  /\ v \in [Devices \X AllPins -> Nat]
  /\ own' = [own EXCEPT ![o] = [own[o] EXCEPT !.pinReg = v]]
  /\ v[<<d, p>>] > 0 => d \in own[o].devReg /\ p \in own[o].pin
  /\ v[<<d, p>>] <= 1
  /\ \A dp \in Devices \X AllPins : dp # <<d, p>> => v[dp] = own[o].pinReg[dp]
  /\ UNCHANGED <<devRegs, devMark, told>>

\* What becomes of the registrations the references should have.
LEMMA DirectSteps ==
  ASSUME AliveInv, NEW o \in Owners, NEW d \in Devices, NEW p \in Pins, NEW v, RegChange(o, d, p, v)
  PROVE  /\ \A x \in Owners : own'[x].onPin = own[x].onPin
         /\ \A e \in Devices, q \in Pins : e # d \/ q # p => DirectOf(e, q)' = DirectOf(e, q)
         /\ v[<<d, p>>] > 0 => DirectOf(d, p)' = DirectOf(d, p) \cup {DirectReg(o)}
         /\ ~(v[<<d, p>>] > 0) => DirectOf(d, p)' = DirectOf(d, p) \ {DirectReg(o)}
         /\ OwnInv' /\ DevInv'
<1> USE DEF RegChange
<1>1. OwnOK /\ OwnInv /\ DevInv
  BY DEF AliveInv, HoldInv
<1>2. \A x \in Owners : /\ own'[x].pinReg = IF x = o THEN v ELSE own[x].pinReg
                        /\ own'[x].dev = own[x].dev /\ own'[x].devReg = own[x].devReg
                        /\ own'[x].pin = own[x].pin /\ own'[x].onPin = own[x].onPin
  BY <1>1, PinRegChanges
<1>3. \A e \in Devices, q \in Pins : <<e, q>> \in Devices \X AllPins
  BY DEF AllPins
<1>4. \A e \in Devices, q \in Pins : e # d \/ q # p =>
        \A x \in Owners : own'[x].pinReg[<<e, q>>] = own[x].pinReg[<<e, q>>]
  BY <1>2, <1>3
<1>5. \A e \in Devices, q \in Pins : e # d \/ q # p => DirectOf(e, q)' = DirectOf(e, q)
  BY <1>4 DEF DirectOf
<1> DEFINE W == {x \in Owners : own[x].pinReg[<<d, p>>] > 0}
           V == {x \in Owners : own'[x].pinReg[<<d, p>>] > 0}
<1>6. v[<<d, p>>] > 0 => V = W \cup {o}
  BY <1>2
<1>7. ~(v[<<d, p>>] > 0) => V = W \ {o}
  BY <1>2
<1>8. DirectOf(d, p) = {DirectReg(x) : x \in W} /\ DirectOf(d, p)' = {DirectReg(x) : x \in V}
  BY DEF DirectOf, DirectReg
<1>9. \A x \in Owners : DirectReg(x) = DirectReg(o) => x = o
  BY DEF DirectReg
<1>10. V \subseteq Owners /\ W \subseteq Owners
  OBVIOUS
<1> HIDE DEF V, W
<1>11. /\ v[<<d, p>>] > 0 => DirectOf(d, p)' = DirectOf(d, p) \cup {DirectReg(o)}
       /\ ~(v[<<d, p>>] > 0) => DirectOf(d, p)' = DirectOf(d, p) \ {DirectReg(o)}
  BY <1>6, <1>7, <1>8, <1>9, <1>10
<1>12. OwnInv'
  <2>1. \A x \in Owners, e \in Devices, q \in Pins :
          own'[x].pinReg[<<e, q>>] = IF x = o /\ e = d /\ q = p THEN v[<<d, p>>]
                                                               ELSE own[x].pinReg[<<e, q>>]
    BY <1>2, <1>4
  <2> QED
    BY <1>1, <1>2, <2>1 DEF OwnInv
<1>13. DevInv'
  BY <1>1, <1>2 DEF DevInv
<1> QED
  BY <1>2, <1>5, <1>11, <1>12, <1>13

\* dpll_pin_register.
LEMMA AliveRegister ==
  ASSUME Orderly, AliveInv, NEW o \in Owners, NEW d \in Devices, NEW p \in Pins,
         PinRegister(o, d, p)
  PROVE  RefsInv' /\ OwnInv' /\ DevInv' /\ MarkInv' /\ warned' = FALSE
<1> DEFINE reg == DirectReg(o)
           ref == dpll_refs[p][d]
           S == DirectOf(d, p)
           v == [own[o].pinReg EXCEPT ![<<d, p>>] = @ + 1]
<1>1. /\ OwnOK /\ own[o] \in Holding /\ RefsInv /\ MarkInv /\ warned = FALSE
      /\ dpll_refs \in [AllPins -> [Devices -> Ref]] /\ p \in AllPins
  BY OwnSteps DEF AliveInv, HoldInv, IInv, TablesOK, AllPins
<1>2. own[o].pinReg \in [Devices \X AllPins -> Nat] /\ <<d, p>> \in Devices \X AllPins
  BY <1>1 DEF Holding
<1>3. RefIs(ref, S) /\ reg \in Registration
  BY <1>1, RegistrationType DEF RefsInv
<1>4. /\ p \in own[o].pin /\ d \in own[o].devReg /\ own[o].pinReg[<<d, p>>] < MaxReg
      /\ MayChange(p) \/ ref.cnt > 0
      /\ dpll_refs' = [dpll_refs EXCEPT ![p][d] = RefAdd(ref, reg)]
      /\ pinMark' = pinMark \cup {p} /\ UNCHANGED <<warned, devRegs, devMark, told, parent_refs>>
  BY <1>1 DEF PinRegister
<1>5. own[o].pinReg[<<d, p>>] = 0
  BY <1>2, <1>4 DEF Orderly
<1>6. v \in [Devices \X AllPins -> Nat] /\ v[<<d, p>>] = 1
  BY <1>2, <1>5
<1>7. \A dp \in Devices \X AllPins : dp # <<d, p>> => v[dp] = own[o].pinReg[dp]
  BY <1>2
<1>8. own' = [own EXCEPT ![o] = [own[o] EXCEPT !.pinReg = v]]
  BY <1>1, OwnBecomes
<1> HIDE DEF v
<1>9. v[<<d, p>>] > 0 /\ v[<<d, p>>] <= 1
  BY <1>6
<1>10. /\ \A x \in Owners : own'[x].onPin = own[x].onPin
       /\ \A e \in Devices, q \in Pins : e # d \/ q # p => DirectOf(e, q)' = DirectOf(e, q)
       /\ DirectOf(d, p)' = S \cup {reg} /\ OwnInv' /\ DevInv'
  <2>1. RegChange(o, d, p, v)
    BY <1>4, <1>6, <1>7, <1>8, <1>9 DEF RegChange
  <2> QED
    BY <1>9, <2>1, DirectSteps
<1>11. reg \notin S
  <2>1. \A x \in Owners : DirectReg(x) = DirectReg(o) => x = o
    BY DEF DirectReg
  <2>2. ~(own[o].pinReg[<<d, p>>] > 0)
    BY <1>5
  <2> QED
    BY <2>1, <2>2 DEF DirectOf
<1>12. RefIs(RefAdd(ref, reg), S \cup {reg})
  BY <1>3, <1>11, RefIsAdd
<1>13. RefAdd(ref, reg).cnt > 0
  BY <1>12, RefIsFacts
<1>14. \A x \in Owners, c \in Children :
         <<p, c>> \in own[x].onPin => RefAdd(ref, reg).cnt > 0 /\ ref.cnt > 0
  BY <1>1, <1>4, <1>13, ParentIsSettled
<1> HIDE DEF reg, S
<1>15. /\ RefsInv' /\ (\A q \in AllPins \ {p} : DevicesOf(q)' = DevicesOf(q))
       /\ dpll_refs'[p][d] = RefAdd(ref, reg)
  <2>1. dpll_refs' = [dpll_refs EXCEPT ![p][d] = RefAdd(ref, reg)] /\ UNCHANGED parent_refs
    BY <1>4
  <2> DEFINE r == RefAdd(ref, reg)
             T == S \cup {reg}
  <2>2. /\ RefIs(r, T) /\ dpll_refs' = [dpll_refs EXCEPT ![p][d] = r] /\ DirectOf(d, p)' = T
        /\ \A x \in Owners, c \in Children :
             <<p, c>> \in own[x].onPin => r.cnt > 0 /\ dpll_refs[p][d].cnt > 0
    BY <1>10, <1>12, <1>14, <2>1
  <2> HIDE DEF r, T
  <2>3. RefsInv' /\ (\A q \in AllPins \ {p} : DevicesOf(q)' = DevicesOf(q)) /\ dpll_refs'[p][d] = r
    BY <1>10, <2>1, <2>2, DirectChange
  <2> QED
    BY <2>3 DEF r
<1>16. d \in DevicesOf(p)'
  BY <1>13, <1>15 DEF DevicesOf
<1>17. MarkInv'
  BY <1>1, <1>4, <1>15, <1>16 DEF MarkInv
<1> QED
  BY <1>1, <1>4, <1>10, <1>15, <1>17

\* dpll_pin_unregister: the registration is there, so nothing warns.
LEMMA AliveUnregister ==
  ASSUME Orderly, AliveInv, NEW o \in Owners, NEW d \in Devices, NEW p \in Pins,
         PinUnregister(o, d, p)
  PROVE  RefsInv' /\ OwnInv' /\ DevInv' /\ MarkInv' /\ warned' = FALSE
<1> DEFINE reg == DirectReg(o)
           ref == dpll_refs[p][d]
           S == DirectOf(d, p)
           v == [own[o].pinReg EXCEPT ![<<d, p>>] = @ - 1]
<1>1. /\ OwnOK /\ own[o] \in Holding /\ RefsInv /\ MarkInv /\ warned = FALSE
      /\ dpll_refs \in [AllPins -> [Devices -> Ref]] /\ p \in AllPins
      /\ pin_refs[d][p] = ref /\ OwnInv
  BY OwnSteps DEF AliveInv, HoldInv, IInv, TablesOK, AllPins, RefsAgree
<1>2. own[o].pinReg \in [Devices \X AllPins -> Nat] /\ <<d, p>> \in Devices \X AllPins
  BY <1>1 DEF Holding
<1>3. RefIs(ref, S)
  BY <1>1 DEF RefsInv
<1>4. own[o].pinReg[<<d, p>>] > 0 /\ (MayChange(p) \/ ref.cnt > 1)
  BY DEF PinUnregister
<1>5. own[o].pinReg[<<d, p>>] = 1
  BY <1>1, <1>2, <1>4 DEF OwnInv
<1>6. reg \in S
  BY <1>4 DEF DirectOf
<1>7. /\ RefIs(RefDel(ref, reg), S \ {reg}) /\ ~RefDelWarns(ref, reg)
      /\ RefDel(ref, reg).cnt = ref.cnt - 1 /\ ref.cnt \in Nat /\ ref.cnt > 0
  BY <1>3, <1>6, RefIsDel, RefIsFacts
<1>8. p \in pinMark
  BY <1>1, <1>7 DEF MarkInv, DevicesOf
<1>9. ~(\/ \A q \in AllPins : pin_refs[d][q].cnt = 0
        \/ \E q \in Pins : parent_refs[p][q].cnt > 0)
  <2>1. pin_refs[d][p].cnt # 0
    BY <1>1, <1>7
  <2>2. \A q \in Pins : ~(parent_refs[p][q].cnt > 0)
    BY <1>1 DEF RefsInv, NoRef
  <2> QED
    BY <1>1, <2>1, <2>2
<1>10. /\ dpll_refs' = [dpll_refs EXCEPT ![p][d] = RefDel(@, reg)]
       /\ pinMark' = IF \A e \in Devices : dpll_refs'[p][e].cnt = 0 THEN pinMark \ {p} ELSE pinMark
       /\ warned' = (warned \/ p \notin pinMark \/ RefDelWarns(pin_refs[d][p], reg))
       /\ UNCHANGED <<devRegs, devMark, told, parent_refs>>
  BY <1>9, Zenon DEF PinUnregister
<1>11. warned' = FALSE /\ dpll_refs' = [dpll_refs EXCEPT ![p][d] = RefDel(ref, reg)]
  BY <1>1, <1>7, <1>8, <1>10
<1>12. v \in [Devices \X AllPins -> Nat] /\ v[<<d, p>>] = 0
  BY <1>2, <1>5
<1>13. \A dp \in Devices \X AllPins : dp # <<d, p>> => v[dp] = own[o].pinReg[dp]
  BY <1>2
<1>14. own' = [own EXCEPT ![o] = [own[o] EXCEPT !.pinReg = v]]
  BY <1>1, OwnBecomes
<1> HIDE DEF v
<1>15. ~(v[<<d, p>>] > 0) /\ v[<<d, p>>] <= 1
  BY <1>12
<1>16. /\ \A x \in Owners : own'[x].onPin = own[x].onPin
       /\ \A e \in Devices, q \in Pins : e # d \/ q # p => DirectOf(e, q)' = DirectOf(e, q)
       /\ DirectOf(d, p)' = S \ {reg} /\ OwnInv' /\ DevInv'
  <2>1. RegChange(o, d, p, v)
    BY <1>10, <1>12, <1>13, <1>14, <1>15 DEF RegChange
  <2> QED
    BY <1>15, <2>1, DirectSteps
<1>17. ref.cnt > 1 => RefDel(ref, reg).cnt > 0
  BY <1>7
<1>18. \A x \in Owners, c \in Children :
         <<p, c>> \in own[x].onPin => RefDel(ref, reg).cnt > 0 /\ ref.cnt > 0
  BY <1>1, <1>4, <1>7, <1>17, ParentIsSettled
<1> HIDE DEF reg, S
<1>19. /\ RefsInv' /\ (\A q \in AllPins \ {p} : DevicesOf(q)' = DevicesOf(q))
       /\ \A e \in Devices : dpll_refs'[p][e] \in Ref
  <2>1. RefsInv' /\ (\A q \in AllPins \ {p} : DevicesOf(q)' = DevicesOf(q))
    BY <1>7, <1>10, <1>11, <1>16, <1>18, DirectChange
  <2> QED
    BY <2>1 DEF RefsInv, RefIs
<1>20. DevicesOf(p)' = {} <=> \A e \in Devices : dpll_refs'[p][e].cnt = 0
  BY <1>19 DEF DevicesOf, Ref
<1>21. MarkInv'
  BY <1>1, <1>8, <1>10, <1>19, <1>20 DEF MarkInv
<1> QED
  BY <1>11, <1>16, <1>19, <1>21

\* The references of one child change.
ChildChange(p) ==
  /\ \A q \in AllPins, e \in Devices : q # p => dpll_refs'[q][e] = dpll_refs[q][e]
  /\ \A e \in Devices : RefIs(dpll_refs'[p][e], ChildOf(e, p)')
  /\ parent_refs' \in [AllPins -> [Pins -> Ref]]
  /\ \A q \in AllPins, r \in Pins : q # p => parent_refs'[q][r] = parent_refs[q][r]
  /\ \A r \in Pins : RefIs(parent_refs'[p][r], ParentOf(p, r)')
  /\ \A x \in Owners : own'[x].pinReg = own[x].pinReg
  /\ \A x \in Owners, r \in Pins, c \in Children :
       c # p => (<<r, c>> \in own'[x].onPin <=> <<r, c>> \in own[x].onPin)

\* A change of one child leaves the references of every other pin as they should be.
LEMMA ChildChanges ==
  ASSUME AliveInv, NEW p \in Children, ChildChange(p)
  PROVE  RefsInv' /\ \A q \in AllPins : q # p => DevicesOf(q)' = DevicesOf(q)
<1>1. RefsInv /\ p \notin Pins
  BY DpllCoreAssumption DEF AliveInv, DpllCoreAssumption
<1>2. \A q \in AllPins, e \in Devices : q # p => dpll_refs'[q][e] = dpll_refs[q][e]
  BY DEF ChildChange
<1>3. \A q \in Pins : q \in AllPins /\ q # p
  BY <1>1 DEF AllPins
<1>4. \A c \in Children : c \in AllPins
  BY DEF AllPins
<1>5. \A e, q : DirectOf(e, q)' = DirectOf(e, q)
  BY DEF DirectOf, ChildChange
<1>6. ASSUME NEW e \in Devices, NEW c \in Children, c # p PROVE ChildOf(e, c)' = ChildOf(e, c)
  <2>1. ChildHolds(c)' = ChildHolds(c)
    BY <1>6 DEF ChildHolds, ChildChange
  <2>2. \A y \in ChildHolds(c) : dpll_refs'[y[2]][e] = dpll_refs[y[2]][e]
    BY <1>2, <1>3 DEF ChildHolds
  <2> QED
    BY <2>1, <2>2 DEF ChildOf
<1>7. \A c \in Children, r \in Pins : c # p => ParentOf(c, r)' = ParentOf(c, r)
  BY DEF ParentOf, ChildChange
<1>8. \A e \in Devices, q \in Pins : RefIs(dpll_refs'[q][e], DirectOf(e, q)')
  BY <1>1, <1>2, <1>3, <1>5 DEF RefsInv
<1>9. \A e \in Devices, c \in Children : RefIs(dpll_refs'[c][e], ChildOf(e, c)')
  <2>1. \A e \in Devices : RefIs(dpll_refs'[p][e], ChildOf(e, p)')
    BY DEF ChildChange
  <2>2. \A e \in Devices, c \in Children : c # p => RefIs(dpll_refs'[c][e], ChildOf(e, c)')
    BY <1>1, <1>2, <1>4, <1>6 DEF RefsInv
  <2> QED
    BY <2>1, <2>2
<1>10. \A c \in Children, r \in Pins : RefIs(parent_refs'[c][r], ParentOf(c, r)')
  <2>1. \A r \in Pins : RefIs(parent_refs'[p][r], ParentOf(p, r)')
    BY DEF ChildChange
  <2>2. \A c \in Children, r \in Pins : c # p => parent_refs'[c][r] = parent_refs[c][r]
    BY <1>4 DEF ChildChange
  <2>3. \A c \in Children, r \in Pins : c # p => RefIs(parent_refs'[c][r], ParentOf(c, r)')
    BY <1>1, <1>7, <2>2 DEF RefsInv
  <2> QED
    BY <2>1, <2>3
<1>11. parent_refs' \in [AllPins -> [Pins -> Ref]] /\ \A q, r \in Pins : parent_refs'[q][r] = NoRef
  BY <1>1, <1>3 DEF RefsInv, ChildChange
<1>12. RefsInv'
  BY <1>8, <1>9, <1>10, <1>11 DEF RefsInv
<1>13. \A q \in AllPins : q # p => DevicesOf(q)' = DevicesOf(q)
  BY <1>2 DEF DevicesOf
<1> QED
  BY <1>12, <1>13

\* dpll_pin_on_pin_register and dpll_pin_on_pin_unregister change one owner's record.
LEMMA OnPinOwn ==
  ASSUME AliveInv, NEW o \in Owners, NEW parent \in Pins, NEW p \in Children,
         PinOnPinRegister(o, parent, p) \/ PinOnPinUnregister(o, parent, p)
  PROVE  /\ OwnInv' /\ DevInv'
         /\ \A x \in Owners : own'[x].pinReg = own[x].pinReg
         /\ \A x \in Owners \ {o} : own'[x].onPin = own[x].onPin
         /\ PinOnPinRegister(o, parent, p) => own'[o].onPin = own[o].onPin \cup {<<parent, p>>}
         /\ ~PinOnPinRegister(o, parent, p) => own'[o].onPin = own[o].onPin \ {<<parent, p>>}
<1>1. OwnOK /\ own[o] \in Holding /\ OwnInv /\ DevInv
  BY OwnSteps DEF AliveInv, HoldInv
<1> DEFINE R == PinOnPinRegister(o, parent, p)
<1>2. PICK S \in SUBSET (Pins \X Children) :
        /\ own' = [own EXCEPT ![o] = [own[o] EXCEPT !.onPin = S]]
        /\ R => S = own[o].onPin \cup {<<parent, p>>}
        /\ ~R => S = own[o].onPin \ {<<parent, p>>}
  <2>1. /\ own[o].onPin \cup {<<parent, p>>} \in SUBSET (Pins \X Children)
        /\ own[o].onPin \ {<<parent, p>>} \in SUBSET (Pins \X Children)
    BY <1>1 DEF Holding
  <2>2. /\ R => own' = [own EXCEPT ![o] = [own[o] EXCEPT !.onPin = own[o].onPin \cup {<<parent, p>>}]]
        /\ ~R => own' = [own EXCEPT ![o] = [own[o] EXCEPT !.onPin = own[o].onPin \ {<<parent, p>>}]]
    BY <1>1, OwnBecomes
  <2> HIDE DEF R
  <2>3. CASE R
    BY <2>1, <2>2, <2>3
  <2>4. CASE ~R
    BY <2>1, <2>2, <2>4
  <2> QED
    BY <2>3, <2>4
<1> HIDE DEF R
<1>3. \A x \in Owners : /\ own'[x].onPin = IF x = o THEN S ELSE own[x].onPin
                        /\ own'[x].dev = own[x].dev /\ own'[x].devReg = own[x].devReg
                        /\ own'[x].pin = own[x].pin /\ own'[x].pinReg = own[x].pinReg
  <2>1. own' = [own EXCEPT ![o] = [own[o] EXCEPT !.onPin = S]]
    BY <1>2
  <2> QED
    BY <1>1, <2>1, OnPinChanges
<1>4. UNCHANGED <<devRegs, devMark, told>>
  BY DEF PinOnPinRegister, PinOnPinUnregister
<1>5. OwnInv'
  BY <1>1, <1>3 DEF OwnInv
<1>6. DevInv'
  BY <1>1, <1>3, <1>4 DEF DevInv
<1> QED
  BY <1>2, <1>3, <1>5, <1>6 DEF R

\* dpll_pin_on_pin_register: the child takes on the parent's devices.
LEMMA AliveOnPin ==
  ASSUME AliveInv, NEW o \in Owners, NEW parent \in Pins, NEW p \in Children,
         PinOnPinRegister(o, parent, p)
  PROVE  RefsInv' /\ OwnInv' /\ DevInv' /\ MarkInv' /\ warned' = FALSE
<1> DEFINE reg == ChildReg(o, parent)
           ds == DevicesOf(parent)
<1>1. /\ RefsInv /\ MarkInv /\ warned = FALSE /\ p \in AllPins /\ parent \in AllPins /\ parent # p
      /\ dpll_refs \in [AllPins -> [Devices -> Ref]] /\ parent_refs \in [AllPins -> [Pins -> Ref]]
  BY DpllCoreAssumption DEF AliveInv, IInv, TablesOK, AllPins, RefsInv, DpllCoreAssumption
<1>2. /\ <<parent, p>> \notin own[o].onPin /\ warned' = warned
      /\ parent_refs' = [parent_refs EXCEPT ![p][parent] = RefAdd(@, ChildReg(o, p))]
      /\ dpll_refs' = [dpll_refs EXCEPT ![p] = [d \in Devices |->
                         IF d \in ds THEN RefAdd(@[d], reg) ELSE @[d]]]
      /\ pinMark' = IF ds # {} THEN pinMark \cup {p} ELSE pinMark
  BY DEF PinOnPinRegister, CanRegisterOnPin, AddToDevices
<1>3. /\ \A q \in AllPins, e \in Devices : q # p => dpll_refs'[q][e] = dpll_refs[q][e]
      /\ \A e \in Devices : dpll_refs'[p][e] = IF e \in ds THEN RefAdd(dpll_refs[p][e], reg)
                                                           ELSE dpll_refs[p][e]
  BY <1>1, <1>2
<1>4. /\ \A x \in Owners : own'[x].pinReg = own[x].pinReg
      /\ \A x \in Owners \ {o} : own'[x].onPin = own[x].onPin
      /\ own'[o].onPin = own[o].onPin \cup {<<parent, p>>}
      /\ OwnInv' /\ DevInv'
  BY OnPinOwn
<1>5. ChildHolds(p)' = ChildHolds(p) \cup {<<o, parent>>} /\ <<o, parent>> \notin ChildHolds(p)
  BY <1>2, <1>4 DEF ChildHolds
<1>6. reg \in Registration /\ ChildReg(o, p) \in Registration
  BY <1>1, RegistrationType
<1>7. ASSUME NEW e \in Devices
      PROVE  RefIs(dpll_refs'[p][e], ChildOf(e, p)')
  <2> DEFINE A == {y \in ChildHolds(p) : dpll_refs[y[2]][e].cnt > 0}
             B == {y \in ChildHolds(p)' : dpll_refs'[y[2]][e].cnt > 0}
  <2>1. \A y \in ChildHolds(p)' : dpll_refs'[y[2]][e] = dpll_refs[y[2]][e]
    <3>1. \A y \in ChildHolds(p)' : y[2] \in Pins
      BY DEF ChildHolds
    <3>2. p \notin Pins
      BY DpllCoreAssumption DEF DpllCoreAssumption
    <3> QED
      BY <1>3, <3>1, <3>2 DEF AllPins
  <2>2. e \in ds <=> dpll_refs[parent][e].cnt > 0
    BY DEF DevicesOf
  <2>3. B = IF e \in ds THEN A \cup {<<o, parent>>} ELSE A
    <3>1. <<o, parent>>[2] = parent
      OBVIOUS
    <3>2. \A y : y \in B <=> y \in ChildHolds(p)' /\ dpll_refs[y[2]][e].cnt > 0
      BY <2>1
    <3>3. \A y : y \in A <=> y \in ChildHolds(p) /\ dpll_refs[y[2]][e].cnt > 0
      OBVIOUS
    <3>4. \A y : y \in ChildHolds(p)' <=> y \in ChildHolds(p) \/ y = <<o, parent>>
      BY <1>5
    <3>5. dpll_refs[<<o, parent>>[2]][e].cnt > 0 <=> e \in ds
      BY <2>2, <3>1
    <3> HIDE DEF A, B, ds
    <3>6. \A y : y \in B <=> y \in A \/ (e \in ds /\ y = <<o, parent>>)
      BY <3>2, <3>3, <3>4, <3>5, Zenon
    <3>7. CASE e \in ds
      BY <3>6, <3>7
    <3>8. CASE e \notin ds
      BY <3>6, <3>8
    <3> QED
      BY <3>7, <3>8
  <2>4. /\ ChildOf(e, p) = {ChildReg(x[1], x[2]) : x \in A}
        /\ ChildOf(e, p)' = {ChildReg(x[1], x[2]) : x \in B}
    BY DEF ChildOf, ChildReg
  <2>5. \A x \in Owners, q \in Pins : ChildReg(x, q) = reg => x = o /\ q = parent
    BY DEF ChildReg
  <2>6. reg \notin ChildOf(e, p)
    <3>1. \A y \in A : y[1] \in Owners /\ y[2] \in Pins /\ y # <<o, parent>> /\ y = <<y[1], y[2]>>
      BY <1>5 DEF ChildHolds
    <3> QED
      BY <2>4, <2>5, <3>1
  <2>7. ChildOf(e, p)' = IF e \in ds THEN ChildOf(e, p) \cup {reg} ELSE ChildOf(e, p)
    <3>1. ChildReg(<<o, parent>>[1], <<o, parent>>[2]) = reg
      OBVIOUS
    <3> HIDE DEF A, B, reg, ds
    <3> QED
      BY <2>3, <2>4, <3>1
  <2>8. RefIs(dpll_refs[p][e], ChildOf(e, p))
    BY <1>1 DEF RefsInv
  <2>9. RefIs(RefAdd(dpll_refs[p][e], reg), ChildOf(e, p) \cup {reg})
    BY <1>6, <2>6, <2>8, RefIsAdd
  <2> HIDE DEF reg, ds
  <2> QED
    BY <1>3, <2>7, <2>8, <2>9
<1>8. /\ \A q \in AllPins, r \in Pins : q # p => parent_refs'[q][r] = parent_refs[q][r]
      /\ \A r \in Pins : parent_refs'[p][r] =
           IF r = parent THEN RefAdd(parent_refs[p][parent], ChildReg(o, p)) ELSE parent_refs[p][r]
  BY <1>1, <1>2
<1>9. RefIs(RefAdd(parent_refs[p][parent], ChildReg(o, p)), ParentOf(p, parent) \cup {ChildReg(o, p)})
  <2>1. RefIs(parent_refs[p][parent], ParentOf(p, parent))
    BY <1>1 DEF RefsInv
  <2>2. ChildReg(o, p) \notin ParentOf(p, parent)
    BY <1>2 DEF ParentOf, ChildReg
  <2> QED
    BY <1>6, <2>1, <2>2, RefIsAdd
<1>10. ParentOf(p, parent)' = ParentOf(p, parent) \cup {ChildReg(o, p)}
  <2>1. {x \in Owners : <<parent, p>> \in own'[x].onPin}
          = {x \in Owners : <<parent, p>> \in own[x].onPin} \cup {o}
    BY <1>4
  <2> QED
    BY <2>1 DEF ParentOf, ChildReg
<1>11. \A r \in Pins : r # parent => ParentOf(p, r)' = ParentOf(p, r)
  <2>1. \A r \in Pins : r # parent =>
          {x \in Owners : <<r, p>> \in own'[x].onPin} = {x \in Owners : <<r, p>> \in own[x].onPin}
    BY <1>4
  <2> QED
    BY <2>1 DEF ParentOf, ChildReg
<1>12. ASSUME NEW r \in Pins PROVE RefIs(parent_refs'[p][r], ParentOf(p, r)')
  <2>1. CASE r = parent
    BY <1>8, <1>9, <1>10, <2>1
  <2>2. CASE r # parent
    BY <1>1, <1>8, <1>11, <2>2 DEF RefsInv
  <2> QED
    BY <2>1, <2>2
<1>13. parent_refs' \in [AllPins -> [Pins -> Ref]]
  <2>1. RefAdd(parent_refs[p][parent], ChildReg(o, p)) \in Ref
    BY <1>9, RefIsFacts
  <2> QED
    BY <1>1, <1>2, <2>1
<1>14. ChildChange(p)
  BY <1>3, <1>4, <1>7, <1>8, <1>12, <1>13 DEF ChildChange
<1>15. RefsInv' /\ \A q \in AllPins : q # p => DevicesOf(q)' = DevicesOf(q)
  BY <1>14, ChildChanges
<1>16. DevicesOf(p)' = DevicesOf(p) \cup ds
  <2>1. \A e \in Devices : dpll_refs[p][e].cnt \in Nat /\ RefAdd(dpll_refs[p][e], reg).cnt > 0
    BY <1>1 DEF Ref, RefAdd
  <2>2. ds \subseteq Devices
    BY DEF DevicesOf
  <2> HIDE DEF ds, reg
  <2> QED
    BY <1>3, <2>1, <2>2 DEF DevicesOf
<1> HIDE DEF ds
<1>17. MarkInv'
  BY <1>1, <1>2, <1>15, <1>16 DEF MarkInv
<1> QED
  BY <1>1, <1>2, <1>4, <1>15, <1>17

\* dpll_pin_on_pin_unregister: all the child's devices are its parent's.
LEMMA AliveOffPin ==
  ASSUME AliveInv, OneParent, NEW o \in Owners, NEW parent \in Pins, NEW p \in Children,
         PinOnPinUnregister(o, parent, p)
  PROVE  RefsInv' /\ OwnInv' /\ DevInv' /\ MarkInv' /\ warned' = FALSE
<1> DEFINE reg == ChildReg(o, parent)
           ds == DevicesOf(p)
<1>1. /\ RefsInv /\ MarkInv /\ warned = FALSE /\ p \in AllPins /\ parent \in AllPins /\ parent # p
      /\ dpll_refs \in [AllPins -> [Devices -> Ref]] /\ parent_refs \in [AllPins -> [Pins -> Ref]]
  BY DpllCoreAssumption DEF AliveInv, IInv, TablesOK, AllPins, RefsInv, DpllCoreAssumption
<1>2. /\ <<parent, p>> \in own[o].onPin
      /\ parent_refs' = [parent_refs EXCEPT ![p][parent] = RefDel(@, ChildReg(o, p))]
      /\ dpll_refs' = [dpll_refs EXCEPT ![p] = [d \in Devices |->
                         IF d \in ds THEN RefDel(@[d], reg) ELSE @[d]]]
      /\ pinMark' = IF ds # {} /\ \A e \in Devices : dpll_refs'[p][e].cnt = 0
                    THEN pinMark \ {p} ELSE pinMark
      /\ warned' = (\/ warned
                    \/ RefDelWarns(parent_refs[p][parent], ChildReg(o, p))
                    \/ \E d \in ds : p \notin pinMark \/ RefDelWarns(dpll_refs[p][d], reg))
  BY DEF PinOnPinUnregister, DelFromDevices
<1>3. /\ \A q \in AllPins, e \in Devices : q # p => dpll_refs'[q][e] = dpll_refs[q][e]
      /\ \A e \in Devices : dpll_refs'[p][e] = IF e \in ds THEN RefDel(dpll_refs[p][e], reg)
                                                           ELSE dpll_refs[p][e]
  BY <1>1, <1>2
<1>4. /\ \A x \in Owners : own'[x].pinReg = own[x].pinReg
      /\ \A x \in Owners \ {o} : own'[x].onPin = own[x].onPin
      /\ own'[o].onPin = own[o].onPin \ {<<parent, p>>}
      /\ OwnInv' /\ DevInv'
  <2>1. ~PinOnPinRegister(o, parent, p)
    BY <1>2 DEF PinOnPinRegister, CanRegisterOnPin
  <2> QED
    BY <2>1, OnPinOwn
<1>5. ChildHolds(p)' = ChildHolds(p) \ {<<o, parent>>} /\ <<o, parent>> \in ChildHolds(p)
  BY <1>2, <1>4 DEF ChildHolds
<1>6. \A y \in ChildHolds(p) : y[1] \in Owners /\ y[2] = parent /\ y = <<y[1], y[2]>>
  BY <1>2 DEF ChildHolds, OneParent
<1>7. ASSUME NEW e \in Devices
      PROVE  /\ RefIs(dpll_refs'[p][e], ChildOf(e, p)')
             /\ e \in ds => ~RefDelWarns(dpll_refs[p][e], reg)
  <2> DEFINE A == {y \in ChildHolds(p) : dpll_refs[y[2]][e].cnt > 0}
             B == {y \in ChildHolds(p)' : dpll_refs'[y[2]][e].cnt > 0}
  <2>1. B = A \ {<<o, parent>>}
    <3>1. \A y \in ChildHolds(p) : dpll_refs'[y[2]][e] = dpll_refs[y[2]][e]
      BY <1>1, <1>3, <1>6
    <3> QED
      BY <1>5, <3>1
  <2>2. /\ ChildOf(e, p) = {ChildReg(x[1], x[2]) : x \in A}
        /\ ChildOf(e, p)' = {ChildReg(x[1], x[2]) : x \in B}
    BY DEF ChildOf, ChildReg
  <2>3. \A x \in Owners : ChildReg(x, parent) = reg => x = o
    BY DEF ChildReg
  <2>4. \A y \in A : y[1] \in Owners /\ y[2] = parent /\ y = <<y[1], y[2]>>
    BY <1>6
  <2>5. RefIs(dpll_refs[p][e], ChildOf(e, p))
    BY <1>1 DEF RefsInv
  <2>6. e \in ds <=> ChildOf(e, p) # {}
    BY <2>5, RefIsFacts DEF DevicesOf
  <2>7. \A y : y \in A <=> y \in ChildHolds(p) /\ dpll_refs[parent][e].cnt > 0
    BY <1>6
  <2>8. e \in ds => <<o, parent>> \in A
    <3> HIDE DEF A, ds
    <3> QED
      BY <1>5, <2>2, <2>6, <2>7
  <2>9. ~(e \in ds) => A = {}
    <3> HIDE DEF A, ds
    <3> QED
      BY <2>2, <2>6
  <2>10. ChildReg(<<o, parent>>[1], <<o, parent>>[2]) = reg
    OBVIOUS
  <2> HIDE DEF A, B, ds, reg
  <2>11. ChildOf(e, p)' = ChildOf(e, p) \ {reg}
    <3>1. \A y \in A : ChildReg(y[1], y[2]) = reg <=> y = <<o, parent>>
      BY <2>3, <2>4, <2>10
    <3> QED
      BY <2>1, <2>2, <3>1
  <2>12. CASE e \in ds
    <3>1. reg \in ChildOf(e, p)
      BY <2>2, <2>8, <2>10, <2>12
    <3>2. RefIs(RefDel(dpll_refs[p][e], reg), ChildOf(e, p) \ {reg}) /\ ~RefDelWarns(dpll_refs[p][e], reg)
      BY <2>5, <3>1, RefIsDel
    <3> QED
      BY <1>3, <2>11, <2>12, <3>2
  <2>13. CASE ~(e \in ds)
    <3>1. ChildOf(e, p)' = ChildOf(e, p)
      BY <2>6, <2>11, <2>13
    <3> QED
      BY <1>3, <2>5, <2>13, <3>1
  <2> QED
    BY <2>12, <2>13
<1>8. /\ \A q \in AllPins, r \in Pins : q # p => parent_refs'[q][r] = parent_refs[q][r]
      /\ \A r \in Pins : parent_refs'[p][r] =
           IF r = parent THEN RefDel(parent_refs[p][parent], ChildReg(o, p)) ELSE parent_refs[p][r]
  BY <1>1, <1>2
<1>9. /\ RefIs(RefDel(parent_refs[p][parent], ChildReg(o, p)), ParentOf(p, parent) \ {ChildReg(o, p)})
      /\ ~RefDelWarns(parent_refs[p][parent], ChildReg(o, p))
  <2>1. RefIs(parent_refs[p][parent], ParentOf(p, parent))
    BY <1>1 DEF RefsInv
  <2>2. ChildReg(o, p) \in ParentOf(p, parent)
    BY <1>2 DEF ParentOf
  <2> QED
    BY <2>1, <2>2, RefIsDel
<1>10. ParentOf(p, parent)' = ParentOf(p, parent) \ {ChildReg(o, p)}
  <2> DEFINE V == {x \in Owners : <<parent, p>> \in own[x].onPin}
             W == {x \in Owners : <<parent, p>> \in own'[x].onPin}
  <2>1. W = V \ {o} /\ V \subseteq Owners
    BY <1>4
  <2>2. \A x \in Owners : ChildReg(x, p) = ChildReg(o, p) => x = o
    BY DEF ChildReg
  <2>3. ParentOf(p, parent) = {ChildReg(x, p) : x \in V} /\ ParentOf(p, parent)' = {ChildReg(x, p) : x \in W}
    BY DEF ParentOf, ChildReg
  <2> HIDE DEF V, W
  <2> QED
    BY <2>1, <2>2, <2>3
<1>11. \A r \in Pins : r # parent => ParentOf(p, r)' = ParentOf(p, r)
  <2>1. \A r \in Pins : r # parent =>
          {x \in Owners : <<r, p>> \in own'[x].onPin} = {x \in Owners : <<r, p>> \in own[x].onPin}
    BY <1>4
  <2> QED
    BY <2>1 DEF ParentOf, ChildReg
<1>12. ASSUME NEW r \in Pins PROVE RefIs(parent_refs'[p][r], ParentOf(p, r)')
  <2>1. CASE r = parent
    BY <1>8, <1>9, <1>10, <2>1
  <2>2. CASE r # parent
    BY <1>1, <1>8, <1>11, <2>2 DEF RefsInv
  <2> QED
    BY <2>1, <2>2
<1>13. parent_refs' \in [AllPins -> [Pins -> Ref]]
  <2>1. RefDel(parent_refs[p][parent], ChildReg(o, p)) \in Ref
    BY <1>9, RefIsFacts
  <2> QED
    BY <1>1, <1>2, <2>1
<1>14. ChildChange(p)
  BY <1>3, <1>4, <1>7, <1>8, <1>12, <1>13 DEF ChildChange
<1>15. RefsInv' /\ \A q \in AllPins : q # p => DevicesOf(q)' = DevicesOf(q)
  BY <1>14, ChildChanges
<1>16. DevicesOf(p)' = {} <=> \A e \in Devices : dpll_refs'[p][e].cnt = 0
  <2>1. \A e \in Devices : dpll_refs'[p][e] \in Ref
    BY <1>7, RefIsFacts
  <2> QED
    BY <2>1 DEF DevicesOf, Ref
<1>17. p \in pinMark <=> ds # {}
  BY <1>1 DEF MarkInv
<1>18. ds = {} => DevicesOf(p)' = {}
  <2> HIDE DEF reg
  <2>1. \A e \in Devices : e \notin ds => ~(dpll_refs[p][e].cnt > 0)
    BY DEF DevicesOf
  <2> HIDE DEF ds
  <2> QED
    BY <1>3, <2>1 DEF DevicesOf
<1> HIDE DEF ds, reg
<1>19. MarkInv'
  BY <1>1, <1>2, <1>15, <1>16, <1>17, <1>18 DEF MarkInv
<1>20. warned' = FALSE
  <2>1. ds \subseteq Devices
    BY DEF ds, DevicesOf
  <2> QED
    BY <1>1, <1>2, <1>7, <1>9, <1>17, <2>1
<1> QED
  BY <1>4, <1>15, <1>19, <1>20

\* Every call of an owner keeps the invariant.
LEMMA AliveStep ==
  ASSUME Orderly, AliveInv, OneParent, [Next]_vars
  PROVE  AliveInv'
<1>1. IInv' /\ HoldInv'
  BY RefsStep, HoldStep DEF AliveInv, Orderly
<1>2. CASE UNCHANGED vars
  <2>1. \A x \in Owners : own'[x].onPin = own[x].onPin /\ own'[x].pinReg = own[x].pinReg
    BY <1>2 DEF vars
  <2>2. UNCHANGED <<dpll_refs, parent_refs, pinMark, own, devRegs, devMark, told, warned>>
    BY <1>2 DEF vars, objects, refs
  <2>3. RefsInv' /\ \A p : DevicesOf(p)' = DevicesOf(p)
    BY <2>1, <2>2, SameRefs DEF AliveInv
  <2>4. OwnInv' /\ DevInv' /\ MarkInv'
    BY <2>2, <2>3 DEF AliveInv, OwnInv, DevInv, MarkInv
  <2> QED
    BY <1>1, <2>2, <2>3, <2>4 DEF AliveInv
<1>3. ASSUME NEW o \in Owners, NEW d \in Devices,
             DeviceGet(o, d) \/ DevicePut(o, d) \/ DeviceRegister(o, d) \/ DeviceUnregister(o, d)
      PROVE  AliveInv'
  BY <1>1, <1>3, AliveDevices DEF AliveInv
<1>4. ASSUME NEW o \in Owners, NEW p \in AllPins, PinGet(o, p) \/ PinPut(o, p)
      PROVE  AliveInv'
  BY <1>1, <1>4, AlivePins DEF AliveInv
<1>5. ASSUME NEW o \in Owners, NEW d \in Devices, NEW p \in Pins,
             PinRegister(o, d, p) \/ PinUnregister(o, d, p)
      PROVE  AliveInv'
  BY <1>1, <1>5, AliveRegister, AliveUnregister DEF AliveInv
<1>6. ASSUME NEW o \in Owners, NEW parent \in Pins, NEW p \in Children,
             PinOnPinRegister(o, parent, p) \/ PinOnPinUnregister(o, parent, p)
      PROVE  AliveInv'
  BY <1>1, <1>6, AliveOnPin, AliveOffPin DEF AliveInv
<1>7. ASSUME NEW o \in Owners,
             \/ \E d \in Devices, p \in Pins : PinRegisterFail(o, d, p)
             \/ \E parent \in Pins, p \in Children : PinOnPinRegisterFail(o, parent, p)
      PROVE  AliveInv'
  BY <1>2, <1>7, FailsChangeNothing
<1> QED
  BY <1>2, <1>3, <1>4, <1>5, <1>6, <1>7 DEF Next

\* At first nothing is allocated, registered or marked.
LEMMA AliveInit == ASSUME Init PROVE AliveInv
<1>1. HoldInv
  BY HoldInit
<1>2. IInv
  BY DEF Init, IInv, TablesOK, NoneIsEmpty, RefsAgree, NoRef, Ref
<1>3. /\ devRegs = [d \in Devices |-> <<>>] /\ devMark = {} /\ pinMark = {} /\ told = {}
      /\ warned = FALSE
      /\ dpll_refs = [p \in AllPins |-> [d \in Devices |-> NoRef]]
      /\ parent_refs = [p \in AllPins |-> [q \in Pins |-> NoRef]]
      /\ own = [o \in Owners |-> [dev |-> {}, devReg |-> {}, pin |-> {}, onPin |-> {},
                                  pinReg |-> [dp \in Devices \X AllPins |-> 0]]]
  BY DEF Init
<1>4. \A p \in Pins : p \in AllPins
  BY DEF AllPins
<1>5. /\ \A o \in Owners : own[o].devReg = {} /\ own[o].onPin = {} /\ own[o].dev = {}
      /\ \A o \in Owners, d \in Devices, p \in Pins : own[o].pinReg[<<d, p>>] = 0
  BY <1>3, <1>4
<1>6. RefIs(NoRef, {})
  BY DEF RefIs, NoRef, Ref, Entries, Distinct
<1>7. \A p \in AllPins, d \in Devices : dpll_refs[p][d] = NoRef
  BY <1>3
<1>8. ASSUME NEW d \in Devices, NEW p \in Pins PROVE DirectOf(d, p) = {}
  <2>1. \A o \in Owners : ~(own[o].pinReg[<<d, p>>] > 0)
    BY <1>5
  <2> QED
    BY <2>1 DEF DirectOf
<1>9. \A d \in Devices, c \in Children : ChildOf(d, c) = {}
  BY <1>5 DEF ChildOf, ChildHolds
<1>10. \A c \in Children, q \in Pins : ParentOf(c, q) = {}
  BY <1>5 DEF ParentOf
<1>11. \A c \in AllPins, q \in Pins : parent_refs[c][q] = NoRef
  BY <1>3
<1>12. parent_refs \in [AllPins -> [Pins -> Ref]]
  BY <1>3, <1>6 DEF RefIs
<1>13. RefsInv
  <2>1. \A c \in Children : c \in AllPins
    BY DEF AllPins
  <2> QED
    BY <1>4, <1>6, <1>7, <1>8, <1>9, <1>10, <1>11, <1>12, <2>1 DEF RefsInv
<1>14. OwnInv
  BY <1>5 DEF OwnInv
<1>15. DevInv
  <2>1. Distinct(<<>>) /\ Entries(<<>>) = {}
    BY DEF Distinct, Entries
  <2> QED
    BY <1>3, <1>5, <2>1 DEF DevInv
<1>16. MarkInv
  BY <1>3, <1>7 DEF MarkInv, DevicesOf, NoRef
<1> QED
  BY <1>1, <1>2, <1>3, <1>13, <1>14, <1>15, <1>16 DEF AliveInv

\* What user space is served exists: the invariant gives the property.
LEMMA AliveServed == ASSUME AliveInv PROVE ServedIsAlive
<1>1. RefsInv /\ OwnInv /\ DevInv /\ MarkInv /\ HoldInv /\ warned = FALSE
  BY DEF AliveInv
<1>2. ASSUME NEW d \in devMark
      PROVE  devRegs[d] # <<>> /\ devRefs[d] > 0 /\ d \in own[devRegs[d][1]].devReg
  <2>1. d \in Devices /\ devRegs[d] # <<>> /\ devRegs[d] \in Seq(Owners)
    BY <1>1 DEF DevInv
  <2>2. 1 \in 1..Len(devRegs[d])
    BY <2>1
  <2>3. devRegs[d][1] \in Entries(devRegs[d])
    BY <2>2 DEF Entries
  <2>4. devRegs[d][1] \in Owners /\ d \in own[devRegs[d][1]].devReg
    BY <1>1, <2>1, <2>3 DEF DevInv
  <2>5. devRegs[d][1] \in Holders(d)
    BY <1>1, <2>4 DEF OwnInv, Holders
  <2>6. devRefs[d] = Cardinality(Holders(d)) /\ IsFiniteSet(Holders(d)) /\ Cardinality(Holders(d)) \in Nat
    BY <1>1, <2>1, CountsAre, Counting DEF HoldInv
  <2>7. Cardinality(Holders(d)) # 0
    BY <2>5, <2>6, FS_EmptySet
  <2> QED
    BY <2>1, <2>4, <2>6, <2>7
<1>3. ASSUME NEW p \in pinMark PROVE DevicesOf(p) # {} /\ pinRefs[p] > 0
  <2>1. p \in AllPins /\ DevicesOf(p) # {}
    BY <1>1 DEF MarkInv
  <2>2. PICK d \in Devices : dpll_refs[p][d].cnt > 0
    BY <2>1 DEF DevicesOf
  <2>3. PICK o \in Owners : p \in own[o].pin
    BY <1>1, <2>1, <2>2, DeviceOfPin
  <2> QED
    BY <1>1, <2>1, <2>3, PinCounts
<1>4. (\A d \in Devices : devRegs[d] # <<>> => d \in devMark) /\ told \subseteq devMark
  BY <1>1 DEF DevInv
<1> QED
  BY <1>1, <1>2, <1>3, <1>4 DEF ServedIsAlive

\* For any number of owners, devices, pins and children, and whichever allocation
\* fails: as long as the owners register a pin with a device once each, give a parent
\* its devices before its children, and put a child on one parent at a time, user
\* space reaches only devices and pins that are alive, and no WARN_ON fires.
THEOREM ServedStaysAlive == Orderly => (Spec /\ []OneParent => []ServedIsAlive)
<1> SUFFICES ASSUME Orderly PROVE Spec /\ []OneParent => []ServedIsAlive
  OBVIOUS
<1>1. AliveInv /\ OneParent /\ [Next]_vars => AliveInv'
  BY AliveStep
<1>2. AliveInv => ServedIsAlive
  BY AliveServed
<1>3. Init => AliveInv
  BY AliveInit
<1> QED
  BY <1>1, <1>2, <1>3, PTL DEF Spec

-----------------------------------------------------------------------------
(* The netlink side, dpll_netlink.c. *)

\* Requests and dumps change none of the objects: every theorem about Spec is one
\* about NlSpec.
THEOREM CoreUnderneath == NlSpec => Spec
<1>1. NlInit => Init
  BY DEF NlInit
<1>2. [NlNext]_<<vars, nlVars>> => [Next]_vars
  BY DEF NlNext, CoreStep, DumpStart, DumpMessage, DumpFails, SetOnAll
<1> QED
  BY <1>1, <1>2, PTL DEF NlSpec, Spec

-----------------------------------------------------------------------------
(* The object with the least id. *)

\* A set of natural numbers that is not empty has a least element.
LEMMA LeastNatural ==
  ASSUME NEW T \in SUBSET Nat, T # {}
  PROVE  \E x \in T : \A y \in T : x <= y
<1> DEFINE R == OpToRel(<, Nat)
<1>1. IsWellFoundedOn(R, Nat)
  BY NatLessThanWellFounded
<1>2. \A x, y \in Nat : <<y, x>> \in R <=> y < x
  BY DEF OpToRel
<1> HIDE DEF R
<1>3. PICK x \in T : \A y \in T : ~ (<<y, x>> \in R)
  BY <1>1, WFMin
<1>4. \A y \in T : y \in Nat
  OBVIOUS
<1>5. \A y \in T : ~(y < x)
  BY <1>2, <1>3, <1>4, Zenon
<1>6. \A y \in T : x <= y
  BY <1>4, <1>5
<1> QED
  BY <1>6

\* ById picks an object whose id is not above any other's.
LEMMA ByIdIs ==
  ASSUME NEW S \in SUBSET (Devices \cup AllPins), S # {}
  PROVE  ById(S) \in S /\ \A y \in S : ObjId[ById(S)] <= ObjId[y]
<1> DEFINE T == {ObjId[y] : y \in S}
<1>1. \A y \in S : ObjId[y] \in Nat
  BY DpllNetlinkAssumption DEF DpllNetlinkAssumption
<1>2. T \in SUBSET Nat /\ T # {}
  BY <1>1
<1>3. PICK n \in T : \A m \in T : n <= m
  BY <1>2, LeastNatural
<1>4. PICK x \in S : n = ObjId[x]
  BY <1>3
<1>5. \A y \in S : ObjId[x] <= ObjId[y]
  BY <1>3, <1>4
<1> QED
  BY <1>5 DEF ById

-----------------------------------------------------------------------------
(* The value of a pin on its devices. *)

\* A device that does not have the pin has no value of its own: the next
\* registration starts from the default.
ValuesInv ==
  /\ IInv
  /\ values \in [Settable -> [Devices -> Values]]
  /\ \A p \in Settable, d \in Devices : d \notin DevicesOf(p) => values[p][d] = Default
  /\ DevicesAgree

\* A pin whose value can be set is registered with devices directly.
LEMMA SettablePins == \A p \in Settable : p \in Pins /\ p \in AllPins
BY DpllNetlinkAssumption DEF DpllNetlinkAssumption, AllPins

\* A step of the owners: a device that takes on the pin gets the value the others have.
LEMMA ValuesCore ==
  ASSUME ValuesInv, CoreStep
  PROVE  ValuesInv'
<1>1. IInv /\ IInv' /\ broken' = broken
  BY RefsStep DEF ValuesInv, CoreStep
<1>2. \A p \in Settable, d \in Devices :
        values'[p][d] = IF dpll_refs'[p][d].cnt = 0 THEN Default
                        ELSE IF d \in DevicesOf(p) \/ DevicesOf(p) = {} THEN values[p][d]
                        ELSE values[p][ById(DevicesOf(p))]
  BY DEF CoreStep
<1>3. \A p \in Settable : DevicesOf(p) # {} => ById(DevicesOf(p)) \in DevicesOf(p)
  <2>1. \A p : DevicesOf(p) \in SUBSET (Devices \cup AllPins)
    BY DEF DevicesOf
  <2> QED
    BY <2>1, ByIdIs
<1>4. \A p : DevicesOf(p) \subseteq Devices
  BY DEF DevicesOf
<1>5. Default \in Values /\ values \in [Settable -> [Devices -> Values]]
  BY DpllNetlinkAssumption DEF DpllNetlinkAssumption, ValuesInv
<1>6. values' \in [Settable -> [Devices -> Values]]
  <2>1. \A p \in Settable, d \in Devices :
          (IF dpll_refs'[p][d].cnt = 0 THEN Default
           ELSE IF d \in DevicesOf(p) \/ DevicesOf(p) = {} THEN values[p][d]
           ELSE values[p][ById(DevicesOf(p))]) \in Values
    BY <1>3, <1>4, <1>5
  <2> QED
    BY <2>1 DEF CoreStep
<1>7. \A p \in Settable, d \in Devices :
        dpll_refs'[p][d].cnt = 0 <=> d \notin DevicesOf(p)'
  <2>1. \A p \in Settable, d \in Devices : dpll_refs'[p][d].cnt \in Nat
    BY <1>1, SettablePins DEF IInv, TablesOK, Ref
  <2> QED
    BY <2>1 DEF DevicesOf
<1>8. \A p \in Settable, d \in Devices : d \notin DevicesOf(p)' => values'[p][d] = Default
  BY <1>2, <1>7
<1>9. ASSUME ~broken, NEW p \in Settable
      PROVE  \A d, e \in DevicesOf(p)' : values'[p][d] = values'[p][e]
  <2> DEFINE v == IF DevicesOf(p) = {} THEN Default ELSE values[p][ById(DevicesOf(p))]
  <2>1. ASSUME NEW d \in DevicesOf(p)' PROVE values'[p][d] = v
    <3>1. d \in Devices /\ dpll_refs'[p][d].cnt # 0
      BY <1>7, <2>1 DEF DevicesOf
    <3>2. CASE DevicesOf(p) = {}
      BY <1>2, <3>1, <3>2 DEF ValuesInv
    <3>3. CASE DevicesOf(p) # {} /\ d \in DevicesOf(p)
      BY <1>2, <1>3, <1>9, <3>1, <3>3 DEF ValuesInv, DevicesAgree
    <3>4. CASE DevicesOf(p) # {} /\ d \notin DevicesOf(p)
      BY <1>2, <3>1, <3>4
    <3> QED
      BY <3>2, <3>3, <3>4
  <2> QED
    BY <2>1
<1>10. DevicesAgree'
  BY <1>1, <1>9 DEF DevicesAgree
<1> QED
  BY <1>1, <1>6, <1>8, <1>10 DEF ValuesInv

\* A set that succeeds, or fails and is rolled back.
LEMMA ValuesSet ==
  ASSUME ValuesInv, NEW p \in Settable, NEW v \in Values, SetOnAll(p, v)
  PROVE  ValuesInv'
<1> DEFINE ds == DevicesOf(p)
           old == values[p][ById(ds)]
           Until(f) == {d \in ds : ObjId[d] < ObjId[f]}
           With(S) == [d \in Devices |-> IF d \in S THEN v ELSE values[p][d]]
<1>1. /\ ~broken /\ ds # {} /\ UNCHANGED vars
      /\ \/ values' = [values EXCEPT ![p] = With(ds)] /\ UNCHANGED broken
         \/ \E failed \in ds : \E kept \in SUBSET Until(failed) :
              /\ values' = [values EXCEPT ![p] = Rollback(With(Until(failed)), Until(failed) \ kept, old)]
              /\ broken' = (broken \/ kept # {})
  BY DEF SetOnAll
<1>2. IInv' /\ \A q : DevicesOf(q)' = DevicesOf(q)
  BY <1>1 DEF ValuesInv, IInv, TablesOK, NoneIsEmpty, RefsAgree, DevicesOf, vars, refs
<1>3. ds \subseteq Devices /\ ById(ds) \in ds
  <2>1. ds \subseteq Devices
    BY DEF DevicesOf
  <2> QED
    BY <1>1, <2>1, ByIdIs
<1>4. values \in [Settable -> [Devices -> Values]] /\ old \in Values
  BY <1>3 DEF ValuesInv
<1>5. \A d \in ds : values[p][d] = old
  BY <1>1, <1>3 DEF ValuesInv, DevicesAgree
<1> HIDE DEF old
<1>6. PICK w \in [Devices -> Values] :
        /\ values' = [values EXCEPT ![p] = w]
        /\ \A d \in Devices \ ds : w[d] = values[p][d]
        /\ ~broken' => \E u \in Values : \A d \in ds : w[d] = u
  <2>1. CASE values' = [values EXCEPT ![p] = With(ds)]
    <3>1. With(ds) \in [Devices -> Values]
      BY <1>4
    <3>2. (\A d \in Devices \ ds : With(ds)[d] = values[p][d]) /\ \A d \in ds : With(ds)[d] = v
      BY <1>3
    <3> HIDE DEF With
    <3> QED
      BY <2>1, <3>1, <3>2
  <2>2. ASSUME NEW failed \in ds, NEW kept \in SUBSET Until(failed),
               values' = [values EXCEPT ![p] = Rollback(With(Until(failed)), Until(failed) \ kept, old)],
               broken' = (broken \/ kept # {})
        PROVE  \E w \in [Devices -> Values] :
                 /\ values' = [values EXCEPT ![p] = w]
                 /\ \A d \in Devices \ ds : w[d] = values[p][d]
                 /\ ~broken' => \E u \in Values : \A d \in ds : w[d] = u
    <3> DEFINE U == Until(failed)
               r == Rollback(With(U), U \ kept, old)
    <3>1. U \subseteq ds
      OBVIOUS
    <3> HIDE DEF U
    <3>2. r = [d \in Devices |-> IF d \in U \ kept THEN old ELSE IF d \in U THEN v ELSE values[p][d]]
      BY DEF Rollback
    <3> HIDE DEF r, ds
    <3>3. r \in [Devices -> Values]
      BY <1>4, <3>2
    <3>4. \A d \in Devices \ ds : r[d] = values[p][d]
      BY <3>1, <3>2
    <3>5. kept = {} => \A d \in ds : r[d] = old
      BY <1>3, <1>5, <3>2
    <3>6. ~broken' => kept = {}
      BY <2>2
    <3>7. values' = [values EXCEPT ![p] = r]
      BY <2>2 DEF r, U
    <3> QED
      BY <1>4, <3>3, <3>4, <3>5, <3>6, <3>7
  <2> QED
    BY <1>1, <2>1, <2>2
<1>7. \A q \in Settable : values'[q] = IF q = p THEN w ELSE values[q]
  BY <1>4, <1>6
<1>8. values' \in [Settable -> [Devices -> Values]]
  BY <1>4, <1>6
<1>9. \A q \in Settable, d \in Devices : d \notin DevicesOf(q)' => values'[q][d] = Default
  BY <1>2, <1>6, <1>7 DEF ValuesInv
<1>10. ASSUME ~broken', NEW q \in Settable, NEW d \in DevicesOf(q)', NEW e \in DevicesOf(q)'
       PROVE  values'[q][d] = values'[q][e]
  <2>1. CASE q = p
    BY <1>2, <1>6, <1>7, <1>10, <2>1
  <2>2. CASE q # p
    BY <1>1, <1>2, <1>7, <1>10, <2>2 DEF ValuesInv, DevicesAgree
  <2> QED
    BY <2>1, <2>2
<1>11. DevicesAgree'
  BY <1>10 DEF DevicesAgree
<1> QED
  BY <1>2, <1>8, <1>9, <1>11 DEF ValuesInv

\* Whatever sets succeed, fail and are rolled back, and whatever is registered in
\* between, the devices of a pin agree on its value until a rollback fails.
THEOREM DevicesAlwaysAgree == NlSpec => []DevicesAgree
<1>1. NlInit => ValuesInv
  <2> SUFFICES ASSUME NlInit PROVE ValuesInv
    OBVIOUS
  <2>1. IInv
    BY DEF NlInit, Init, IInv, TablesOK, NoneIsEmpty, RefsAgree, NoRef, Ref
  <2>2. values = [p \in Settable |-> [d \in Devices |-> Default]] /\ Default \in Values
    BY DpllNetlinkAssumption DEF NlInit, DpllNetlinkAssumption
  <2>3. \A p : DevicesOf(p) \subseteq Devices
    BY DEF DevicesOf
  <2> QED
    BY <2>1, <2>2, <2>3 DEF ValuesInv, DevicesAgree
<1>2. ValuesInv /\ [NlNext]_<<vars, nlVars>> => ValuesInv'
  <2> SUFFICES ASSUME ValuesInv, [NlNext]_<<vars, nlVars>> PROVE ValuesInv'
    OBVIOUS
  <2>1. ASSUME UNCHANGED <<vars, values, broken>> PROVE ValuesInv'
    <3>1. UNCHANGED <<pin_refs, dpll_refs, values, broken>>
      BY <2>1 DEF vars, refs
    <3>2. \A q : DevicesOf(q)' = DevicesOf(q)
      BY <3>1 DEF DevicesOf
    <3> QED
      BY <3>1, <3>2 DEF ValuesInv, IInv, TablesOK, NoneIsEmpty, RefsAgree, DevicesAgree
  <2>2. CASE UNCHANGED <<vars, nlVars>>
    BY <2>1, <2>2 DEF nlVars
  <2>3. CASE DumpMessage \/ DumpFails \/ \E kind \in {"device", "pin"} : DumpStart(kind)
    BY <2>1, <2>3 DEF DumpStart, DumpMessage, DumpFails
  <2> QED
    BY <2>2, <2>3, ValuesCore, ValuesSet DEF NlNext
<1>3. ValuesInv => DevicesAgree
  BY DEF ValuesInv
<1> QED
  BY <1>1, <1>2, <1>3, PTL DEF NlSpec

-----------------------------------------------------------------------------
(* Dumps. *)

\* A dump that has missed nothing and sent nothing twice.
DumpRecord == [kind : {"none", "device", "pin"}, idx : Nat, sent : SUBSET (Devices \cup AllPins),
               stayed : SUBSET (Devices \cup AllPins), missed : {{}}, twice : {{}}]

\* What has been sent has smaller ids than the next message starts from, what
\* stayed is still there, and of what stayed the smaller ids have been sent.
DumpInv ==
  /\ devMark \subseteq Devices
  /\ dump \in DumpRecord
  /\ \A x \in dump.sent : ObjId[x] < dump.idx
  /\ dump.stayed \subseteq Listed(dump.kind)
  /\ \A x \in dump.stayed : ObjId[x] < dump.idx => x \in dump.sent

\* What a dump goes through is finite, and each of it has a number as its id.
LEMMA ListedIs ==
  ASSUME DumpInv, NEW kind \in {"none", "device", "pin"}
  PROVE  /\ Listed(kind) \subseteq Devices \cup AllPins /\ IsFiniteSet(Listed(kind))
         /\ \A x \in Listed(kind) : ObjId[x] \in Nat
<1>1. devMark \subseteq Devices
  BY DEF DumpInv
<1>2. /\ Listed("device") = devMark /\ Listed("none") = {}
      /\ Listed("pin") = {p \in AllPins : Available(p)}
  BY DEF Listed
<1>3. IsFiniteSet(Devices) /\ IsFiniteSet(AllPins)
  BY DpllCoreAssumption, DpllNetlinkAssumption, FS_Union
     DEF DpllCoreAssumption, DpllNetlinkAssumption, AllPins
<1>4. Listed(kind) \subseteq Devices \/ Listed(kind) \subseteq AllPins
  BY <1>1, <1>2
<1>5. IsFiniteSet(Listed(kind))
  BY <1>3, <1>4, FS_Subset
<1> QED
  BY <1>4, <1>5, DpllNetlinkAssumption DEF DpllNetlinkAssumption

\* The objects that fit in a message have smaller ids than those that do not.
LEMMA PartBelowRest ==
  ASSUME NEW todo, IsFiniteSet(todo), \A x \in todo : ObjId[x] \in Nat, NEW n \in Nat,
         NEW x \in todo, NEW y \in todo,
         Cardinality({z \in todo : ObjId[z] < ObjId[x]}) < n,
         ~(Cardinality({z \in todo : ObjId[z] < ObjId[y]}) < n)
  PROVE  ObjId[x] < ObjId[y]
<1> DEFINE X == {z \in todo : ObjId[z] < ObjId[x]}
           Y == {z \in todo : ObjId[z] < ObjId[y]}
<1>1. SUFFICES ASSUME ObjId[y] <= ObjId[x] PROVE FALSE
  OBVIOUS
<1>2. Y \subseteq X
  BY <1>1
<1>3. IsFiniteSet(X) /\ IsFiniteSet(Y)
  BY FS_Subset
<1>4. Cardinality(X) < n /\ ~(Cardinality(Y) < n)
  OBVIOUS
<1> HIDE DEF X, Y
<1>5. Cardinality(Y) <= Cardinality(X) /\ Cardinality(X) \in Nat /\ Cardinality(Y) \in Nat
  BY <1>2, <1>3, FS_Subset, FS_CardinalityType
<1> QED
  BY <1>4, <1>5

\* The devices with a mark stay devices.
LEMMA MarksStep ==
  ASSUME devMark \subseteq Devices, [Next]_vars
  PROVE  devMark' \subseteq Devices
<1>1. CASE UNCHANGED vars
  BY <1>1 DEF vars, objects
<1>2. ASSUME NEW o \in Owners, NEW d \in Devices,
             DeviceGet(o, d) \/ DevicePut(o, d) \/ DeviceRegister(o, d) \/ DeviceUnregister(o, d)
      PROVE  devMark' \subseteq Devices
  BY <1>2 DEF DeviceGet, DevicePut, DeviceRegister, DeviceUnregister
<1>3. ASSUME NEW o \in Owners, NEW p \in AllPins, PinGet(o, p) \/ PinPut(o, p)
      PROVE  devMark' = devMark
  BY <1>3 DEF PinGet, PinPut
<1>4. ASSUME NEW o \in Owners, NEW d \in Devices, NEW p \in Pins,
             PinRegister(o, d, p) \/ PinRegisterFail(o, d, p) \/ PinUnregister(o, d, p)
      PROVE  devMark' = devMark
  BY <1>4 DEF PinRegister, PinRegisterFail, PinUnregister, objects
<1>5. ASSUME NEW o \in Owners, NEW parent \in Pins, NEW p \in Children,
             \/ PinOnPinRegister(o, parent, p) \/ PinOnPinRegisterFail(o, parent, p)
             \/ PinOnPinUnregister(o, parent, p)
      PROVE  devMark' = devMark
  BY <1>5 DEF PinOnPinRegister, PinOnPinRegisterFail, PinOnPinUnregister
<1> QED
  BY <1>1, <1>2, <1>3, <1>4, <1>5 DEF Next

\* A call of an owner between two messages of a dump.
LEMMA DumpCore ==
  ASSUME DumpInv, CoreStep
  PROVE  DumpInv'
<1>1. devMark' \subseteq Devices
  BY MarksStep DEF CoreStep, DumpInv
<1>2. dump' = [dump EXCEPT !.stayed = @ \cap (Listed("device") \cup Listed("pin"))']
  BY DEF CoreStep
<1> DEFINE L == (Listed("device") \cup Listed("pin"))'
<1>3. dump \in DumpRecord
  BY DEF DumpInv
<1>4. /\ dump' \in DumpRecord /\ dump'.kind = dump.kind /\ dump'.idx = dump.idx
      /\ dump'.sent = dump.sent /\ dump'.stayed = dump.stayed \cap L
  <2> HIDE DEF L
  <2>1. dump' = [dump EXCEPT !.stayed = @ \cap L]
    BY <1>2 DEF L
  <2> QED
    BY <1>3, <2>1 DEF DumpRecord
<1>5. dump'.stayed \subseteq Listed(dump.kind)'
  <2>1. /\ Listed("device")' = devMark' /\ Listed("none")' = {}
        /\ Listed("pin")' = {p \in AllPins : Available(p)}'
    BY DEF Listed
  <2>2. dump.kind \in {"none", "device", "pin"}
    BY <1>3 DEF DumpRecord
  <2>3. dump.stayed \subseteq Listed(dump.kind)
    BY DEF DumpInv
  <2>4. Devices \cap AllPins = {}
    BY DpllNetlinkAssumption DEF DpllNetlinkAssumption
  <2>5. L = devMark' \cup {p \in AllPins : Available(p)}'
    BY <2>1
  <2>6. {p \in AllPins : Available(p)}' \subseteq AllPins
    OBVIOUS
  <2> HIDE DEF L
  <2>7. CASE dump.kind = "none"
    BY <1>4, <2>3, <2>7 DEF Listed
  <2>8. CASE dump.kind = "device"
    <3>1. dump.stayed \subseteq Devices
      BY <2>3, <2>8 DEF Listed, DumpInv
    <3>2. dump.stayed \cap L \subseteq devMark'
      BY <2>4, <2>5, <2>6, <3>1
    <3>3. Listed(dump.kind)' = devMark'
      BY <1>4, <2>8 DEF Listed
    <3> QED
      BY <1>4, <3>2, <3>3
  <2>9. CASE dump.kind = "pin"
    <3>1. dump.stayed \subseteq AllPins
      BY <2>3, <2>9 DEF Listed
    <3>2. dump.stayed \cap L \subseteq {p \in AllPins : Available(p)}'
      BY <1>1, <2>4, <2>5, <3>1
    <3>3. Listed(dump.kind)' = {p \in AllPins : Available(p)}'
      BY <1>4, <2>9 DEF Listed
    <3> QED
      BY <1>4, <3>2, <3>3
  <2> QED
    BY <2>2, <2>7, <2>8, <2>9
<1>6. /\ \A x \in dump'.sent : ObjId[x] < dump'.idx
      /\ \A x \in dump'.stayed : ObjId[x] < dump'.idx => x \in dump'.sent
  BY <1>4 DEF DumpInv
<1> QED
  BY <1>1, <1>4, <1>5, <1>6 DEF DumpInv

\* One message of a dump: the objects from the index on that fit, in the order of their ids.
LEMMA DumpStep ==
  ASSUME Fits >= 1, DumpInv, DumpMessage
  PROVE  DumpInv'
<1>1. /\ dump \in DumpRecord /\ devMark \subseteq Devices
      /\ \A x \in dump.sent : ObjId[x] < dump.idx
      /\ dump.stayed \subseteq Listed(dump.kind)
      /\ \A x \in dump.stayed : ObjId[x] < dump.idx => x \in dump.sent
  BY DEF DumpInv
<1>2. /\ dump.kind \in {"none", "device", "pin"} /\ dump.idx \in Nat
      /\ dump.sent \subseteq Devices \cup AllPins /\ dump.stayed \subseteq Devices \cup AllPins
      /\ dump.twice = {}
  BY <1>1 DEF DumpRecord
<1> DEFINE todo == {x \in Listed(dump.kind) : ObjId[x] >= dump.idx}
           Part(n) == {x \in todo : Cardinality({y \in todo : ObjId[y] < ObjId[x]}) < n}
<1>3. PICK n \in 0..Cardinality(todo) :
        /\ todo \ Part(n) # {} => n >= Fits
        /\ dump' = IF todo \ Part(n) = {} \/ n = 0
                   THEN [NoDump EXCEPT !.missed = dump.stayed \ (dump.sent \cup Part(n)),
                                       !.twice = dump.twice \cup (dump.sent \cap Part(n))]
                   ELSE [dump EXCEPT !.idx = Resume(ById(todo \ Part(n))),
                                     !.sent = dump.sent \cup Part(n),
                                     !.twice = @ \cup (dump.sent \cap Part(n))]
  BY DEF DumpMessage
<1> DEFINE part == Part(n)
           rest == todo \ part
<1>4. /\ todo \subseteq Devices \cup AllPins /\ IsFiniteSet(todo)
      /\ \A x \in todo : ObjId[x] \in Nat /\ ObjId[x] >= dump.idx
      /\ \A x \in Listed(dump.kind) : ObjId[x] \in Nat
  <2>1. /\ Listed(dump.kind) \subseteq Devices \cup AllPins /\ IsFiniteSet(Listed(dump.kind))
        /\ \A x \in Listed(dump.kind) : ObjId[x] \in Nat
    BY <1>2, ListedIs
  <2> QED
    BY <2>1, FS_Subset
<1>5. n \in Nat /\ (n = 0 => rest = {})
  <2>1. n \in Nat
    BY <1>3
  <2> QED
    BY <1>3, <2>1, DpllNetlinkAssumption DEF DpllNetlinkAssumption
<1>6. \A x \in part, y \in rest : ObjId[x] < ObjId[y]
  <2> HIDE DEF todo
  <2> QED
    BY <1>4, <1>5, PartBelowRest
<1>7. part \subseteq todo /\ rest = todo \ part
  OBVIOUS
<1>8. UNCHANGED vars /\ devMark' = devMark /\ \A kind : Listed(kind)' = Listed(kind)
  <2>1. UNCHANGED vars
    BY DEF DumpMessage
  <2>2. UNCHANGED <<devMark, pinMark, parent_refs, dpll_refs>>
    BY <2>1 DEF vars, objects, refs
  <2> QED
    BY <2>1, <2>2 DEF Listed, Available, DevicesOf
<1>9. dump' = IF rest = {} THEN [NoDump EXCEPT !.missed = dump.stayed \ (dump.sent \cup part),
                                               !.twice = dump.sent \cap part]
              ELSE [dump EXCEPT !.idx = ObjId[ById(rest)], !.sent = dump.sent \cup part,
                                !.twice = dump.sent \cap part]
  BY <1>1, <1>2, <1>3, <1>5 DEF Resume, DumpRecord
<1>10. \A x : x \in todo <=> x \in Listed(dump.kind) /\ ObjId[x] >= dump.idx
  OBVIOUS
<1> HIDE DEF todo, part, rest, Part
<1>11. dump.sent \cap part = {}
  <2>1. \A x \in dump.sent : x \in part => ObjId[x] \in Nat /\ ObjId[x] >= dump.idx /\ ObjId[x] < dump.idx
    BY <1>1, <1>4, <1>7
  <2> QED
    BY <1>2, <2>1
<1>12. \A x \in dump.stayed : x \in dump.sent \/ x \in todo
  <2>1. \A x \in dump.stayed : x \in Listed(dump.kind) /\ ObjId[x] \in Nat
    BY <1>1, <1>4
  <2>2. \A x \in dump.stayed : ObjId[x] < dump.idx \/ ObjId[x] >= dump.idx
    BY <1>2, <2>1
  <2> QED
    BY <1>1, <1>10, <2>1, <2>2
<1>13. CASE rest = {}
  <2>1. dump.stayed \ (dump.sent \cup part) = {}
    BY <1>7, <1>12, <1>13
  <2>2. dump' = NoDump
    BY <1>9, <1>11, <1>13, <2>1 DEF NoDump
  <2> QED
    BY <1>1, <1>8, <2>2 DEF DumpInv, DumpRecord, NoDump
<1>14. CASE rest # {}
  <2> DEFINE m == ById(rest)
  <2>1. m \in rest /\ \A y \in rest : ObjId[m] <= ObjId[y]
    BY <1>4, <1>7, <1>14, ByIdIs
  <2>2. m \in todo /\ ObjId[m] \in Nat /\ ObjId[m] >= dump.idx
    BY <1>4, <1>7, <2>1
  <2>3. /\ dump' \in DumpRecord /\ dump'.kind = dump.kind /\ dump'.idx = ObjId[m]
        /\ dump'.sent = dump.sent \cup part /\ dump'.stayed = dump.stayed
    <3>1. dump' = [dump EXCEPT !.idx = ObjId[m], !.sent = dump.sent \cup part, !.twice = {}]
      BY <1>9, <1>11, <1>14
    <3>2. dump.sent \cup part \subseteq Devices \cup AllPins
      BY <1>2, <1>4, <1>7
    <3> HIDE DEF m
    <3> QED
      BY <1>1, <2>2, <3>1, <3>2 DEF DumpRecord
  <2> HIDE DEF m
  <2>4. \A x \in dump'.sent : ObjId[x] < dump'.idx
    <3>1. \A x \in part : ObjId[x] < ObjId[m]
      BY <1>6, <2>1
    <3>2. \A x \in dump.sent : ObjId[x] \in Nat
      BY <1>2, DpllNetlinkAssumption DEF DpllNetlinkAssumption
    <3>3. \A x \in dump.sent : ObjId[x] < ObjId[m]
      BY <1>1, <1>2, <2>2, <3>2
    <3> QED
      BY <2>3, <3>1, <3>3
  <2>5. \A x \in dump'.stayed : ObjId[x] < dump'.idx => x \in dump'.sent
    <3>1. \A x \in rest : ~(ObjId[x] < ObjId[m])
      BY <1>4, <1>7, <2>1, <2>2
    <3> QED
      BY <1>7, <1>12, <2>3, <3>1
  <2> QED
    BY <1>1, <1>8, <2>3, <2>4, <2>5 DEF DumpInv
<1> QED
  BY <1>13, <1>14

\* A dump whose messages hold at least one object each reports what is there from
\* its first to its last message, and nothing twice, whatever comes and goes.
THEOREM DumpsExact == Fits >= 1 => (NlSpec => []DumpExact)
<1> SUFFICES ASSUME Fits >= 1 PROVE NlSpec => []DumpExact
  OBVIOUS
<1>1. NlInit => DumpInv
  BY DEF NlInit, Init, NoDump, DumpInv, DumpRecord
<1>2. DumpInv /\ [NlNext]_<<vars, nlVars>> => DumpInv'
  <2> SUFFICES ASSUME DumpInv, [NlNext]_<<vars, nlVars>> PROVE DumpInv'
    OBVIOUS
  <2>1. ASSUME UNCHANGED vars PROVE devMark' = devMark /\ \A kind : Listed(kind)' = Listed(kind)
    <3>1. UNCHANGED <<devMark, pinMark, parent_refs, dpll_refs>>
      BY <2>1 DEF vars, objects, refs
    <3> QED
      BY <3>1 DEF Listed, Available, DevicesOf
  <2>2. ASSUME UNCHANGED <<vars, dump>> PROVE DumpInv'
    BY <2>1, <2>2 DEF DumpInv
  <2>3. CASE UNCHANGED <<vars, nlVars>>
    BY <2>2, <2>3 DEF nlVars
  <2>4. ASSUME NEW p \in Settable, NEW v \in Values, SetOnAll(p, v) PROVE DumpInv'
    BY <2>2, <2>4 DEF SetOnAll
  <2>5. ASSUME NEW kind \in {"device", "pin"}, DumpStart(kind) PROVE DumpInv'
    <3>1. UNCHANGED vars /\ dump' = [NoDump EXCEPT !.kind = kind, !.stayed = Listed(kind)]
      BY <2>5 DEF DumpStart
    <3>2. /\ Listed(kind) \subseteq Devices \cup AllPins
          /\ \A x \in Listed(kind) : ObjId[x] \in Nat
      BY ListedIs
    <3>3. dump' = [kind |-> kind, idx |-> 0, sent |-> {}, stayed |-> Listed(kind),
                   missed |-> {}, twice |-> {}]
      BY <3>1 DEF NoDump
    <3>4. \A x \in Listed(kind) : ~(ObjId[x] < 0)
      BY <3>2
    <3>5. devMark' = devMark /\ Listed(dump.kind)' = Listed(kind)
      <4>1. UNCHANGED <<devMark, pinMark, parent_refs, dpll_refs>> /\ dump'.kind = kind
        BY <3>1, <3>3 DEF vars, objects, refs
      <4> QED
        BY <4>1 DEF Listed, Available, DevicesOf
    <3>6. /\ dump' \in DumpRecord /\ dump'.idx = 0 /\ dump'.sent = {} /\ dump'.stayed = Listed(kind)
      BY <3>2, <3>3 DEF DumpRecord
    <3> QED
      BY <3>4, <3>5, <3>6 DEF DumpInv
  <2>6. CASE DumpFails
    <3>1. UNCHANGED vars /\ dump' = NoDump
      BY <2>6 DEF DumpFails
    <3> QED
      BY <2>1, <3>1 DEF DumpInv, DumpRecord, NoDump
  <2> QED
    BY <2>3, <2>4, <2>5, <2>6, DumpCore, DumpStep DEF NlNext
<1>3. DumpInv => DumpExact
  BY DEF DumpInv, DumpRecord, DumpExact
<1> QED
  BY <1>1, <1>2, <1>3, PTL DEF NlSpec

-----------------------------------------------------------------------------
(* What a request calls. *)

\* What a request follows without a test is there.
LEMMA OwnersReached ==
  ASSUME AliveInv, OneParent
  PROVE  CallsReachOwners
<1>1. RefsInv /\ OwnInv /\ DevInv /\ MarkInv /\ HoldInv
  BY DEF AliveInv
<1>2. ASSUME NEW p \in AllPins, NEW d \in DevicesOf(p)
      PROVE  /\ dpll_refs[p][d].regs # <<>> /\ p \in own[OpsOwner(dpll_refs[p][d])].pin
             /\ devRegs[d] # <<>> /\ d \in own[PrivOwner(d)].devReg
  <2>1. d \in Devices /\ dpll_refs[p][d].cnt > 0
    BY DEF DevicesOf
  <2>2. PICK o \in Owners, q \in Pins : own[o].pinReg[<<d, q>>] > 0
    BY <1>1, <2>1, DeviceOfPin
  <2>3. d \in own[o].devReg
    BY <1>1, <2>1, <2>2 DEF OwnInv
  <2>4. devRegs[d] \in Seq(Owners) /\ o \in Entries(devRegs[d])
    BY <1>1, <2>1, <2>3 DEF DevInv
  <2>5. devRegs[d] # <<>> /\ 1 \in 1..Len(devRegs[d])
    BY <2>4 DEF Entries
  <2>6. devRegs[d][1] \in Entries(devRegs[d])
    BY <2>5 DEF Entries
  <2>7. d \in own[PrivOwner(d)].devReg
    BY <1>1, <2>1, <2>6 DEF DevInv, PrivOwner
  <2>8. CASE p \in Pins
    <3>1. RefIs(dpll_refs[p][d], DirectOf(d, p))
      BY <1>1, <2>1, <2>8 DEF RefsInv
    <3>2. dpll_refs[p][d].regs # <<>> /\ dpll_refs[p][d].regs[1] \in DirectOf(d, p)
      BY <2>1, <3>1, RefIsFacts
    <3>3. PICK x \in Owners : own[x].pinReg[<<d, p>>] > 0 /\ dpll_refs[p][d].regs[1] = DirectReg(x)
      BY <3>2 DEF DirectOf
    <3>4. OpsOwner(dpll_refs[p][d]) = x
      BY <3>3 DEF OpsOwner, DirectReg
    <3>5. p \in own[x].pin
      BY <1>1, <2>1, <2>8, <3>3 DEF OwnInv
    <3> QED
      BY <2>5, <2>7, <3>2, <3>4, <3>5
  <2>9. CASE p \in Children
    <3>1. RefIs(dpll_refs[p][d], ChildOf(d, p))
      BY <1>1, <2>1, <2>9 DEF RefsInv
    <3>2. dpll_refs[p][d].regs # <<>> /\ dpll_refs[p][d].regs[1] \in ChildOf(d, p)
      BY <2>1, <3>1, RefIsFacts
    <3>3. PICK y \in ChildHolds(p) : dpll_refs[p][d].regs[1] = ChildReg(y[1], y[2])
      BY <3>2 DEF ChildOf
    <3>4. OpsOwner(dpll_refs[p][d]) = y[1]
      BY <3>3 DEF OpsOwner, ChildReg
    <3>5. y[1] \in Owners /\ y[2] \in Pins /\ <<y[2], p>> \in own[y[1]].onPin
      BY DEF ChildHolds
    <3>6. p \in own[y[1]].pin
      BY <1>1, <2>9, <3>5 DEF HoldInv, HoldsBoth
    <3> QED
      BY <2>5, <2>7, <3>2, <3>4, <3>6
  <2> QED
    BY <2>8, <2>9 DEF AllPins
<1>3. ASSUME NEW p \in AllPins, NEW q \in Pins, parent_refs[p][q].cnt > 0, DevicesOf(p) # {}
      PROVE  /\ parent_refs[p][q].regs # <<>>
             /\ <<q, p>> \in own[OpsOwner(parent_refs[p][q])].onPin
             /\ pin_refs[ById(DevicesOf(p))][q].cnt > 0
  <2>1. p \in Children
    <3>1. p \in Pins => parent_refs[p][q] = NoRef
      BY <1>1 DEF RefsInv
    <3> QED
      BY <1>3, <3>1 DEF NoRef, AllPins
  <2>2. RefIs(parent_refs[p][q], ParentOf(p, q))
    BY <1>1, <2>1 DEF RefsInv
  <2>3. parent_refs[p][q].regs # <<>> /\ parent_refs[p][q].regs[1] \in ParentOf(p, q)
    BY <1>3, <2>2, RefIsFacts
  <2>4. PICK x \in Owners : <<q, p>> \in own[x].onPin /\ parent_refs[p][q].regs[1] = ChildReg(x, p)
    BY <2>3 DEF ParentOf
  <2>5. OpsOwner(parent_refs[p][q]) = x
    BY <2>4 DEF OpsOwner, ChildReg
  <2> DEFINE d == ById(DevicesOf(p))
  <2>6. d \in DevicesOf(p)
    <3>1. DevicesOf(p) \in SUBSET (Devices \cup AllPins)
      BY DEF DevicesOf
    <3> QED
      BY <1>3, <3>1, ByIdIs
  <2> HIDE DEF d
  <2>7. d \in Devices /\ dpll_refs[p][d].cnt > 0
    BY <2>6 DEF DevicesOf
  <2>8. RefIs(dpll_refs[p][d], ChildOf(d, p))
    BY <1>1, <2>1, <2>7 DEF RefsInv
  <2>9. ChildOf(d, p) # {}
    BY <2>7, <2>8, RefIsFacts
  <2>10. PICK y \in ChildHolds(p) : dpll_refs[y[2]][d].cnt > 0
    BY <2>9 DEF ChildOf
  <2>11. y[2] = q
    BY <2>1, <2>4 DEF ChildHolds, OneParent
  <2>12. pin_refs[d][q] = dpll_refs[q][d]
    BY <2>7 DEF AliveInv, IInv, RefsAgree, AllPins
  <2> QED
    BY <2>3, <2>4, <2>5, <2>10, <2>11, <2>12 DEF d
<1>4. ASSUME NEW p \in AllPins, Available(p) PROVE DevicesOf(p) # {}
  BY <1>1, <1>4 DEF Available, MarkInv
<1> QED
  BY <1>2, <1>3, <1>4 DEF CallsReachOwners

\* For owners that keep to the order of calls, every callback and every private
\* pointer a request for an available pin uses is that of an owner who is still there.
THEOREM CallsReach == Orderly => (NlSpec /\ []OneParent => []CallsReachOwners)
<1> SUFFICES ASSUME Orderly PROVE NlSpec /\ []OneParent => []CallsReachOwners
  OBVIOUS
<1>1. AliveInv /\ OneParent /\ [Next]_vars => AliveInv'
  BY AliveStep
<1>2. Init => AliveInv
  BY AliveInit
<1>3. AliveInv /\ OneParent => CallsReachOwners
  BY OwnersReached
<1> QED
  BY <1>1, <1>2, <1>3, CoreUnderneath, PTL DEF Spec
=============================================================================
