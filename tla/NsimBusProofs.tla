---------------------------- MODULE NsimBusProofs ---------------------------
(***************************************************************************)
(* The proofs about the bus and the fake PCI devices, NsimBus, for any     *)
(* number of writers, devices, ids and addresses.                          *)
(*                                                                         *)
(* The inductive invariant says who holds nsim_bus_dev_list_lock           *)
(* (LockInv), that a device is on the list or in the hands of one actor,   *)
(* and complete as far as that actor has come (DevInv), that nsim_bus_devs *)
(* counts the devices and the bus (CountInv), and whose the ids and        *)
(* functions are, also in the middle of a creation or a deletion (FunInv). *)
(* The last two allow for what the code gets wrong: a writer that raced    *)
(* with nsim_bus_exit, one that died with the lock held, and an error path *)
(* that reads freed memory.                                                *)
(***************************************************************************)
EXTENDS NsimBus, FiniteSetTheorems, SequenceTheorems, TLAPS

\* No device is on the list twice.
NoRepeat(s) == \A j, k \in 1..Len(s) : s[j] = s[k] => j = k

-----------------------------------------------------------------------------
(* The inductive invariant. *)

\* What nsim_bus_dev_new goes through.
NewPcs == {"create", "scan", "register", "probe", "finish"}

\* What nsim_bus_dev_del goes through.
DelPcs == {"unlist", "stop", "unregister"}

\* nsim_bus_init before the bus is there.
LoadPcs == {"load", "load bus"}

\* The bus has its own count.
OwnPcs == {"load link", "loaded", "disable", "drop"}

\* nsim_bus_exit.
ExitPcs == {"lock", "loop", "wait", "unregister bus", "unloaded"} \cup DelPcs

\* A writer of new_device or del_device.
WriterPcs == {"idle", "dead"} \cup NewPcs \cup DelPcs

\* Loading and unloading the module.
ModulePcs == {"failed", "dead"} \cup LoadPcs \cup OwnPcs \cup ExitPcs

\* Every actor.
AllPcs == WriterPcs \cup ModulePcs

\* A struct nsim_bus_dev.
DevStates ==
  [state : {"registered", "gone"}, id : Ids, addr : Addrs,
   init : BOOLEAN, probe : {"no", "bound", "failed"}, counted : BOOLEAN]

\* The locals of an actor.
ArgStates ==
  [id : Ids \cup {None}, addr : Addrs \cup {None}, dev : Objs \cup {None}, pdev : BOOLEAN]

\* Every variable stays in its set.
TypeOK ==
  /\ enable \in BOOLEAN /\ released \in BOOLEAN
  /\ count \in Int
  /\ lock \in Actors \cup {None}
  /\ list \in Seq(Objs) /\ ida \subseteq Ids
  /\ dev \in [Objs -> DevStates \cup {NoDev}]
  /\ fake \subseteq Addrs /\ probed \subseteq Addrs /\ pci \subseteq Addrs
  /\ pc \in [Actors -> AllPcs]
  /\ arg \in [Actors -> ArgStates]
  /\ port \in Objs \cup {None}
  /\ root \in BOOLEAN /\ loaded \in BOOLEAN /\ raced \in BOOLEAN /\ misread \in BOOLEAN

\* Who has the lock: a writer while it is at work, dead or alive.
Holds(x) == IF x = Module THEN pc[x] \in {"loop"} \cup DelPcs ELSE pc[x] # "idle"

\* Only one has it, and devices are made only while the bus is enabled.
LockInv ==
  /\ \A x \in Actors : Holds(x) <=> lock = x
  /\ \A w \in Writers : pc[w] \in WriterPcs
  /\ pc[Module] \in ModulePcs
  /\ enable => pc[Module] \in {"load link", "loaded", "disable"}

\* The device x works on.
OwnDev(x) ==
  LET d == arg[x].dev IN
  /\ d \in Objs /\ d \notin ToSet(list)
  /\ dev[d].state = "registered"
  /\ dev[d].id = arg[x].id /\ dev[d].addr = arg[x].addr
  /\ (dev[d].counted <=> pc[x] \in DelPcs)
  /\ (dev[d].init <=> pc[x] \in {"unlist", "stop"})
  /\ pc[x] # "probe" => dev[d].probe # "no"

\* The devices on the list are complete.
ListOK ==
  /\ NoRepeat(list)
  /\ \A d \in ToSet(list) : /\ d \in Objs /\ dev[d].state = "registered"
                            /\ dev[d].counted /\ dev[d].init /\ dev[d].probe # "no"

\* Who has a device in hand.
DevPcs == {"probe", "finish"} \cup DelPcs

\* What an actor that creates or deletes a device has in hand.
ActorOK(x) ==
  /\ pc[x] \in NewPcs \cup DelPcs => arg[x].addr \in Addrs /\ arg[x].id \in Ids
  /\ pc[x] \in {"create", "scan", "register"} => \E d \in Objs : dev[d].state = "none"
  /\ pc[x] \in DevPcs => OwnDev(x)

\* A device whose release is to come is counted; a registered one is on the list
\* or in somebody's hands.
HeldOK ==
  \A d \in Objs :
    /\ dev[d].state = "gone" => dev[d].counted
    /\ dev[d].state = "registered" =>
         d \in ToSet(list) \/ \E x \in Actors : arg[x].dev = d /\ pc[x] \in DevPcs

\* Who writes new_port or del_port works on a probed device.
PortOK == port # None => dev[port].state = "registered" /\ dev[port].probe # "no"

\* The devices.
DevInv ==
  /\ ListOK
  /\ \A x \in Actors : ActorOK(x)
  /\ HeldOK
  /\ PortOK

\* The devices that nsim_bus_devs counts.
Counted == {d \in Objs : dev[d].state # "none" /\ dev[d].counted}

\* A writer followed a null pointer and died with the lock held.
WriterDied == \E w \in Writers : pc[w] = "dead"

\* While the module loads there is no device and no writer, and past the drop of
\* the bus's own count no writer creates one, unless it raced with that.
PhaseOK ==
  /\ pc[Module] \in LoadPcs =>
       /\ \A d \in Objs : dev[d].state = "none"
       /\ count = 0 /\ ~released /\ \A w \in Writers : pc[w] = "idle"
  /\ (pc[Module] \notin OwnPcs /\ ~raced) => \A w \in Writers : pc[w] \notin NewPcs
  /\ raced => pc[Module] \notin OwnPcs \cup LoadPcs
  /\ pc[Module] \in {"unregister bus", "unloaded"} => released

\* The bus's own count.
Own == IF pc[Module] \in OwnPcs THEN 1 ELSE 0

\* nsim_bus_devs counts the devices and the bus itself, and has been zero only if
\* it still is.
TallyOK ==
  /\ IsFiniteSet(Counted)
  /\ (~raced /\ ~WriterDied) => /\ count = Cardinality(Counted) + Own
                                /\ released => count = 0

\* The counts.
CountInv == PhaseOK /\ TallyOK

\* Who still has its id.
IdPcs == {"probe", "finish", "unlist", "stop"}

\* Who still has its PCI function in fake_devices_list.
FakePcs == {"scan", "register", "probe", "finish", "unlist"}

\* An id is taken.
HasId(i) ==
  \/ \E d \in ToSet(list) : dev[d].id = i
  \/ \E x \in Actors : pc[x] \in IdPcs /\ arg[x].id = i

\* A function is listed.
HasFake(a) ==
  \/ \E d \in ToSet(list) : dev[d].addr = a
  \/ \E x \in Actors : pc[x] \in FakePcs /\ arg[x].addr = a

\* No two devices share an id or a function.
DistinctOK ==
  /\ \A d, e \in ToSet(list) : d # e => dev[d].id # dev[e].id /\ dev[d].addr # dev[e].addr
  /\ \A x \in Actors, d \in ToSet(list) :
       /\ pc[x] \in IdPcs => dev[d].id # arg[x].id
       /\ pc[x] \in FakePcs \cup {"stop"} => dev[d].addr # arg[x].addr

\* The ids and the functions that are taken are those of the devices.
TakenOK ==
  /\ \A i \in Ids : i \in ida <=> HasId(i)
  /\ \A a \in Addrs : a \in fake <=> HasFake(a)

\* The PCI core has only functions on the list, and one that is being removed.
PciOK ==
  /\ probed = fake \cap pci
  /\ \A a \in pci : a \in fake \/ \E x \in Actors : pc[x] = "stop" /\ arg[x].addr = a /\ arg[x].pdev

\* The ids and functions, unless freed memory was read or a writer died.
FunInv == (~misread /\ ~WriterDied) => DistinctOK /\ TakenOK /\ PciOK

-----------------------------------------------------------------------------
(* The list of devices. *)

\* list_add_tail of a device that is not on the list.
LEMMA ListAppend ==
  ASSUME NEW s \in Seq(Objs), NEW d \in Objs, NoRepeat(s), d \notin ToSet(s)
  PROVE  /\ Append(s, d) \in Seq(Objs) /\ NoRepeat(Append(s, d))
         /\ ToSet(Append(s, d)) = ToSet(s) \cup {d}
<1>1. /\ Append(s, d) \in Seq(Objs) /\ Len(Append(s, d)) = Len(s) + 1
      /\ \A i \in 1..Len(s) : Append(s, d)[i] = s[i]
      /\ Append(s, d)[Len(s) + 1] = d
  BY AppendProperties
<1>2. Len(s) \in Nat /\ ToSet(s) = {s[i] : i \in 1..Len(s)}
  BY DEF ToSet
<1> DEFINE t == Append(s, d)
           n == Len(s)
<1>3. ToSet(t) = {t[i] : i \in 1..n+1}
  BY <1>1 DEF ToSet
<1>4. \A i \in 1..n+1 : i \in 1..n \/ i = n + 1
  BY <1>2
<1>5. \A i \in 1..n : s[i] # d
  BY <1>2
<1> HIDE DEF t
<1>6. NoRepeat(t)
  BY <1>1, <1>2, <1>4, <1>5 DEF NoRepeat, t
<1>7. \A i \in 1..n : i \in 1..n+1
  BY <1>2
<1>8. n + 1 \in 1..n+1
  BY <1>2
<1> HIDE DEF n
<1>9. ToSet(t) = ToSet(s) \cup {d}
  BY <1>1, <1>2, <1>3, <1>4, <1>7, <1>8 DEF t, n
<1> QED
  BY <1>1, <1>6, <1>9 DEF t

\* list_del.
LEMMA ListRemove ==
  ASSUME NEW s \in Seq(Objs), NEW k \in 1..Len(s),
         NoRepeat(s)
  PROVE  /\ RemoveAt(s, k) \in Seq(Objs)
         /\ NoRepeat(RemoveAt(s, k))
         /\ ToSet(RemoveAt(s, k)) = ToSet(s) \ {s[k]}
<1> DEFINE n == Len(s)
           t == RemoveAt(s, k)
<1>1. n \in Nat /\ k \in 1..n /\ \A i \in 1..n : s[i] \in Objs
  BY ElementOfSeq
<1>u. \A i, j \in 1..n : s[i] = s[j] => i = j
  BY DEF NoRepeat
<1>2. /\ SubSeq(s, 1, k - 1) \in Seq(Objs) /\ Len(SubSeq(s, 1, k - 1)) = k - 1
      /\ \A i \in 1..k-1 : SubSeq(s, 1, k - 1)[i] = s[i]
  <2>1. 1 \in Int /\ k - 1 \in Int /\ \A i \in 1..(k - 1) : s[i] \in Objs
    BY <1>1
  <2>2. /\ SubSeq(s, 1, k - 1) \in Seq(Objs)
        /\ Len(SubSeq(s, 1, k - 1)) = IF 1 <= k - 1 THEN (k - 1) - 1 + 1 ELSE 0
        /\ \A i \in 1..((k - 1) - 1 + 1) : SubSeq(s, 1, k - 1)[i] = s[1 + i - 1]
    BY <2>1, SubSeqProperties
  <2> QED
    BY <1>1, <2>2
<1>3. /\ SubSeq(s, k + 1, n) \in Seq(Objs) /\ Len(SubSeq(s, k + 1, n)) = n - k
      /\ \A i \in 1..n-k : SubSeq(s, k + 1, n)[i] = s[k + i]
  <2>1. k + 1 \in Int /\ n \in Int /\ \A i \in (k + 1)..n : s[i] \in Objs
    BY <1>1
  <2>2. /\ SubSeq(s, k + 1, n) \in Seq(Objs)
        /\ Len(SubSeq(s, k + 1, n)) = IF k + 1 <= n THEN n - (k + 1) + 1 ELSE 0
        /\ \A i \in 1..(n - (k + 1) + 1) : SubSeq(s, k + 1, n)[i] = s[(k + 1) + i - 1]
    BY <2>1, SubSeqProperties
  <2> HIDE DEF n
  <2> QED
    BY <1>1, <2>2
<1>4. /\ t \in Seq(Objs) /\ Len(t) = (k - 1) + (n - k)
      /\ \A i \in 1..((k - 1) + (n - k)) :
           t[i] = IF i <= k - 1 THEN SubSeq(s, 1, k - 1)[i]
                                ELSE SubSeq(s, k + 1, n)[i - (k - 1)]
  <2> DEFINE a == SubSeq(s, 1, k - 1)
             b == SubSeq(s, k + 1, n)
  <2>1. t = a \o b
    BY DEF RemoveAt
  <2>2. a \in Seq(Objs) /\ b \in Seq(Objs) /\ Len(a) = k - 1 /\ Len(b) = n - k
    BY <1>2, <1>3
  <2> HIDE DEF a, b, n, t
  <2>3. /\ a \o b \in Seq(Objs)
        /\ Len(a \o b) = Len(a) + Len(b)
        /\ \A i \in 1..(Len(a) + Len(b)) :
             (a \o b)[i] = IF i <= Len(a) THEN a[i] ELSE b[i - Len(a)]
    BY <2>2, ConcatProperties
  <2> QED
    BY <2>1, <2>2, <2>3 DEF a, b
<1> HIDE DEF n, t
<1>5. Len(t) = n - 1 /\ \A i \in 1..n-1 : t[i] = IF i < k THEN s[i] ELSE s[i + 1]
  <2>1. Len(t) = n - 1
    BY <1>1, <1>4
  <2>2. ASSUME NEW i \in 1..n-1 PROVE t[i] = IF i < k THEN s[i] ELSE s[i + 1]
    <3>1. i \in 1..((k - 1) + (n - k))
      BY <1>1
    <3>2. CASE i < k
      BY <1>1, <1>2, <1>4, <3>1, <3>2
    <3>3. CASE ~(i < k)
      <4>1. i - (k - 1) \in 1..n-k /\ k + (i - (k - 1)) = i + 1
        BY <1>1, <3>3
      <4> QED
        BY <1>1, <1>3, <1>4, <3>1, <3>3, <4>1
    <3> QED
      BY <3>2, <3>3
  <2> QED
    BY <2>1, <2>2
<1>6. \A i, j \in 1..Len(t) : t[i] = t[j] => i = j
  BY <1>1, <1>5, <1>u
<1>7. {t[i] : i \in 1..Len(t)} = {s[i] : i \in 1..Len(s)} \ {s[k]}
  <2>1. ASSUME NEW i \in 1..Len(t) PROVE \E j \in 1..n : t[i] = s[j] /\ j # k
    <3>1. i \in 1..n /\ i + 1 \in 1..n
      BY <1>1, <1>5
    <3> QED
      BY <1>1, <1>5, <3>1
  <2>2. ASSUME NEW j \in 1..n, j # k PROVE \E i \in 1..Len(t) : t[i] = s[j]
    <3>1. CASE j < k
      <4>1. j \in 1..n-1
        BY <1>1, <3>1
      <4> QED
        BY <1>5, <3>1, <4>1
    <3>2. CASE ~(j < k)
      <4>1. j - 1 \in 1..n-1 /\ ~(j - 1 < k) /\ (j - 1) + 1 = j
        BY <1>1, <2>2, <3>2
      <4> QED
        BY <1>5, <4>1
    <3> QED
      BY <3>1, <3>2
  <2>3. \A j \in 1..n : s[j] = s[k] => j = k
    BY <1>1, <1>u
  <2> DEFINE A == {t[i] : i \in 1..Len(t)}
             B == {s[i] : i \in 1..Len(s)} \ {s[k]}
  <2>4. ASSUME NEW x \in A PROVE x \in B
    <3>1. PICK i \in 1..Len(t) : x = t[i]
      OBVIOUS
    <3>2. PICK j \in 1..n : t[i] = s[j] /\ j # k
      BY <2>1
    <3> QED
      BY <2>3, <3>1, <3>2 DEF n
  <2>5. ASSUME NEW x \in B PROVE x \in A
    <3>1. PICK j \in 1..n : x = s[j] /\ j # k
      BY DEF n
    <3> QED
      BY <2>2, <3>1
  <2> QED
    BY <2>4, <2>5
<1>8. ToSet(t) = {t[i] : i \in 1..Len(t)} /\ ToSet(s) = {s[i] : i \in 1..Len(s)}
  <2>1. t \in Seq(Objs) /\ s \in Seq(Objs)
    BY <1>4
  <2>2. DOMAIN t = 1..Len(t) /\ DOMAIN s = 1..Len(s)
    BY <2>1, LenProperties
  <2> QED
    BY <2>2 DEF ToSet
<1> QED
  BY <1>4, <1>6, <1>7, <1>8 DEF t, NoRepeat

-----------------------------------------------------------------------------
(* Who holds the lock, and when the bus files work. *)

\* Every step keeps who has the lock.
LEMMA LockStep ==
  ASSUME NsimBusAssumption, TypeOK, LockInv, [Next]_vars
  PROVE  LockInv'
<1> USE DEF LockInv, Holds, WriterPcs, ModulePcs, NewPcs, DelPcs, LoadPcs, OwnPcs, ExitPcs, Actors, NsimBusAssumption
<1>t. pc \in [Writers \cup {Module} -> WriterPcs \cup ModulePcs]
  BY DEF TypeOK, AllPcs
<1>1. ASSUME NEW w \in Writers, NewBegin(w) PROVE LockInv'
  BY <1>1, <1>t DEF NewBegin, NoArg, Goto, busVars
<1>2. ASSUME NEW w \in Writers, DelBegin(w) PROVE LockInv'
  BY <1>2, <1>t DEF DelBegin, Take, NoArg, Goto, busVars
<1>3. ASSUME NEW w \in Writers, NewCreate(w) PROVE LockInv'
  BY <1>3, <1>t DEF NewCreate, Goto, busVars
<1>4. ASSUME NEW w \in Writers, NewCreateFails(w) PROVE LockInv'
  BY <1>4, <1>t DEF NewCreateFails, Return, NoArg, Goto, busVars
<1>5. ASSUME NEW w \in Writers, NewWithoutRoot(w) PROVE LockInv'
  BY <1>5, <1>t DEF NewWithoutRoot, Goto, busVars
<1>6. ASSUME NEW w \in Writers, NewScan(w) PROVE LockInv'
  BY <1>6, <1>t DEF NewScan, Rescan, Found, Goto, busVars
<1>7. ASSUME NEW w \in Writers, NewRegister(w) PROVE LockInv'
  BY <1>7, <1>t DEF NewRegister, Goto, busVars
<1>8. ASSUME NEW w \in Writers, NewIdFails(w) PROVE LockInv'
  BY <1>8, <1>t DEF NewIdFails, Return, NoArg, Goto, busVars
<1>9. ASSUME NEW w \in Writers, NewRegisterFails(w) PROVE LockInv'
  BY <1>9, <1>t DEF NewRegisterFails, DropCount, Dec, Saturated, Goto, busVars
<1>10. ASSUME NEW w \in Writers, NewProbe(w) PROVE LockInv'
  BY <1>10, <1>t DEF NewProbe, Goto, busVars
<1>11. ASSUME NEW w \in Writers, NewFinish(w) PROVE LockInv'
  BY <1>11, <1>t DEF NewFinish, Inc, Saturated, Return, NoArg, Goto, busVars
<1>12. ASSUME NEW x \in Actors, Unlist(x) PROVE LockInv'
  BY <1>12, <1>t DEF Unlist, Goto, busVars
<1>13. ASSUME NEW x \in Actors, Stop(x) PROVE LockInv'
  BY <1>13, <1>t DEF Stop, Goto, busVars
<1>14. ASSUME NEW x \in Actors, Unregister(x) PROVE LockInv'
  BY <1>14, <1>t DEF Unregister, Return, NoArg, Goto, busVars
<1>15. ASSUME NEW d \in Objs, PortBegin(d) PROVE LockInv'
  BY <1>15, <1>t DEF PortBegin, busVars
<1>16. ASSUME NEW d \in Objs, Release(d) PROVE LockInv'
  BY <1>16, <1>t DEF Release, DropCount, Dec, Saturated, NoDev, busVars
<1>17. ASSUME NEW a \in Addrs, PciRemove(a) PROVE LockInv'
  BY <1>17, <1>t DEF PciRemove, busVars
<1>18. CASE PortEnd
  BY <1>18, <1>t DEF PortEnd, busVars
<1>19. CASE PciRescan
  BY <1>19, <1>t DEF PciRescan, Rescan, Found, busVars
<1>20. CASE LoadPci
  BY <1>20, <1>t DEF LoadPci, Goto, busVars
<1>21. CASE LoadBus
  BY <1>21, <1>t DEF LoadBus, Goto, busVars
<1>22. CASE LoadBusFails
  BY <1>22, <1>t DEF LoadBusFails, Goto, busVars
<1>23. CASE LoadLink
  BY <1>23, <1>t DEF LoadLink, Goto, busVars
<1>24. CASE ExitBegin
  BY <1>24, <1>t DEF ExitBegin, Goto, busVars
<1>25. CASE ExitDisable
  BY <1>25, <1>t DEF ExitDisable, Goto, busVars
<1>26. CASE ExitDrop
  BY <1>26, <1>t DEF ExitDrop, DropCount, Dec, Saturated, Goto, busVars
<1>27. CASE ExitLock
  BY <1>27, <1>t DEF ExitLock, Goto, busVars
<1>28. CASE ExitNext
  BY <1>28, <1>t DEF ExitNext, Take, NoArg, Goto, busVars
<1>29. CASE ExitUnlock
  BY <1>29, <1>t DEF ExitUnlock, Goto, busVars
<1>30. CASE ExitWait
  BY <1>30, <1>t DEF ExitWait, Goto, busVars
<1>31. CASE ExitEnd
  BY <1>31, <1>t DEF ExitEnd, Goto, busVars
<1>32. CASE UNCHANGED vars
  BY <1>32, <1>t DEF vars, busVars, pciVars, busVars
<1> QED
  BY <1>1, <1>2, <1>3, <1>4, <1>5, <1>6, <1>7, <1>8, <1>9, <1>10, <1>11, <1>12, <1>13, <1>14, <1>15, <1>16,
     <1>17, <1>18, <1>19, <1>20, <1>21, <1>22, <1>23, <1>24, <1>25, <1>26, <1>27, <1>28, <1>29, <1>30, <1>31,
     <1>32
     DEF Next, WriterSteps, DelSteps, ExitSteps

-----------------------------------------------------------------------------
(* Types. *)

\* The fields of a device that exists.
LEMMA DevTyped ==
  ASSUME TypeOK, NEW d \in Objs
  PROVE  /\ dev[d] = NoDev <=> dev[d].state = "none"
         /\ dev[d].state \in {"none", "registered", "gone"}
         /\ dev[d].state # "none" => /\ dev[d] \in DevStates
                                    /\ dev[d].id \in Ids /\ dev[d].addr \in Addrs
                                    /\ dev[d].init \in BOOLEAN /\ dev[d].counted \in BOOLEAN
                                    /\ dev[d].probe \in {"no", "bound", "failed"}
<1>1. dev[d] \in DevStates \cup {NoDev}
  BY DEF TypeOK
<1> QED
  BY <1>1 DEF DevStates, NoDev

\* kzalloc finds memory.
LEMMA FreshIsFree ==
  ASSUME TypeOK, \E d \in Objs : dev[d].state = "none"
  PROVE  Fresh \in Objs /\ dev[Fresh] = NoDev /\ dev[Fresh].state = "none"
<1>1. \E d \in Objs : dev[d] = NoDev
  BY DevTyped
<1>2. Fresh \in Objs /\ dev[Fresh] = NoDev
  BY <1>1 DEF Fresh
<1> QED
  BY <1>2 DEF NoDev

\* The arguments an actor starts with.
LEMMA ArgTyped ==
  /\ NoArg \in ArgStates
  /\ \A i \in Ids, a \in Addrs : [NoArg EXCEPT !.id = i, !.addr = a] \in ArgStates
  /\ \A i \in Ids, a \in Addrs, d \in Objs :
       [NoArg EXCEPT !.id = i, !.addr = a, !.dev = d] \in ArgStates
  /\ \A r \in ArgStates, b \in BOOLEAN : [r EXCEPT !.pdev = b] \in ArgStates
  /\ \A r \in ArgStates, d \in Objs : [r EXCEPT !.dev = d] \in ArgStates
BY DEF ArgStates, NoArg

\* refcount_t stays a number.
LEMMA CountTyped ==
  ASSUME NEW c \in Int
  PROVE  Inc(c) \in Int /\ Dec(c) \in Int
BY DEF Inc, Dec, Saturated

\* The k-th device on the list is there.
LEMMA ListedTyped ==
  ASSUME TypeOK, DevInv, NEW k \in DOMAIN list
  PROVE  /\ k \in 1..Len(list) /\ list[k] \in Objs /\ list[k] \in ToSet(list)
         /\ dev[list[k]].id \in Ids /\ dev[list[k]].addr \in Addrs
         /\ RemoveAt(list, k) \in Seq(Objs) /\ NoRepeat(RemoveAt(list, k))
         /\ ToSet(RemoveAt(list, k)) = ToSet(list) \ {list[k]}
<1>1. k \in 1..Len(list) /\ list \in Seq(Objs)
  BY LenProperties DEF TypeOK
<1>2. list[k] \in Objs /\ list[k] \in ToSet(list)
  BY <1>1, ElementOfSeq DEF ToSet
<1>3. dev[list[k]].id \in Ids /\ dev[list[k]].addr \in Addrs
  BY <1>2, DevTyped DEF DevInv, ListOK
<1> QED
  BY <1>1, <1>2, <1>3, ListRemove DEF DevInv, ListOK

\* Every step keeps the types.
LEMMA TypeStep ==
  ASSUME TypeOK, DevInv, [Next]_vars
  PROVE  TypeOK'
<1>a. /\ {"idle", "dead", "create", "scan", "register", "probe", "finish", "unlist", "stop", "unregister",
          "failed", "load", "load bus", "load link", "loaded", "disable", "drop", "lock", "loop",
          "wait", "unregister bus", "unloaded"} \subseteq AllPcs
      /\ pc \in [Actors -> AllPcs]
  BY DEF AllPcs, WriterPcs, ModulePcs, NewPcs, DelPcs, LoadPcs, OwnPcs, ExitPcs, TypeOK
<1>b. \A w \in Writers : w \in Actors
  BY DEF Actors
<1>1. ASSUME NEW w \in Writers, NewBegin(w) PROVE TypeOK'
  <2>1. pc' \in [Actors -> AllPcs] /\ lock' \in Actors
    BY <1>1, <1>a DEF NewBegin, TypeOK, Goto, Actors
  <2>2. PICK i \in Ids, b \in Addrs : arg' = [arg EXCEPT ![w] = [NoArg EXCEPT !.id = i, !.addr = b]]
    BY <1>1 DEF NewBegin
  <2>3. [NoArg EXCEPT !.id = i, !.addr = b] \in ArgStates
    BY ArgTyped
  <2>4. arg' \in [Actors -> ArgStates]
    BY <2>2, <2>3 DEF TypeOK
  <2> QED
    BY <1>1, <1>a, <2>1, <2>4 DEF NewBegin, TypeOK, pciVars, AllPcs
<1>2. ASSUME NEW w \in Writers, DelBegin(w) PROVE TypeOK'
  <2>1. PICK k \in DOMAIN list : Take(w, k)
    BY <1>2, LenProperties DEF DelBegin, TypeOK
  <2>2. list' \in Seq(Objs) /\ arg' \in [Actors -> ArgStates] /\ pc' \in [Actors -> AllPcs]
    BY <1>a, <2>1, ListedTyped, ArgTyped DEF Take, TypeOK, Goto
  <2> QED
    BY <1>2, <1>a, <2>2 DEF DelBegin, TypeOK, pciVars, Actors
<1>3. ASSUME NEW w \in Writers, NewCreate(w) PROVE TypeOK'
  <2>1. arg[w].addr \in Addrs
    BY <1>3, <1>b DEF NewCreate, DevInv, ActorOK, NewPcs, Actors
  <2> QED
    BY <1>3, <1>a, <2>1 DEF NewCreate, TypeOK, Goto, busVars, Actors
<1>4. ASSUME NEW w \in Writers, NewCreateFails(w) PROVE TypeOK'
  BY <1>4, <1>a, ArgTyped DEF NewCreateFails, Return, NoArg, Goto, TypeOK, Actors, busVars, pciVars
<1>5. ASSUME NEW w \in Writers, NewWithoutRoot(w) PROVE TypeOK'
  BY <1>5, <1>a, ArgTyped DEF NewWithoutRoot, Goto, TypeOK, Actors, busVars, pciVars
<1>6. ASSUME NEW w \in Writers, NewScan(w) PROVE TypeOK'
  BY <1>6, <1>a, ArgTyped DEF NewScan, Rescan, Found, Goto, TypeOK, Actors, busVars, pciVars
<1>7. ASSUME NEW w \in Writers, NewRegister(w) PROVE TypeOK'
  <2>1. Fresh \in Objs /\ arg[w].id \in Ids /\ arg[w].addr \in Addrs
    BY <1>7, FreshIsFree, <1>b DEF NewRegister, DevInv, ActorOK, NewPcs, Actors
  <2>2. dev' \in [Objs -> DevStates \cup {NoDev}]
    BY <1>7, <2>1 DEF NewRegister, TypeOK, DevStates
  <2>3. arg' \in [Actors -> ArgStates]
    BY <1>7, <2>1, ArgTyped DEF NewRegister, TypeOK, Actors
  <2> QED
    BY <1>7, <1>a, <2>1, <2>2, <2>3 DEF NewRegister, TypeOK, Goto, pciVars, Actors
<1>8. ASSUME NEW w \in Writers, NewIdFails(w) PROVE TypeOK'
  BY <1>8, <1>a, ArgTyped DEF NewIdFails, Return, NoArg, Goto, TypeOK, Actors, busVars, pciVars
<1>9. ASSUME NEW w \in Writers, NewRegisterFails(w) PROVE TypeOK'
  <2>2. count' \in Int
    BY <1>9, CountTyped DEF NewRegisterFails, DropCount, TypeOK
  <2>3. released' \in BOOLEAN
    BY <1>9 DEF NewRegisterFails, DropCount
  <2>4. raced' \in BOOLEAN
    BY <1>9 DEF NewRegisterFails, TypeOK
  <2> QED
    BY <1>9, <1>a, <2>2, <2>3, <2>4 DEF NewRegisterFails, TypeOK, Goto, pciVars, Actors
<1>10. ASSUME NEW w \in Writers, NewProbe(w) PROVE TypeOK'
  <2>1. arg[w].dev \in Objs /\ dev[arg[w].dev] \in DevStates
    BY <1>10, DevTyped, <1>b DEF NewProbe, DevInv, ActorOK, OwnDev, DevPcs, NewPcs, DelPcs, Actors
  <2>2. dev' \in [Objs -> DevStates \cup {NoDev}]
    BY <1>10, <2>1 DEF NewProbe, TypeOK, DevStates
  <2> QED
    BY <1>10, <1>a, <2>2 DEF NewProbe, TypeOK, Goto, busVars, pciVars, Actors
<1>11. ASSUME NEW w \in Writers, NewFinish(w) PROVE TypeOK'
  <2>1. arg[w].dev \in Objs /\ dev[arg[w].dev] \in DevStates
    BY <1>11, DevTyped, <1>b DEF NewFinish, DevInv, ActorOK, OwnDev, DevPcs, NewPcs, DelPcs, Actors
  <2>2. dev' \in [Objs -> DevStates \cup {NoDev}]
    BY <1>11, <2>1 DEF NewFinish, TypeOK, DevStates
  <2>3. list' \in Seq(Objs) /\ count' \in Int
    BY <1>11, <2>1, CountTyped, AppendProperties DEF NewFinish, TypeOK
  <2>4. arg' \in [Actors -> ArgStates] /\ pc' \in [Actors -> AllPcs] /\ lock' = None
    BY <1>11, <1>a, ArgTyped DEF NewFinish, Return, TypeOK, Goto, Actors
  <2> QED
    BY <1>11, <1>a, <2>2, <2>3, <2>4 DEF NewFinish, TypeOK, pciVars
<1>12. ASSUME NEW x \in Actors, Unlist(x) PROVE TypeOK'
  <2>1. arg' \in [Actors -> ArgStates]
    <3>1. (arg[x].addr \in probed) \in BOOLEAN
      OBVIOUS
    <3> QED
      BY <1>12, <3>1, ArgTyped DEF Unlist, TypeOK
  <2> QED
    BY <1>12, <1>a, <2>1 DEF Unlist, TypeOK, Goto, busVars
<1>13. ASSUME NEW x \in Actors, Stop(x) PROVE TypeOK'
  <2>1. arg[x].dev \in Objs /\ dev[arg[x].dev] \in DevStates
    BY <1>13, DevTyped, <1>b DEF Stop, DevInv, ActorOK, OwnDev, DevPcs, NewPcs, DelPcs, Actors
  <2>2. dev' \in [Objs -> DevStates \cup {NoDev}]
    BY <1>13, <2>1 DEF Stop, TypeOK, DevStates
  <2> QED
    BY <1>13, <1>a, <2>2 DEF Stop, TypeOK, Goto
<1>14. ASSUME NEW x \in Actors, Unregister(x) PROVE TypeOK'
  <2>1. arg[x].dev \in Objs /\ dev[arg[x].dev] \in DevStates
    BY <1>14, DevTyped, <1>b DEF Unregister, DevInv, ActorOK, OwnDev, DevPcs, NewPcs, DelPcs, Actors
  <2>2. dev' \in [Objs -> DevStates \cup {NoDev}]
    BY <1>14, <2>1 DEF Unregister, TypeOK, DevStates
  <2>3. arg' \in [Actors -> ArgStates] /\ pc' \in [Actors -> AllPcs] /\ lock' \in Actors \cup {None}
    BY <1>14, <1>a, ArgTyped DEF Unregister, Return, TypeOK, Goto
  <2> QED
    BY <1>14, <1>a, <2>2, <2>3 DEF Unregister, TypeOK, pciVars
<1>15. ASSUME NEW d \in Objs, PortBegin(d) PROVE TypeOK'
  BY <1>15, <1>a, ArgTyped DEF PortBegin, TypeOK, Actors, busVars, pciVars
<1>16. ASSUME NEW d \in Objs, Release(d) PROVE TypeOK'
  <2>1. dev' \in [Objs -> DevStates \cup {NoDev}]
    BY <1>16 DEF Release, TypeOK
  <2>2. count' \in Int
    BY <1>16, CountTyped DEF Release, DropCount, TypeOK
  <2>3. released' \in BOOLEAN
    BY <1>16 DEF Release, DropCount
  <2> QED
    BY <1>16, <2>1, <2>2, <2>3 DEF Release, TypeOK, pciVars
<1>17. ASSUME NEW a \in Addrs, PciRemove(a) PROVE TypeOK'
  BY <1>17, <1>a, ArgTyped DEF PciRemove, TypeOK, Actors, busVars, pciVars
<1>18. CASE PortEnd
  BY <1>18, <1>a, ArgTyped DEF PortEnd, TypeOK, Actors, busVars, pciVars
<1>19. CASE PciRescan
  BY <1>19, <1>a, ArgTyped DEF PciRescan, Rescan, Found, TypeOK, Actors, busVars, pciVars
<1>20. CASE LoadPci
  BY <1>20, <1>a, ArgTyped DEF LoadPci, Goto, TypeOK, Actors, busVars, pciVars
<1>21. CASE LoadBus
  <2>1. count' \in Int
    <3>1. count' = 1
      BY <1>21, Zenon DEF LoadBus
    <3> QED
      BY <3>1
  <2>2. enable' \in BOOLEAN
    BY <1>21 DEF LoadBus
  <2> QED
    BY <1>21, <1>a, <2>1, <2>2 DEF LoadBus, TypeOK, Goto, pciVars, Actors
<1>22. CASE LoadBusFails
  BY <1>22, <1>a, ArgTyped DEF LoadBusFails, Goto, TypeOK, Actors, busVars, pciVars
<1>23. CASE LoadLink
  BY <1>23, <1>a, ArgTyped DEF LoadLink, Goto, TypeOK, Actors, busVars, pciVars
<1>24. CASE ExitBegin
  BY <1>24, <1>a, ArgTyped DEF ExitBegin, Goto, TypeOK, Actors, busVars, pciVars
<1>25. CASE ExitDisable
  BY <1>25, <1>a, ArgTyped DEF ExitDisable, Goto, TypeOK, Actors, busVars, pciVars
<1>26. CASE ExitDrop
  <2>2. count' \in Int
    BY <1>26, CountTyped DEF ExitDrop, DropCount, TypeOK
  <2>3. released' \in BOOLEAN
    BY <1>26 DEF ExitDrop, DropCount
  <2>4. raced' \in BOOLEAN
    BY <1>26 DEF ExitDrop, TypeOK
  <2> QED
    BY <1>26, <1>a, <2>2, <2>3, <2>4 DEF ExitDrop, TypeOK, Goto, pciVars, Actors
<1>27. CASE ExitLock
  BY <1>27, <1>a, ArgTyped DEF ExitLock, Goto, TypeOK, Actors, busVars, pciVars
<1>28. CASE ExitNext
  <2>1. PICK k \in DOMAIN list : Take(Module, k)
    <3>1. list \in Seq(Objs) /\ list # <<>>
      BY <1>28 DEF ExitNext, TypeOK
    <3>2. 1 \in DOMAIN list
      BY <3>1, EmptySeq, LenProperties
    <3> QED
      BY <1>28, <3>2 DEF ExitNext
  <2>2. list' \in Seq(Objs) /\ arg' \in [Actors -> ArgStates] /\ pc' \in [Actors -> AllPcs]
    BY <1>a, <2>1, ListedTyped, ArgTyped DEF Take, TypeOK, Goto
  <2> QED
    BY <1>28, <1>a, <2>2 DEF ExitNext, TypeOK, pciVars, Actors
<1>29. CASE ExitUnlock
  BY <1>29, <1>a, ArgTyped DEF ExitUnlock, Goto, TypeOK, Actors, busVars, pciVars
<1>30. CASE ExitWait
  BY <1>30, <1>a, ArgTyped DEF ExitWait, Goto, TypeOK, Actors, busVars, pciVars
<1>31. CASE ExitEnd
  BY <1>31, <1>a, ArgTyped DEF ExitEnd, Goto, TypeOK, Actors, busVars, pciVars
<1>32. CASE UNCHANGED vars
  BY <1>32, <1>a, ArgTyped DEF vars, busVars, pciVars, TypeOK, Actors, busVars, pciVars
<1> QED
  BY <1>1, <1>2, <1>3, <1>4, <1>5, <1>6, <1>7, <1>8, <1>9, <1>10, <1>11, <1>12, <1>13, <1>14, <1>15, <1>16,
     <1>17, <1>18, <1>19, <1>20, <1>21, <1>22, <1>23, <1>24, <1>25, <1>26, <1>27, <1>28, <1>29, <1>30, <1>31,
     <1>32
     DEF Next, WriterSteps, DelSteps, ExitSteps

-----------------------------------------------------------------------------
(* Devices. *)

\* Only one actor creates or deletes a device at a time.
LEMMA OneAtWork ==
  ASSUME NsimBusAssumption, LockInv
  PROVE  \A x, y \in Actors : (pc[x] \in NewPcs \cup DelPcs /\ pc[y] \in NewPcs \cup DelPcs) => x = y
BY DEF LockInv, Holds, NsimBusAssumption, NewPcs, DelPcs, WriterPcs, ModulePcs, LoadPcs, OwnPcs, ExitPcs, Actors

\* What each step makes of the devices.
LEMMA RegisterEffect ==
  ASSUME TypeOK, DevInv, NEW w \in Writers, NewRegister(w)
  PROVE  /\ Fresh \in Objs /\ dev[Fresh].state = "none" /\ arg'[w].dev = Fresh
         /\ arg'[w].id = arg[w].id /\ arg'[w].addr = arg[w].addr /\ pc'[w] = "probe"
         /\ dev'[Fresh].state = "registered" /\ dev'[Fresh].id = arg[w].id /\ dev'[Fresh].addr = arg[w].addr
         /\ ~dev'[Fresh].init /\ dev'[Fresh].probe = "no" /\ ~dev'[Fresh].counted
         /\ \A e \in Objs \ {Fresh} : dev'[e] = dev[e]
         /\ \A x \in Actors \ {w} : arg'[x] = arg[x] /\ pc'[x] = pc[x]
<1>1. w \in Actors /\ arg[w] \in ArgStates
  BY DEF Actors, TypeOK
<1>2. Fresh \in Objs /\ dev[Fresh].state = "none"
  BY <1>1, FreshIsFree DEF NewRegister, DevInv, ActorOK, NewPcs
<1>3. /\ arg' = [arg EXCEPT ![w].dev = Fresh] /\ pc' = [pc EXCEPT ![w] = "probe"]
      /\ dev' = [dev EXCEPT ![Fresh] = [state |-> "registered", id |-> arg[w].id, addr |-> arg[w].addr,
                                        init |-> FALSE, probe |-> "no", counted |-> FALSE]]
  BY DEF NewRegister, Goto
<1>4. arg \in [Actors -> ArgStates] /\ dev \in [Objs -> DevStates \cup {NoDev}] /\ pc \in [Actors -> AllPcs]
  BY DEF TypeOK
<1> QED
  BY <1>1, <1>2, <1>3, <1>4 DEF ArgStates

\* Probing changes the device in hand.
LEMMA ProbeEffect ==
  ASSUME TypeOK, DevInv, NEW w \in Writers, NewProbe(w)
  PROVE  LET d == arg[w].dev IN
         /\ d \in Objs /\ dev'[d].probe # "no" /\ dev[d].state = "registered"
         /\ dev'[d].state = dev[d].state /\ dev'[d].id = dev[d].id /\ dev'[d].addr = dev[d].addr
         /\ (dev'[d].init <=> dev[d].init) /\ (dev'[d].counted <=> dev[d].counted)
         /\ \A e \in Objs \ {d} : dev'[e] = dev[e]
<1> DEFINE d == arg[w].dev
<1>1. d \in Objs /\ dev[d].state = "registered"
  BY DEF NewProbe, DevInv, ActorOK, OwnDev, DevPcs, Actors
<1>2. dev[d] \in DevStates /\ dev \in [Objs -> DevStates \cup {NoDev}]
  BY <1>1, DevTyped DEF TypeOK
<1>3. PICK r \in {"bound", "failed"} : dev' = [dev EXCEPT ![d].probe = r]
  BY DEF NewProbe
<1> HIDE DEF d
<1>4. /\ dev'[d] = [dev[d] EXCEPT !.probe = r]
      /\ \A e \in Objs \ {d} : dev'[e] = dev[e]
  BY <1>1, <1>2, <1>3
<1>5. /\ dev'[d].probe # "no" /\ dev'[d].state = dev[d].state /\ dev'[d].id = dev[d].id
      /\ dev'[d].addr = dev[d].addr /\ (dev'[d].init <=> dev[d].init) /\ (dev'[d].counted <=> dev[d].counted)
  BY <1>2, <1>4 DEF DevStates
<1> QED
  BY <1>1, <1>4, <1>5 DEF d

\* So does the end of nsim_bus_dev_new, which lists and counts it.
LEMMA FinishEffect ==
  ASSUME TypeOK, DevInv, NEW w \in Writers, NewFinish(w)
  PROVE  LET d == arg[w].dev IN
         /\ d \in Objs /\ d \notin ToSet(list) /\ dev[d].state = "registered" /\ ~dev[d].counted
         /\ dev'[d].probe = dev[d].probe /\ dev[d].probe # "no"
         /\ dev'[d].state = dev[d].state /\ dev'[d].id = dev[d].id /\ dev'[d].addr = dev[d].addr
         /\ dev'[d].init /\ dev'[d].counted
         /\ \A e \in Objs \ {d} : dev'[e] = dev[e]
         /\ NoRepeat(list') /\ ToSet(list') = ToSet(list) \cup {d}
<1> DEFINE d == arg[w].dev
<1>1. /\ d \in Objs /\ d \notin ToSet(list) /\ dev[d].state = "registered"
      /\ ~dev[d].counted /\ dev[d].probe # "no"
  BY DEF NewFinish, DevInv, ActorOK, OwnDev, DevPcs, Actors, DelPcs
<1>2. dev[d] \in DevStates /\ dev \in [Objs -> DevStates \cup {NoDev}]
  BY <1>1, DevTyped DEF TypeOK
<1>3. dev' = [dev EXCEPT ![d].init = TRUE, ![d].counted = TRUE] /\ list' = Append(list, d)
  BY DEF NewFinish
<1>4. NoRepeat(list') /\ ToSet(list') = ToSet(list) \cup {d}
  BY <1>1, <1>3, ListAppend DEF TypeOK, DevInv, ListOK
<1> HIDE DEF d
<1>5. /\ dev'[d] = [dev[d] EXCEPT !.init = TRUE, !.counted = TRUE]
      /\ \A e \in Objs \ {d} : dev'[e] = dev[e]
  BY <1>1, <1>2, <1>3
<1>6. /\ dev'[d].probe = dev[d].probe /\ dev'[d].state = dev[d].state /\ dev'[d].id = dev[d].id
      /\ dev'[d].addr = dev[d].addr /\ dev'[d].init /\ dev'[d].counted
  BY <1>2, <1>5 DEF DevStates
<1> QED
  BY <1>1, <1>4, <1>5, <1>6 DEF d

\* A deletion clears init.
LEMMA StopEffect ==
  ASSUME TypeOK, DevInv, NEW x \in Actors, Stop(x)
  PROVE  LET d == arg[x].dev IN
         /\ d \in Objs /\ dev[d].state = "registered"
         /\ dev'[d].probe = dev[d].probe /\ dev'[d].state = dev[d].state
         /\ dev'[d].id = dev[d].id /\ dev'[d].addr = dev[d].addr
         /\ ~dev'[d].init /\ (dev'[d].counted <=> dev[d].counted)
         /\ \A e \in Objs \ {d} : dev'[e] = dev[e]
<1> DEFINE d == arg[x].dev
<1>1. d \in Objs /\ dev[d].state = "registered"
  BY DEF Stop, DevInv, ActorOK, OwnDev, DevPcs, DelPcs
<1>2. dev[d] \in DevStates /\ dev \in [Objs -> DevStates \cup {NoDev}]
  BY <1>1, DevTyped DEF TypeOK
<1>3. dev' = [dev EXCEPT ![d].init = FALSE]
  BY DEF Stop
<1> HIDE DEF d
<1>4. /\ dev'[d] = [dev[d] EXCEPT !.init = FALSE]
      /\ \A e \in Objs \ {d} : dev'[e] = dev[e]
  BY <1>1, <1>2, <1>3
<1>5. /\ dev'[d].probe = dev[d].probe /\ dev'[d].state = dev[d].state /\ dev'[d].id = dev[d].id
      /\ dev'[d].addr = dev[d].addr /\ ~dev'[d].init /\ (dev'[d].counted <=> dev[d].counted)
  BY <1>2, <1>4 DEF DevStates
<1> QED
  BY <1>1, <1>4, <1>5 DEF d

\* The device is unregistered: gone, and not yet released.
LEMMA UnregisterEffect ==
  ASSUME TypeOK, DevInv, NEW x \in Actors, Unregister(x)
  PROVE  LET d == arg[x].dev IN
         /\ d \in Objs /\ d \notin ToSet(list) /\ dev[d].state = "registered" /\ dev[d].counted
         /\ dev'[d].state = "gone" /\ dev'[d].counted
         /\ \A e \in Objs \ {d} : dev'[e] = dev[e]
<1> DEFINE d == arg[x].dev
<1>1. d \in Objs /\ d \notin ToSet(list) /\ dev[d].state = "registered" /\ dev[d].counted
  BY DEF Unregister, DevInv, ActorOK, OwnDev, DevPcs, DelPcs
<1>2. dev[d] \in DevStates /\ dev \in [Objs -> DevStates \cup {NoDev}]
  BY <1>1, DevTyped DEF TypeOK
<1>3. dev' = [dev EXCEPT ![d].state = "gone", ![d].probe = "no"]
  BY DEF Unregister
<1> HIDE DEF d
<1>4. /\ dev'[d] = [dev[d] EXCEPT !.state = "gone", !.probe = "no"]
      /\ \A e \in Objs \ {d} : dev'[e] = dev[e]
  BY <1>1, <1>2, <1>3
<1>5. dev'[d].state = "gone" /\ (dev'[d].counted <=> dev[d].counted)
  BY <1>2, <1>4 DEF DevStates
<1> QED
  BY <1>1, <1>4, <1>5 DEF d

\* nsim_bus_dev_release.
LEMMA ReleaseEffect ==
  ASSUME TypeOK, NEW d \in Objs, Release(d)
  PROVE  /\ dev[d].state = "gone" /\ dev'[d].state = "none" /\ dev'[d] = NoDev
         /\ \A e \in Objs \ {d} : dev'[e] = dev[e]
<1>1. dev' = [dev EXCEPT ![d] = NoDev] /\ dev[d].state = "gone" /\ dev \in [Objs -> DevStates \cup {NoDev}]
  BY DEF Release, TypeOK
<1> QED
  BY <1>1 DEF NoDev

\* Every step keeps the devices.
LEMMA DevStep ==
  ASSUME NsimBusAssumption, TypeOK, LockInv, DevInv, [Next]_vars
  PROVE  DevInv'
<1> USE DEF NewPcs, DelPcs
<1>a. \A x, y \in Actors : (pc[x] \in NewPcs \cup DelPcs /\ pc[y] \in NewPcs \cup DelPcs) => x = y
  BY OneAtWork
<1>b. /\ pc \in [Actors -> AllPcs] /\ arg \in [Actors -> ArgStates]
      /\ Module \in Actors /\ \A w \in Writers : w \in Actors
  BY DEF TypeOK, Actors
<1>c. ListOK /\ (\A x \in Actors : ActorOK(x)) /\ HeldOK /\ PortOK
  BY DEF DevInv
<1>d. ASSUME dev' = dev, list' = list, port' = port, arg' = arg,
             pc'[Module] \notin NewPcs \cup DelPcs, pc[Module] \notin NewPcs \cup DelPcs,
             \A y \in Actors \ {Module} : pc'[y] = pc[y]
      PROVE  DevInv'
  <2>1. ASSUME NEW y \in Actors PROVE ActorOK(y)'
    BY <1>c, <1>d DEF ActorOK, OwnDev, DevPcs
  <2>2. HeldOK'
    BY <1>c, <1>d DEF HeldOK, DevPcs
  <2> QED
    BY <1>c, <1>d, <2>1, <2>2 DEF DevInv, ListOK, PortOK
<1>1. ASSUME NEW w \in Writers, NewBegin(w) PROVE DevInv'
  <2>0. \A y \in Actors \ {w} : pc'[y] = pc[y] /\ arg'[y] = arg[y]
    BY <1>1, <1>b DEF NewBegin, Goto
  <2>1. PICK i \in Ids, b \in Addrs : arg' = [arg EXCEPT ![w] = [NoArg EXCEPT !.id = i, !.addr = b]]
    BY <1>1 DEF NewBegin
  <2>2. arg'[w].id = i /\ arg'[w].addr = b
    BY <1>b, <2>1 DEF NoArg
  <2>3. \E d \in Objs : dev[d].state = "none"
    BY <1>1, DevTyped DEF NewBegin, Live
  <2>4. ASSUME NEW y \in Actors PROVE ActorOK(y)'
    BY <1>1, <1>b, <1>c, <2>0, <2>2, <2>3 DEF NewBegin, Goto, ActorOK, OwnDev, DevPcs
  <2>5. HeldOK'
    BY <1>1, <1>b, <1>c, <2>0 DEF NewBegin, HeldOK, DevPcs
  <2> QED
    BY <1>1, <1>c, <2>4, <2>5 DEF NewBegin, DevInv, ListOK, PortOK
<1>2. ASSUME NEW w \in Writers, DelBegin(w) PROVE DevInv'
  <2>1. PICK k \in DOMAIN list : Take(w, k)
    BY <1>2 DEF DelBegin
  <2> DEFINE d == list[k]
  <2>2. /\ d \in Objs /\ d \in ToSet(list) /\ dev[d].id \in Ids /\ dev[d].addr \in Addrs
        /\ NoRepeat(list') /\ ToSet(list') = ToSet(list) \ {d}
    BY <2>1, ListedTyped DEF Take
  <2>3. /\ arg'[w].id = dev[d].id /\ arg'[w].addr = dev[d].addr /\ arg'[w].dev = d /\ pc'[w] = "unlist"
        /\ \A y \in Actors \ {w} : pc'[y] = pc[y] /\ arg'[y] = arg[y]
    <3>1. /\ arg' = [arg EXCEPT ![w] = [NoArg EXCEPT !.id = dev[d].id, !.addr = dev[d].addr, !.dev = d]]
          /\ pc' = [pc EXCEPT ![w] = "unlist"]
      BY <2>1 DEF Take, Goto
    <3> QED
      BY <1>b, <3>1 DEF NoArg
  <2>4. dev' = dev /\ port' = port
    BY <1>2 DEF DelBegin
  <2> HIDE DEF d
  <2>5. ListOK'
    BY <1>c, <2>2, <2>4 DEF ListOK
  <2>6. ASSUME NEW y \in Actors PROVE ActorOK(y)'
    BY <1>b, <1>c, <2>2, <2>3, <2>4 DEF ActorOK, OwnDev, ListOK, DevPcs
  <2>7. HeldOK'
    BY <1>2, <1>b, <1>c, <2>2, <2>3, <2>4 DEF DelBegin, HeldOK, DevPcs
  <2> QED
    BY <1>c, <2>4, <2>5, <2>6, <2>7 DEF DevInv, PortOK
<1>3. ASSUME NEW w \in Writers, NewCreate(w) PROVE DevInv'
  BY <1>3, <1>a, <1>b, <1>c
     DEF NewCreate, Goto, DevInv, ListOK, ActorOK, HeldOK, PortOK, OwnDev, DevPcs, busVars, pciVars
<1>4. ASSUME NEW w \in Writers, NewCreateFails(w) PROVE DevInv'
  BY <1>4, <1>a, <1>b, <1>c
     DEF NewCreateFails, Return, NoArg, Goto, DevInv, ListOK, ActorOK, HeldOK, PortOK, OwnDev, DevPcs,
         busVars, pciVars
<1>5. ASSUME NEW w \in Writers, NewWithoutRoot(w) PROVE DevInv'
  BY <1>5, <1>a, <1>b, <1>c
     DEF NewWithoutRoot, Goto, DevInv, ListOK, ActorOK, HeldOK, PortOK, OwnDev, DevPcs, busVars, pciVars
<1>6. ASSUME NEW w \in Writers, NewScan(w) PROVE DevInv'
  BY <1>6, <1>a, <1>b, <1>c
     DEF NewScan, Rescan, Found, Goto, DevInv, ListOK, ActorOK, HeldOK, PortOK, OwnDev, DevPcs, busVars,
         pciVars
<1>7. ASSUME NEW w \in Writers, NewRegister(w) PROVE DevInv'
  <2> DEFINE d == Fresh
  <2>e. /\ d \in Objs /\ \A c \in Objs \ {d} : dev'[c] = dev[c]
        /\ dev[d].state = "none" /\ dev'[d].state = "registered" /\ dev'[d].id = arg[w].id
        /\ dev'[d].addr = arg[w].addr /\ ~dev'[d].init /\ ~dev'[d].counted
        /\ arg'[w].dev = d /\ arg'[w].id = arg[w].id /\ arg'[w].addr = arg[w].addr
    BY <1>7, RegisterEffect
  <2>f. /\ list' = list /\ port' = port
        /\ pc'[w] = "probe" /\ TRUE
    BY <1>7, <1>b DEF NewRegister, Goto, ArgStates
  <2>g. ActorOK(w)
    BY <1>7, <1>b, <1>c DEF NewRegister, ActorOK, DevPcs
  <2>i. \A y \in Actors \ {w} : pc[y] \notin NewPcs \cup DelPcs /\ pc'[y] = pc[y] /\ arg'[y] = arg[y]
    BY <1>7, <1>a, <1>b DEF NewRegister, Goto
  <2>p. pc[w] = "register"
    BY <1>7 DEF NewRegister
  <2> HIDE DEF d
  <2>1. ListOK'
    BY <1>c, <2>e, <2>f, <2>g, <2>p DEF ListOK, OwnDev
  <2>2. ASSUME NEW y \in Actors PROVE ActorOK(y)'
    <3>1. CASE y = w
      BY <1>b, <1>c, <2>e, <2>f, <2>g, <2>p, <3>1 DEF ActorOK, OwnDev, ListOK, DevPcs
    <3> QED
      BY <2>i, <3>1 DEF ActorOK, DevPcs
  <2>3. HeldOK'
    BY <1>b, <1>c, <2>e, <2>f, <2>g, <2>i, <2>p DEF HeldOK, OwnDev, DevPcs
  <2>4. PortOK'
    BY <1>7, <1>b, <1>c, <2>e, <2>f DEF PortOK, TypeOK
  <2> QED
    BY <2>1, <2>2, <2>3, <2>4 DEF DevInv
<1>8. ASSUME NEW w \in Writers, NewIdFails(w) PROVE DevInv'
  BY <1>8, <1>a, <1>b, <1>c
     DEF NewIdFails, Return, NoArg, Goto, DevInv, ListOK, ActorOK, HeldOK, PortOK, OwnDev, DevPcs, busVars,
         pciVars
<1>9. ASSUME NEW w \in Writers, NewRegisterFails(w) PROVE DevInv'
  BY <1>9, <1>a, <1>b, <1>c
     DEF NewRegisterFails, DropCount, Dec, Saturated, Goto, DevInv, ListOK, ActorOK, HeldOK, PortOK, OwnDev,
         DevPcs, busVars, pciVars
<1>10. ASSUME NEW w \in Writers, NewProbe(w) PROVE DevInv'
  <2> DEFINE d == arg[w].dev
  <2>e. /\ d \in Objs /\ \A c \in Objs \ {d} : dev'[c] = dev[c]
        /\ dev'[d].probe # "no" /\ (dev'[d].init <=> dev[d].init) /\ (dev'[d].counted <=> dev[d].counted)
        /\ dev'[d].state = dev[d].state /\ dev'[d].id = dev[d].id /\ dev'[d].addr = dev[d].addr
    BY <1>10, ProbeEffect
  <2>f. /\ list' = list /\ port' = port
        /\ pc'[w] = "finish" /\ arg'[w] = arg[w]
    BY <1>10, <1>b DEF NewProbe, Goto, busVars, ArgStates
  <2>g. OwnDev(w) /\ ActorOK(w)
    BY <1>10, <1>b, <1>c DEF NewProbe, ActorOK, DevPcs
  <2>h. d = arg[w].dev
    OBVIOUS
  <2>i. \A y \in Actors \ {w} : pc[y] \notin NewPcs \cup DelPcs /\ pc'[y] = pc[y] /\ arg'[y] = arg[y]
    BY <1>10, <1>a, <1>b DEF NewProbe, Goto, busVars
  <2>p. pc[w] = "probe"
    BY <1>10 DEF NewProbe
  <2> HIDE DEF d
  <2>1. ListOK'
    BY <1>c, <2>e, <2>f, <2>g, <2>h, <2>p DEF ListOK, OwnDev
  <2>2. ASSUME NEW y \in Actors PROVE ActorOK(y)'
    <3>1. CASE y = w
      BY <1>b, <1>c, <2>e, <2>f, <2>g, <2>h, <2>p, <3>1 DEF ActorOK, OwnDev, ListOK, DevPcs
    <3> QED
      BY <2>i, <3>1 DEF ActorOK, DevPcs
  <2>3. HeldOK'
    BY <1>b, <1>c, <2>e, <2>f, <2>g, <2>h, <2>i, <2>p DEF HeldOK, OwnDev, DevPcs
  <2>4. PortOK'
    BY <1>10, <1>b, <1>c, <2>e, <2>f DEF PortOK, TypeOK
  <2> QED
    BY <2>1, <2>2, <2>3, <2>4 DEF DevInv
<1>11. ASSUME NEW w \in Writers, NewFinish(w) PROVE DevInv'
  <2> DEFINE d == arg[w].dev
  <2>e. /\ d \in Objs /\ \A c \in Objs \ {d} : dev'[c] = dev[c]
        /\ dev'[d].probe # "no" /\ dev'[d].init /\ dev'[d].counted
        /\ dev'[d].state = dev[d].state /\ dev'[d].id = dev[d].id /\ dev'[d].addr = dev[d].addr
        /\ NoRepeat(list') /\ ToSet(list') = ToSet(list) \cup {d}
    BY <1>11, FinishEffect
  <2>f. /\ port' = port
        /\ pc'[w] = "idle" /\ TRUE
    BY <1>11, <1>b DEF NewFinish, Return, NoArg, Goto, ArgStates
  <2>g. OwnDev(w) /\ ActorOK(w)
    BY <1>11, <1>b, <1>c DEF NewFinish, ActorOK, DevPcs
  <2>h. d = arg[w].dev
    OBVIOUS
  <2>i. \A y \in Actors \ {w} : pc[y] \notin NewPcs \cup DelPcs /\ pc'[y] = pc[y] /\ arg'[y] = arg[y]
    BY <1>11, <1>a, <1>b DEF NewFinish, Return, NoArg, Goto
  <2>p. pc[w] = "finish"
    BY <1>11 DEF NewFinish
  <2> HIDE DEF d
  <2>1. ListOK'
    BY <1>c, <2>e, <2>f, <2>g, <2>h, <2>p DEF ListOK, OwnDev
  <2>2. ASSUME NEW y \in Actors PROVE ActorOK(y)'
    <3>1. CASE y = w
      BY <1>b, <1>c, <2>e, <2>f, <2>g, <2>h, <2>p, <3>1 DEF ActorOK, OwnDev, ListOK, DevPcs
    <3> QED
      BY <2>i, <3>1 DEF ActorOK, DevPcs
  <2>3. HeldOK'
    BY <1>b, <1>c, <2>e, <2>f, <2>g, <2>h, <2>i, <2>p DEF HeldOK, OwnDev, DevPcs
  <2>4. PortOK'
    BY <1>11, <1>b, <1>c, <2>e, <2>f DEF PortOK, TypeOK
  <2> QED
    BY <2>1, <2>2, <2>3, <2>4 DEF DevInv
<1>12. ASSUME NEW x \in Actors, Unlist(x) PROVE DevInv'
  BY <1>12, <1>a, <1>b, <1>c
     DEF Unlist, Goto, DevInv, ListOK, ActorOK, HeldOK, PortOK, OwnDev, DevPcs, busVars, pciVars
<1>13. ASSUME NEW x \in Actors, Stop(x) PROVE DevInv'
  <2> DEFINE d == arg[x].dev
  <2>e. /\ d \in Objs /\ \A c \in Objs \ {d} : dev'[c] = dev[c]
        /\ dev'[d].probe = dev[d].probe /\ ~dev'[d].init /\ (dev'[d].counted <=> dev[d].counted)
        /\ dev'[d].state = dev[d].state /\ dev'[d].id = dev[d].id /\ dev'[d].addr = dev[d].addr
    BY <1>13, StopEffect
  <2>f. /\ list' = list /\ port' = port
        /\ pc'[x] = "unregister" /\ arg'[x] = arg[x]
    BY <1>13, <1>b DEF Stop, Goto, ArgStates
  <2>g. OwnDev(x) /\ ActorOK(x)
    BY <1>13, <1>b, <1>c DEF Stop, ActorOK, DevPcs
  <2>h. d = arg[x].dev
    OBVIOUS
  <2>i. \A y \in Actors \ {x} : pc[y] \notin NewPcs \cup DelPcs /\ pc'[y] = pc[y] /\ arg'[y] = arg[y]
    BY <1>13, <1>a, <1>b DEF Stop, Goto
  <2>p. pc[x] = "stop"
    BY <1>13 DEF Stop
  <2> HIDE DEF d
  <2>1. ListOK'
    BY <1>c, <2>e, <2>f, <2>g, <2>h, <2>p DEF ListOK, OwnDev
  <2>2. ASSUME NEW y \in Actors PROVE ActorOK(y)'
    <3>1. CASE y = x
      BY <1>b, <1>c, <2>e, <2>f, <2>g, <2>h, <2>p, <3>1 DEF ActorOK, OwnDev, ListOK, DevPcs
    <3> QED
      BY <2>i, <3>1 DEF ActorOK, DevPcs
  <2>3. HeldOK'
    BY <1>b, <1>c, <2>e, <2>f, <2>g, <2>h, <2>i, <2>p DEF HeldOK, OwnDev, DevPcs
  <2>4. PortOK'
    BY <1>13, <1>b, <1>c, <2>e, <2>f DEF PortOK, TypeOK
  <2> QED
    BY <2>1, <2>2, <2>3, <2>4 DEF DevInv
<1>14. ASSUME NEW x \in Actors, Unregister(x) PROVE DevInv'
  <2> DEFINE d == arg[x].dev
  <2>e. /\ d \in Objs /\ \A c \in Objs \ {d} : dev'[c] = dev[c]
        /\ dev'[d].state = "gone" /\ dev'[d].counted
    BY <1>14, UnregisterEffect
  <2>f. /\ list' = list /\ port' = port
        /\ pc'[x] = (IF x = Module THEN "loop" ELSE "idle") /\ TRUE
    BY <1>14, <1>b DEF Unregister, Return, NoArg, Goto, ArgStates
  <2>g. OwnDev(x) /\ ActorOK(x)
    BY <1>14, <1>b, <1>c DEF Unregister, ActorOK, DevPcs
  <2>h. d = arg[x].dev
    OBVIOUS
  <2>i. \A y \in Actors \ {x} : pc[y] \notin NewPcs \cup DelPcs /\ pc'[y] = pc[y] /\ arg'[y] = arg[y]
    BY <1>14, <1>a, <1>b DEF Unregister, Return, NoArg, Goto
  <2>p. pc[x] = "unregister"
    BY <1>14 DEF Unregister
  <2> HIDE DEF d
  <2>1. ListOK'
    BY <1>c, <2>e, <2>f, <2>g, <2>h, <2>p DEF ListOK, OwnDev
  <2>2. ASSUME NEW y \in Actors PROVE ActorOK(y)'
    <3>1. CASE y = x
      BY <1>b, <1>c, <2>e, <2>f, <2>g, <2>h, <2>p, <3>1 DEF ActorOK, OwnDev, ListOK, DevPcs
    <3> QED
      BY <2>i, <3>1 DEF ActorOK, DevPcs
  <2>3. HeldOK'
    BY <1>b, <1>c, <2>e, <2>f, <2>g, <2>h, <2>i, <2>p DEF HeldOK, OwnDev, DevPcs
  <2>4. PortOK'
    BY <1>14, <1>b, <1>c, <2>e, <2>f DEF PortOK, TypeOK, Unregister
  <2> QED
    BY <2>1, <2>2, <2>3, <2>4 DEF DevInv
<1>15. ASSUME NEW d \in Objs, PortBegin(d) PROVE DevInv'
  BY <1>15, <1>a, <1>b, <1>c DEF PortBegin, DevInv, ListOK, ActorOK, HeldOK, PortOK, OwnDev, DevPcs, busVars, pciVars
<1>16. ASSUME NEW d \in Objs, Release(d) PROVE DevInv'
  <2>e. /\ dev[d].state = "gone" /\ dev'[d].state = "none"
        /\ \A c \in Objs \ {d} : dev'[c] = dev[c]
    BY <1>16, ReleaseEffect
  <2>f. list' = list /\ port' = port /\ pc' = pc /\ arg' = arg
    BY <1>16 DEF Release
  <2>1. ListOK'
    BY <1>c, <2>e, <2>f DEF ListOK
  <2>2. ASSUME NEW y \in Actors PROVE ActorOK(y)'
    BY <1>b, <1>c, <2>e, <2>f DEF ActorOK, OwnDev, DevPcs
  <2>3. HeldOK'
    BY <1>b, <1>c, <2>e, <2>f DEF HeldOK
  <2>4. PortOK'
    BY <1>b, <1>c, <2>e, <2>f DEF PortOK, TypeOK
  <2> QED
    BY <2>1, <2>2, <2>3, <2>4 DEF DevInv
<1>17. ASSUME NEW a \in Addrs, PciRemove(a) PROVE DevInv'
  BY <1>17, <1>a, <1>b, <1>c DEF PciRemove, DevInv, ListOK, ActorOK, HeldOK, PortOK, OwnDev, DevPcs, busVars, pciVars
<1>18. CASE PortEnd
  BY <1>18, <1>a, <1>b, <1>c DEF PortEnd, DevInv, ListOK, ActorOK, HeldOK, PortOK, OwnDev, DevPcs, busVars, pciVars
<1>19. CASE PciRescan
  BY <1>19, <1>a, <1>b, <1>c
     DEF PciRescan, Rescan, Found, DevInv, ListOK, ActorOK, HeldOK, PortOK, OwnDev, DevPcs, busVars, pciVars
<1>20. CASE LoadPci
  <2>1. /\ dev' = dev /\ list' = list /\ port' = port /\ arg' = arg
        /\ pc'[Module] \notin NewPcs \cup DelPcs /\ pc[Module] \notin NewPcs \cup DelPcs
        /\ \A y \in Actors \ {Module} : pc'[y] = pc[y]
    BY <1>20, <1>b DEF LoadPci, Goto, busVars
  <2> QED
    BY <1>d, <2>1
<1>21. CASE LoadBus
  <2>1. /\ dev' = dev /\ list' = list /\ port' = port /\ arg' = arg
        /\ pc'[Module] \notin NewPcs \cup DelPcs /\ pc[Module] \notin NewPcs \cup DelPcs
        /\ \A y \in Actors \ {Module} : pc'[y] = pc[y]
    BY <1>21, <1>b DEF LoadBus, Goto, busVars
  <2> QED
    BY <1>d, <2>1
<1>22. CASE LoadBusFails
  <2>1. /\ dev' = dev /\ list' = list /\ port' = port /\ arg' = arg
        /\ pc'[Module] \notin NewPcs \cup DelPcs /\ pc[Module] \notin NewPcs \cup DelPcs
        /\ \A y \in Actors \ {Module} : pc'[y] = pc[y]
    BY <1>22, <1>b DEF LoadBusFails, Goto, busVars
  <2> QED
    BY <1>d, <2>1
<1>23. CASE LoadLink
  <2>1. /\ dev' = dev /\ list' = list /\ port' = port /\ arg' = arg
        /\ pc'[Module] \notin NewPcs \cup DelPcs /\ pc[Module] \notin NewPcs \cup DelPcs
        /\ \A y \in Actors \ {Module} : pc'[y] = pc[y]
    BY <1>23, <1>b DEF LoadLink, Goto, busVars
  <2> QED
    BY <1>d, <2>1
<1>24. CASE ExitBegin
  <2>1. /\ dev' = dev /\ list' = list /\ port' = port /\ arg' = arg
        /\ pc'[Module] \notin NewPcs \cup DelPcs /\ pc[Module] \notin NewPcs \cup DelPcs
        /\ \A y \in Actors \ {Module} : pc'[y] = pc[y]
    BY <1>24, <1>b DEF ExitBegin, Goto, busVars
  <2> QED
    BY <1>d, <2>1
<1>25. CASE ExitDisable
  <2>1. /\ dev' = dev /\ list' = list /\ port' = port /\ arg' = arg
        /\ pc'[Module] \notin NewPcs \cup DelPcs /\ pc[Module] \notin NewPcs \cup DelPcs
        /\ \A y \in Actors \ {Module} : pc'[y] = pc[y]
    BY <1>25, <1>b DEF ExitDisable, Goto, busVars
  <2> QED
    BY <1>d, <2>1
<1>26. CASE ExitDrop
  <2>1. /\ dev' = dev /\ list' = list /\ port' = port /\ arg' = arg
        /\ pc'[Module] \notin NewPcs \cup DelPcs /\ pc[Module] \notin NewPcs \cup DelPcs
        /\ \A y \in Actors \ {Module} : pc'[y] = pc[y]
    BY <1>26, <1>b DEF ExitDrop, Goto, busVars
  <2> QED
    BY <1>d, <2>1
<1>27. CASE ExitLock
  <2>1. /\ dev' = dev /\ list' = list /\ port' = port /\ arg' = arg
        /\ pc'[Module] \notin NewPcs \cup DelPcs /\ pc[Module] \notin NewPcs \cup DelPcs
        /\ \A y \in Actors \ {Module} : pc'[y] = pc[y]
    BY <1>27, <1>b DEF ExitLock, Goto, busVars
  <2> QED
    BY <1>d, <2>1
<1>28. CASE ExitNext
  <2>1. PICK k \in DOMAIN list : Take(Module, k)
    <3>1. list \in Seq(Objs) /\ list # <<>>
      BY <1>28 DEF ExitNext, TypeOK
    <3>2. 1 \in DOMAIN list
      BY <3>1, EmptySeq, LenProperties
    <3> QED
      BY <1>28, <3>2 DEF ExitNext
  <2> DEFINE d == list[k]
  <2>2. /\ d \in Objs /\ d \in ToSet(list) /\ dev[d].id \in Ids /\ dev[d].addr \in Addrs
        /\ NoRepeat(list') /\ ToSet(list') = ToSet(list) \ {d}
    BY <2>1, ListedTyped DEF Take
  <2>3. /\ arg'[Module].id = dev[d].id /\ arg'[Module].addr = dev[d].addr /\ arg'[Module].dev = d /\ pc'[Module] = "unlist"
        /\ \A y \in Actors \ {Module} : pc'[y] = pc[y] /\ arg'[y] = arg[y]
    <3>1. /\ arg' = [arg EXCEPT ![Module] = [NoArg EXCEPT !.id = dev[d].id, !.addr = dev[d].addr, !.dev = d]]
          /\ pc' = [pc EXCEPT ![Module] = "unlist"]
      BY <2>1 DEF Take, Goto
    <3> QED
      BY <1>b, <3>1 DEF NoArg
  <2>4. dev' = dev /\ port' = port
    BY <1>28 DEF ExitNext
  <2> HIDE DEF d
  <2>5. ListOK'
    BY <1>c, <2>2, <2>4 DEF ListOK
  <2>6. ASSUME NEW y \in Actors PROVE ActorOK(y)'
    BY <1>b, <1>c, <2>2, <2>3, <2>4 DEF ActorOK, OwnDev, ListOK, DevPcs
  <2>7. HeldOK'
    BY <1>28, <1>b, <1>c, <2>2, <2>3, <2>4 DEF ExitNext, HeldOK, DevPcs
  <2> QED
    BY <1>c, <2>4, <2>5, <2>6, <2>7 DEF DevInv, PortOK
<1>29. CASE ExitUnlock
  <2>1. /\ dev' = dev /\ list' = list /\ port' = port /\ arg' = arg
        /\ pc'[Module] \notin NewPcs \cup DelPcs /\ pc[Module] \notin NewPcs \cup DelPcs
        /\ \A y \in Actors \ {Module} : pc'[y] = pc[y]
    BY <1>29, <1>b DEF ExitUnlock, Goto, busVars
  <2> QED
    BY <1>d, <2>1
<1>30. CASE ExitWait
  <2>1. /\ dev' = dev /\ list' = list /\ port' = port /\ arg' = arg
        /\ pc'[Module] \notin NewPcs \cup DelPcs /\ pc[Module] \notin NewPcs \cup DelPcs
        /\ \A y \in Actors \ {Module} : pc'[y] = pc[y]
    BY <1>30, <1>b DEF ExitWait, Goto, busVars
  <2> QED
    BY <1>d, <2>1
<1>31. CASE ExitEnd
  <2>1. /\ dev' = dev /\ list' = list /\ port' = port /\ arg' = arg
        /\ pc'[Module] \notin NewPcs \cup DelPcs /\ pc[Module] \notin NewPcs \cup DelPcs
        /\ \A y \in Actors \ {Module} : pc'[y] = pc[y]
    BY <1>31, <1>b DEF ExitEnd, Goto, busVars
  <2> QED
    BY <1>d, <2>1
<1>32. CASE UNCHANGED vars
  BY <1>32, <1>a, <1>b, <1>c
     DEF vars, busVars, pciVars, DevInv, ListOK, ActorOK, HeldOK, PortOK, OwnDev, DevPcs, busVars, pciVars
<1> QED
  BY <1>1, <1>2, <1>3, <1>4, <1>5, <1>6, <1>7, <1>8, <1>9, <1>10, <1>11, <1>12, <1>13, <1>14, <1>15, <1>16,
     <1>17, <1>18, <1>19, <1>20, <1>21, <1>22, <1>23, <1>24, <1>25, <1>26, <1>27, <1>28, <1>29, <1>30, <1>31,
     <1>32
     DEF Next, WriterSteps, DelSteps, ExitSteps
-----------------------------------------------------------------------------
(* Loading and unloading, and the count of devices. *)

\* Every step keeps the phases of the module.
LEMMA PhaseStep ==
  ASSUME NsimBusAssumption, TypeOK, LockInv, DevInv, PhaseOK, [Next]_vars
  PROVE  PhaseOK'
<1>a. /\ pc \in [Actors -> AllPcs] /\ Module \in Actors /\ Module \notin Writers
      /\ \A w \in Writers : w \in Actors
  BY DEF TypeOK, Actors, NsimBusAssumption
<1>b. \A x \in Actors : ActorOK(x)
  BY DEF DevInv
<1>c. enable => pc[Module] \in {"load link", "loaded", "disable"}
  BY DEF LockInv
<1>1. ASSUME NEW w \in Writers, NewBegin(w) PROVE PhaseOK'
  BY <1>1, <1>a, <1>c DEF NewBegin, NoArg, Goto, PhaseOK, NewPcs, DelPcs, LoadPcs, OwnPcs, busVars, NsimBusAssumption
<1>2. ASSUME NEW w \in Writers, DelBegin(w) PROVE PhaseOK'
  BY <1>2, <1>a, <1>c
     DEF DelBegin, Take, NoArg, Goto, PhaseOK, NewPcs, DelPcs, LoadPcs, OwnPcs, busVars, NsimBusAssumption
<1>3. ASSUME NEW w \in Writers, NewCreate(w) PROVE PhaseOK'
  BY <1>3, <1>a, <1>c DEF NewCreate, Goto, PhaseOK, NewPcs, DelPcs, LoadPcs, OwnPcs, busVars, NsimBusAssumption
<1>4. ASSUME NEW w \in Writers, NewCreateFails(w) PROVE PhaseOK'
  BY <1>4, <1>a, <1>c
     DEF NewCreateFails, Return, NoArg, Goto, PhaseOK, NewPcs, DelPcs, LoadPcs, OwnPcs, busVars,
         NsimBusAssumption
<1>5. ASSUME NEW w \in Writers, NewWithoutRoot(w) PROVE PhaseOK'
  BY <1>5, <1>a, <1>c DEF NewWithoutRoot, Goto, PhaseOK, NewPcs, DelPcs, LoadPcs, OwnPcs, busVars, NsimBusAssumption
<1>6. ASSUME NEW w \in Writers, NewScan(w) PROVE PhaseOK'
  BY <1>6, <1>a, <1>c
     DEF NewScan, Rescan, Found, Goto, PhaseOK, NewPcs, DelPcs, LoadPcs, OwnPcs, busVars, NsimBusAssumption
<1>7. ASSUME NEW w \in Writers, NewRegister(w) PROVE PhaseOK'
  <2>1. pc[w] \in NewPcs /\ pc[w] # "idle"
    BY <1>7 DEF NewRegister, NewPcs
  <2>2. pc[Module] \notin LoadPcs
    BY <2>1 DEF PhaseOK
  <2>3. /\ pc'[Module] = pc[Module]
        /\ \A v \in Writers : pc'[v] \in NewPcs => pc[v] \in NewPcs
    BY <1>7, <1>a, <2>1 DEF NewRegister, Goto, NsimBusAssumption, NewPcs
  <2>4. raced' = raced /\ released' = released
    BY <1>7 DEF NewRegister, busVars
  <2> QED
    BY <2>2, <2>3, <2>4 DEF PhaseOK
<1>8. ASSUME NEW w \in Writers, NewIdFails(w) PROVE PhaseOK'
  BY <1>8, <1>a, <1>c
     DEF NewIdFails, Return, NoArg, Goto, PhaseOK, NewPcs, DelPcs, LoadPcs, OwnPcs, busVars,
         NsimBusAssumption
<1>9. ASSUME NEW w \in Writers, NewRegisterFails(w) PROVE PhaseOK'
  BY <1>9, <1>a, <1>c
     DEF NewRegisterFails, DropCount, Dec, Saturated, Goto, PhaseOK, NewPcs, DelPcs, LoadPcs, OwnPcs,
         busVars, NsimBusAssumption
<1>10. ASSUME NEW w \in Writers, NewProbe(w) PROVE PhaseOK'
  <2>1. pc[w] \in NewPcs /\ pc[w] # "idle"
    BY <1>10 DEF NewProbe, NewPcs
  <2>2. pc[Module] \notin LoadPcs
    BY <2>1 DEF PhaseOK
  <2>3. /\ pc'[Module] = pc[Module]
        /\ \A v \in Writers : pc'[v] \in NewPcs => pc[v] \in NewPcs
    BY <1>10, <1>a, <2>1 DEF NewProbe, Goto, NsimBusAssumption, NewPcs
  <2>4. raced' = raced /\ released' = released
    BY <1>10 DEF NewProbe, busVars
  <2> QED
    BY <2>2, <2>3, <2>4 DEF PhaseOK
<1>11. ASSUME NEW w \in Writers, NewFinish(w) PROVE PhaseOK'
  <2>1. pc[w] \in NewPcs /\ pc[w] # "idle"
    BY <1>11 DEF NewFinish, NewPcs
  <2>2. pc[Module] \notin LoadPcs
    BY <2>1 DEF PhaseOK
  <2>3. /\ pc'[Module] = pc[Module]
        /\ \A v \in Writers : pc'[v] \in NewPcs => pc[v] \in NewPcs
    BY <1>11, <1>a, <2>1 DEF NewFinish, Return, NoArg, Goto, NsimBusAssumption, NewPcs
  <2>4. raced' = raced /\ released' = released
    BY <1>11 DEF NewFinish, busVars
  <2> QED
    BY <2>2, <2>3, <2>4 DEF PhaseOK
<1>12. ASSUME NEW x \in Actors, Unlist(x) PROVE PhaseOK'
  BY <1>12, <1>a, <1>c DEF Unlist, Goto, PhaseOK, NewPcs, DelPcs, LoadPcs, OwnPcs, busVars, NsimBusAssumption
<1>13. ASSUME NEW x \in Actors, Stop(x) PROVE PhaseOK'
  <2>1. pc[Module] \notin LoadPcs
    BY <1>13, <1>a, <1>b DEF Stop, ActorOK, OwnDev, PhaseOK, LockInv, LoadPcs, DelPcs, DevPcs, Actors
  <2>2. \A w \in Writers : pc'[w] \in NewPcs => pc[w] \in NewPcs
    BY <1>13, <1>a DEF Stop, Goto, NewPcs
  <2>3. pc'[Module] = pc[Module] \/ (pc[Module] \in DelPcs /\ pc'[Module] \in DelPcs \cup {"loop"})
    BY <1>13, <1>a DEF Stop, Goto, DelPcs
  <2>4. raced' = raced /\ released' = released
    BY <1>13 DEF Stop
  <2> QED
    BY <2>1, <2>2, <2>3, <2>4 DEF PhaseOK, OwnPcs, LoadPcs, DelPcs
<1>14. ASSUME NEW x \in Actors, Unregister(x) PROVE PhaseOK'
  <2>1. pc[Module] \notin LoadPcs
    BY <1>14, <1>a, <1>b DEF Unregister, ActorOK, OwnDev, PhaseOK, LockInv, LoadPcs, DelPcs, DevPcs, Actors
  <2>2. \A w \in Writers : pc'[w] \in NewPcs => pc[w] \in NewPcs
    BY <1>14, <1>a DEF Unregister, Return, NoArg, Goto, NewPcs
  <2>3. pc'[Module] = pc[Module] \/ (pc[Module] \in DelPcs /\ pc'[Module] \in DelPcs \cup {"loop"})
    BY <1>14, <1>a DEF Unregister, Return, NoArg, Goto, DelPcs
  <2>4. raced' = raced /\ released' = released
    BY <1>14 DEF Unregister
  <2> QED
    BY <2>1, <2>2, <2>3, <2>4 DEF PhaseOK, OwnPcs, LoadPcs, DelPcs
<1>15. ASSUME NEW d \in Objs, PortBegin(d) PROVE PhaseOK'
  BY <1>15, <1>a, <1>c DEF PortBegin, PhaseOK, NewPcs, DelPcs, LoadPcs, OwnPcs, busVars, NsimBusAssumption
<1>16. ASSUME NEW d \in Objs, Release(d) PROVE PhaseOK'
  <2>1. pc[Module] \notin LoadPcs
    BY <1>16, ReleaseEffect DEF PhaseOK
  <2>2. pc' = pc /\ raced' = raced /\ (released => released')
    BY <1>16 DEF Release, DropCount
  <2> QED
    BY <2>1, <2>2 DEF PhaseOK
<1>17. ASSUME NEW a \in Addrs, PciRemove(a) PROVE PhaseOK'
  BY <1>17, <1>a, <1>c DEF PciRemove, PhaseOK, NewPcs, DelPcs, LoadPcs, OwnPcs, busVars, NsimBusAssumption
<1>18. CASE PortEnd
  BY <1>18, <1>a, <1>c DEF PortEnd, PhaseOK, NewPcs, DelPcs, LoadPcs, OwnPcs, busVars, NsimBusAssumption
<1>19. CASE PciRescan
  BY <1>19, <1>a, <1>c
     DEF PciRescan, Rescan, Found, PhaseOK, NewPcs, DelPcs, LoadPcs, OwnPcs, busVars, NsimBusAssumption
<1>20. CASE LoadPci
  BY <1>20, <1>a, <1>c DEF LoadPci, Goto, PhaseOK, NewPcs, DelPcs, LoadPcs, OwnPcs, busVars, NsimBusAssumption
<1>21. CASE LoadBus
  BY <1>21, <1>a, <1>c DEF LoadBus, Goto, PhaseOK, NewPcs, DelPcs, LoadPcs, OwnPcs, busVars, NsimBusAssumption
<1>22. CASE LoadBusFails
  BY <1>22, <1>a, <1>c DEF LoadBusFails, Goto, PhaseOK, NewPcs, DelPcs, LoadPcs, OwnPcs, busVars, NsimBusAssumption
<1>23. CASE LoadLink
  BY <1>23, <1>a, <1>c DEF LoadLink, Goto, PhaseOK, NewPcs, DelPcs, LoadPcs, OwnPcs, busVars, NsimBusAssumption
<1>24. CASE ExitBegin
  BY <1>24, <1>a, <1>c DEF ExitBegin, Goto, PhaseOK, NewPcs, DelPcs, LoadPcs, OwnPcs, busVars, NsimBusAssumption
<1>25. CASE ExitDisable
  BY <1>25, <1>a, <1>c DEF ExitDisable, Goto, PhaseOK, NewPcs, DelPcs, LoadPcs, OwnPcs, busVars, NsimBusAssumption
<1>26. CASE ExitDrop
  BY <1>26, <1>a, <1>c
     DEF ExitDrop, DropCount, Dec, Saturated, Goto, PhaseOK, NewPcs, DelPcs, LoadPcs, OwnPcs, busVars,
         NsimBusAssumption
<1>27. CASE ExitLock
  BY <1>27, <1>a, <1>c DEF ExitLock, Goto, PhaseOK, NewPcs, DelPcs, LoadPcs, OwnPcs, busVars, NsimBusAssumption
<1>28. CASE ExitNext
  BY <1>28, <1>a, <1>c
     DEF ExitNext, Take, NoArg, Goto, PhaseOK, NewPcs, DelPcs, LoadPcs, OwnPcs, busVars, NsimBusAssumption
<1>29. CASE ExitUnlock
  BY <1>29, <1>a, <1>c DEF ExitUnlock, Goto, PhaseOK, NewPcs, DelPcs, LoadPcs, OwnPcs, busVars, NsimBusAssumption
<1>30. CASE ExitWait
  BY <1>30, <1>a, <1>c DEF ExitWait, Goto, PhaseOK, NewPcs, DelPcs, LoadPcs, OwnPcs, busVars, NsimBusAssumption
<1>31. CASE ExitEnd
  BY <1>31, <1>a, <1>c DEF ExitEnd, Goto, PhaseOK, NewPcs, DelPcs, LoadPcs, OwnPcs, busVars, NsimBusAssumption
<1>32. CASE UNCHANGED vars
  BY <1>32, <1>a, <1>c
     DEF vars, busVars, pciVars, PhaseOK, NewPcs, DelPcs, LoadPcs, OwnPcs, busVars, NsimBusAssumption
<1> QED
  BY <1>1, <1>2, <1>3, <1>4, <1>5, <1>6, <1>7, <1>8, <1>9, <1>10, <1>11, <1>12, <1>13, <1>14, <1>15, <1>16,
     <1>17, <1>18, <1>19, <1>20, <1>21, <1>22, <1>23, <1>24, <1>25, <1>26, <1>27, <1>28, <1>29, <1>30, <1>31,
     <1>32
     DEF Next, WriterSteps, DelSteps, ExitSteps

\* Every step keeps the count of the devices.
LEMMA TallyStep ==
  ASSUME NsimBusAssumption, TypeOK, LockInv, DevInv, PhaseOK, TallyOK, [Next]_vars
  PROVE  TallyOK'
<1>a. /\ pc \in [Actors -> AllPcs] /\ Module \in Actors /\ Module \notin Writers
      /\ \A w \in Writers : w \in Actors
  BY DEF TypeOK, Actors, NsimBusAssumption
<1>c. IsFiniteSet(Counted)
  BY DEF TallyOK
<1>d. ASSUME dev' = dev, count' = count, released' = released, raced' = raced,
             Own' = Own, WriterDied => WriterDied'
      PROVE  TallyOK'
  <2>1. Counted' = Counted
    BY <1>d DEF Counted
  <2> QED
    BY <1>d, <2>1 DEF TallyOK
<1>1. ASSUME NEW w \in Writers, NewBegin(w) PROVE TallyOK'
  <2>1. dev' = dev /\ count' = count /\ released' = released /\ raced' = raced
    BY <1>1 DEF NewBegin, busVars
  <2>2. Own' = Own /\ (WriterDied => WriterDied')
    BY <1>1, <1>a DEF NewBegin, NoArg, Goto, busVars, Own, OwnPcs, WriterDied, DelPcs
  <2> QED
    BY <1>d, <2>1, <2>2
<1>2. ASSUME NEW w \in Writers, DelBegin(w) PROVE TallyOK'
  <2>1. dev' = dev /\ count' = count /\ released' = released /\ raced' = raced
    BY <1>2 DEF DelBegin, busVars
  <2>2. Own' = Own /\ (WriterDied => WriterDied')
    BY <1>2, <1>a DEF DelBegin, Take, NoArg, Goto, busVars, Own, OwnPcs, WriterDied, DelPcs
  <2> QED
    BY <1>d, <2>1, <2>2
<1>3. ASSUME NEW w \in Writers, NewCreate(w) PROVE TallyOK'
  <2>1. dev' = dev /\ count' = count /\ released' = released /\ raced' = raced
    BY <1>3 DEF NewCreate, busVars
  <2>2. Own' = Own /\ (WriterDied => WriterDied')
    BY <1>3, <1>a DEF NewCreate, Goto, busVars, Own, OwnPcs, WriterDied, DelPcs
  <2> QED
    BY <1>d, <2>1, <2>2
<1>4. ASSUME NEW w \in Writers, NewCreateFails(w) PROVE TallyOK'
  <2>1. dev' = dev /\ count' = count /\ released' = released /\ raced' = raced
    BY <1>4 DEF NewCreateFails, busVars
  <2>2. Own' = Own /\ (WriterDied => WriterDied')
    BY <1>4, <1>a DEF NewCreateFails, Return, NoArg, Goto, busVars, Own, OwnPcs, WriterDied, DelPcs
  <2> QED
    BY <1>d, <2>1, <2>2
<1>5. ASSUME NEW w \in Writers, NewWithoutRoot(w) PROVE TallyOK'
  <2>1. dev' = dev /\ count' = count /\ released' = released /\ raced' = raced
    BY <1>5 DEF NewWithoutRoot, busVars
  <2>2. Own' = Own /\ (WriterDied => WriterDied')
    BY <1>5, <1>a DEF NewWithoutRoot, Goto, busVars, Own, OwnPcs, WriterDied, DelPcs
  <2> QED
    BY <1>d, <2>1, <2>2
<1>6. ASSUME NEW w \in Writers, NewScan(w) PROVE TallyOK'
  <2>1. dev' = dev /\ count' = count /\ released' = released /\ raced' = raced
    BY <1>6 DEF NewScan, busVars
  <2>2. Own' = Own /\ (WriterDied => WriterDied')
    BY <1>6, <1>a DEF NewScan, Rescan, Found, Goto, busVars, Own, OwnPcs, WriterDied, DelPcs
  <2> QED
    BY <1>d, <2>1, <2>2
<1>7. ASSUME NEW w \in Writers, NewRegister(w) PROVE TallyOK'
  <2> DEFINE d == Fresh
  <2>e. /\ d \in Objs /\ \A c \in Objs \ {d} : dev'[c] = dev[c]
        /\ dev[d].state = "none" /\ ~dev'[d].counted
    BY <1>7, RegisterEffect
  <2> HIDE DEF d
  <2>1. Counted' = Counted
    BY <2>e DEF Counted
  <2>2. count' = count /\ released' = released /\ raced' = raced
    BY <1>7 DEF NewRegister, busVars
  <2>3. Own' = Own /\ (WriterDied => WriterDied')
    BY <1>7, <1>a DEF NewRegister, Goto, Own, OwnPcs, WriterDied, DelPcs
  <2> QED
    BY <2>1, <2>2, <2>3 DEF TallyOK
<1>8. ASSUME NEW w \in Writers, NewIdFails(w) PROVE TallyOK'
  <2>1. dev' = dev /\ count' = count /\ released' = released /\ raced' = raced
    BY <1>8 DEF NewIdFails, busVars
  <2>2. Own' = Own /\ (WriterDied => WriterDied')
    BY <1>8, <1>a DEF NewIdFails, Return, NoArg, Goto, busVars, Own, OwnPcs, WriterDied, DelPcs
  <2> QED
    BY <1>d, <2>1, <2>2
<1>9. ASSUME NEW w \in Writers, NewRegisterFails(w) PROVE TallyOK'
  <2>1. WriterDied'
    BY <1>9, <1>a DEF NewRegisterFails, Goto, WriterDied
  <2>2. Counted' = Counted
    BY <1>9 DEF NewRegisterFails, Counted
  <2> QED
    BY <2>1, <2>2 DEF TallyOK
<1>10. ASSUME NEW w \in Writers, NewProbe(w) PROVE TallyOK'
  <2> DEFINE d == arg[w].dev
  <2>e. /\ d \in Objs /\ \A c \in Objs \ {d} : dev'[c] = dev[c]
        /\ dev'[d].state = dev[d].state /\ (dev'[d].counted <=> dev[d].counted)
    BY <1>10, ProbeEffect
  <2> HIDE DEF d
  <2>1. Counted' = Counted
    BY <2>e DEF Counted
  <2>2. count' = count /\ released' = released /\ raced' = raced
    BY <1>10 DEF NewProbe, busVars
  <2>3. Own' = Own /\ (WriterDied => WriterDied')
    BY <1>10, <1>a DEF NewProbe, Goto, Own, OwnPcs, WriterDied, DelPcs
  <2> QED
    BY <2>1, <2>2, <2>3 DEF TallyOK
<1>11. ASSUME NEW w \in Writers, NewFinish(w) PROVE TallyOK'
  <2> DEFINE d == arg[w].dev
  <2>e. /\ d \in Objs /\ \A c \in Objs \ {d} : dev'[c] = dev[c]
        /\ dev[d].state = "registered" /\ ~dev[d].counted /\ dev'[d].state = "registered" /\ dev'[d].counted
    BY <1>11, FinishEffect
  <2> HIDE DEF d
  <2>1. Counted' = Counted \cup {d} /\ d \notin Counted
    BY <2>e DEF Counted
  <2>2. /\ IsFiniteSet(Counted') /\ Cardinality(Counted') = Cardinality(Counted) + 1
        /\ Cardinality(Counted) \in Nat
    BY <2>1, <1>c, FS_AddElement, FS_CardinalityType
  <2>3. ASSUME ~raced', ~WriterDied' PROVE count' = Cardinality(Counted') + Own' /\ ~released'
    <3>1. ~raced /\ ~WriterDied /\ released' = released /\ pc'[Module] = pc[Module]
      BY <1>11, <1>a, <2>3 DEF NewFinish, Return, Goto, WriterDied, busVars
    <3>2. pc[Module] \in OwnPcs
      BY <1>11, <3>1 DEF NewFinish, NewPcs, PhaseOK
    <3>3. count = Cardinality(Counted) + 1 /\ (released => count = 0)
      BY <3>1, <3>2 DEF TallyOK, Own
    <3>4. count' = count + 1
      <4>1. count # 0 /\ count # -1
        BY <2>2, <3>3
      <4> QED
        BY <1>11, <4>1 DEF NewFinish, Inc, Saturated
    <3>5. Own' = 1
      BY <3>1, <3>2 DEF Own
    <3>6. ~released
      BY <2>2, <3>3
    <3> QED
      BY <2>2, <3>1, <3>3, <3>4, <3>5, <3>6
  <2> QED
    BY <2>2, <2>3 DEF TallyOK
<1>12. ASSUME NEW x \in Actors, Unlist(x) PROVE TallyOK'
  <2>1. dev' = dev /\ count' = count /\ released' = released /\ raced' = raced
    BY <1>12 DEF Unlist, busVars
  <2>2. Own' = Own /\ (WriterDied => WriterDied')
    BY <1>12, <1>a DEF Unlist, Goto, busVars, Own, OwnPcs, WriterDied, DelPcs
  <2> QED
    BY <1>d, <2>1, <2>2
<1>13. ASSUME NEW x \in Actors, Stop(x) PROVE TallyOK'
  <2> DEFINE d == arg[x].dev
  <2>e. /\ d \in Objs /\ \A c \in Objs \ {d} : dev'[c] = dev[c]
        /\ dev'[d].state = dev[d].state /\ (dev'[d].counted <=> dev[d].counted)
    BY <1>13, StopEffect
  <2> HIDE DEF d
  <2>1. Counted' = Counted
    BY <2>e DEF Counted
  <2>2. count' = count /\ released' = released /\ raced' = raced
    BY <1>13 DEF Stop, busVars
  <2>3. Own' = Own /\ (WriterDied => WriterDied')
    BY <1>13, <1>a DEF Stop, Goto, Own, OwnPcs, WriterDied, DelPcs
  <2> QED
    BY <2>1, <2>2, <2>3 DEF TallyOK
<1>14. ASSUME NEW x \in Actors, Unregister(x) PROVE TallyOK'
  <2> DEFINE d == arg[x].dev
  <2>e. /\ d \in Objs /\ \A c \in Objs \ {d} : dev'[c] = dev[c]
        /\ dev[d].state = "registered" /\ dev[d].counted /\ dev'[d].state = "gone" /\ dev'[d].counted
    BY <1>14, UnregisterEffect
  <2> HIDE DEF d
  <2>1. Counted' = Counted
    BY <2>e DEF Counted
  <2>2. count' = count /\ released' = released /\ raced' = raced
    BY <1>14 DEF Unregister, busVars
  <2>3. Own' = Own /\ (WriterDied => WriterDied')
    BY <1>14, <1>a DEF Unregister, Return, NoArg, Goto, Own, OwnPcs, WriterDied, DelPcs
  <2> QED
    BY <2>1, <2>2, <2>3 DEF TallyOK
<1>15. ASSUME NEW d \in Objs, PortBegin(d) PROVE TallyOK'
  <2>1. dev' = dev /\ count' = count /\ released' = released /\ raced' = raced
    BY <1>15 DEF PortBegin, busVars
  <2>2. Own' = Own /\ (WriterDied => WriterDied')
    BY <1>15, <1>a DEF PortBegin, busVars, Own, OwnPcs, WriterDied, DelPcs
  <2> QED
    BY <1>d, <2>1, <2>2
<1>16. ASSUME NEW d \in Objs, Release(d) PROVE TallyOK'
  <2>1. /\ dev[d].state = "gone" /\ dev[d].counted /\ dev'[d].state = "none"
        /\ \A c \in Objs \ {d} : dev'[c] = dev[c]
    BY <1>16, ReleaseEffect DEF DevInv, HeldOK
  <2>2. Counted' = Counted \ {d} /\ d \in Counted
    BY <2>1 DEF Counted
  <2>3. /\ IsFiniteSet(Counted') /\ Cardinality(Counted') = Cardinality(Counted) - 1
        /\ Cardinality(Counted) \in Nat /\ Cardinality(Counted') \in Nat
    BY <1>c, <2>2, FS_RemoveElement, FS_CardinalityType
  <2>4. ASSUME ~raced', ~WriterDied' PROVE count' = Cardinality(Counted') + Own' /\ (released' => count' = 0)
    <3>1. ~raced /\ ~WriterDied /\ Own' = Own
      BY <1>16, <2>4 DEF Release, WriterDied, Own
    <3>2. count = Cardinality(Counted) + Own /\ (released => count = 0) /\ Own \in {0, 1}
      BY <3>1 DEF TallyOK, Own
    <3>3. count # 0 /\ count # -1
      BY <2>3, <3>2
    <3>4. count' = count - 1 /\ (released' => released \/ count - 1 = 0)
      BY <1>16, <3>3 DEF Release, DropCount, Dec, Saturated
    <3> QED
      BY <2>3, <3>1, <3>2, <3>3, <3>4
  <2> QED
    BY <2>3, <2>4 DEF TallyOK
<1>17. ASSUME NEW a \in Addrs, PciRemove(a) PROVE TallyOK'
  <2>1. dev' = dev /\ count' = count /\ released' = released /\ raced' = raced
    BY <1>17 DEF PciRemove, busVars
  <2>2. Own' = Own /\ (WriterDied => WriterDied')
    BY <1>17, <1>a DEF PciRemove, busVars, Own, OwnPcs, WriterDied, DelPcs
  <2> QED
    BY <1>d, <2>1, <2>2
<1>18. CASE PortEnd
  <2>1. dev' = dev /\ count' = count /\ released' = released /\ raced' = raced
    BY <1>18 DEF PortEnd, busVars
  <2>2. Own' = Own /\ (WriterDied => WriterDied')
    BY <1>18, <1>a DEF PortEnd, busVars, Own, OwnPcs, WriterDied, DelPcs
  <2> QED
    BY <1>d, <2>1, <2>2
<1>19. CASE PciRescan
  <2>1. dev' = dev /\ count' = count /\ released' = released /\ raced' = raced
    BY <1>19 DEF PciRescan, busVars
  <2>2. Own' = Own /\ (WriterDied => WriterDied')
    BY <1>19, <1>a DEF PciRescan, Rescan, Found, busVars, Own, OwnPcs, WriterDied, DelPcs
  <2> QED
    BY <1>d, <2>1, <2>2
<1>20. CASE LoadPci
  <2>1. dev' = dev /\ count' = count /\ released' = released /\ raced' = raced
    BY <1>20 DEF LoadPci, busVars
  <2>2. Own' = Own /\ (WriterDied => WriterDied')
    BY <1>20, <1>a DEF LoadPci, Goto, busVars, Own, OwnPcs, WriterDied, DelPcs
  <2> QED
    BY <1>d, <2>1, <2>2
<1>21. CASE LoadBus
  <2>1. /\ \A d \in Objs : dev[d].state = "none"
        /\ ~released /\ dev' = dev /\ released' = released
    BY <1>21 DEF LoadBus, PhaseOK, LoadPcs
  <2>2. Counted' = {}
    BY <2>1 DEF Counted
  <2>3. count' = 1
    BY <1>21, Zenon DEF LoadBus
  <2>4. Own' = 1
    BY <1>21, <1>a DEF LoadBus, Goto, Own, OwnPcs
  <2> QED
    BY <2>1, <2>2, <2>3, <2>4, FS_EmptySet DEF TallyOK
<1>22. CASE LoadBusFails
  <2>1. dev' = dev /\ count' = count /\ released' = released /\ raced' = raced
    BY <1>22 DEF LoadBusFails, busVars
  <2>2. Own' = Own /\ (WriterDied => WriterDied')
    BY <1>22, <1>a DEF LoadBusFails, Goto, busVars, Own, OwnPcs, WriterDied, DelPcs
  <2> QED
    BY <1>d, <2>1, <2>2
<1>23. CASE LoadLink
  <2>1. dev' = dev /\ count' = count /\ released' = released /\ raced' = raced
    BY <1>23 DEF LoadLink, busVars
  <2>2. Own' = Own /\ (WriterDied => WriterDied')
    BY <1>23, <1>a DEF LoadLink, Goto, busVars, Own, OwnPcs, WriterDied, DelPcs
  <2> QED
    BY <1>d, <2>1, <2>2
<1>24. CASE ExitBegin
  <2>1. dev' = dev /\ count' = count /\ released' = released /\ raced' = raced
    BY <1>24 DEF ExitBegin, busVars
  <2>2. Own' = Own /\ (WriterDied => WriterDied')
    BY <1>24, <1>a DEF ExitBegin, Goto, busVars, Own, OwnPcs, WriterDied, DelPcs
  <2> QED
    BY <1>d, <2>1, <2>2
<1>25. CASE ExitDisable
  <2>1. dev' = dev /\ count' = count /\ released' = released /\ raced' = raced
    BY <1>25 DEF ExitDisable, busVars
  <2>2. Own' = Own /\ (WriterDied => WriterDied')
    BY <1>25, <1>a DEF ExitDisable, Goto, busVars, Own, OwnPcs, WriterDied, DelPcs
  <2> QED
    BY <1>d, <2>1, <2>2
<1>26. CASE ExitDrop
  <2>1. /\ Counted' = Counted /\ Cardinality(Counted) \in Nat
    BY <1>26, <1>c, FS_CardinalityType DEF ExitDrop, Counted
  <2>2. Own = 1 /\ Own' = 0
    BY <1>26, <1>a DEF ExitDrop, Goto, Own, OwnPcs
  <2>3. ~raced /\ (WriterDied' <=> WriterDied)
    BY <1>26, <1>a DEF ExitDrop, Goto, PhaseOK, OwnPcs, WriterDied
  <2>4. ASSUME ~WriterDied PROVE count' = Cardinality(Counted) /\ (released' => count' = 0)
    <3>1. count = Cardinality(Counted) + 1 /\ (released => count = 0)
      BY <2>2, <2>3, <2>4 DEF TallyOK
    <3>2. count # 0 /\ count # -1
      BY <2>1, <3>1
    <3>3. count' = count - 1 /\ (released' => released \/ count - 1 = 0)
      BY <1>26, <3>2 DEF ExitDrop, DropCount, Dec, Saturated
    <3> QED
      BY <2>1, <3>1, <3>2, <3>3
  <2> QED
    BY <1>c, <2>1, <2>2, <2>3, <2>4 DEF TallyOK
<1>27. CASE ExitLock
  <2>1. dev' = dev /\ count' = count /\ released' = released /\ raced' = raced
    BY <1>27 DEF ExitLock, busVars
  <2>2. Own' = Own /\ (WriterDied => WriterDied')
    BY <1>27, <1>a DEF ExitLock, Goto, busVars, Own, OwnPcs, WriterDied, DelPcs
  <2> QED
    BY <1>d, <2>1, <2>2
<1>28. CASE ExitNext
  <2>1. dev' = dev /\ count' = count /\ released' = released /\ raced' = raced
    BY <1>28 DEF ExitNext, busVars
  <2>2. Own' = Own /\ (WriterDied => WriterDied')
    BY <1>28, <1>a DEF ExitNext, Take, NoArg, Goto, busVars, Own, OwnPcs, WriterDied, DelPcs
  <2> QED
    BY <1>d, <2>1, <2>2
<1>29. CASE ExitUnlock
  <2>1. dev' = dev /\ count' = count /\ released' = released /\ raced' = raced
    BY <1>29 DEF ExitUnlock, busVars
  <2>2. Own' = Own /\ (WriterDied => WriterDied')
    BY <1>29, <1>a DEF ExitUnlock, Goto, busVars, Own, OwnPcs, WriterDied, DelPcs
  <2> QED
    BY <1>d, <2>1, <2>2
<1>30. CASE ExitWait
  <2>1. dev' = dev /\ count' = count /\ released' = released /\ raced' = raced
    BY <1>30 DEF ExitWait, busVars
  <2>2. Own' = Own /\ (WriterDied => WriterDied')
    BY <1>30, <1>a DEF ExitWait, Goto, busVars, Own, OwnPcs, WriterDied, DelPcs
  <2> QED
    BY <1>d, <2>1, <2>2
<1>31. CASE ExitEnd
  <2>1. dev' = dev /\ count' = count /\ released' = released /\ raced' = raced
    BY <1>31 DEF ExitEnd, busVars
  <2>2. Own' = Own /\ (WriterDied => WriterDied')
    BY <1>31, <1>a DEF ExitEnd, Goto, busVars, Own, OwnPcs, WriterDied, DelPcs
  <2> QED
    BY <1>d, <2>1, <2>2
<1>32. CASE UNCHANGED vars
  <2>1. dev' = dev /\ count' = count /\ released' = released /\ raced' = raced /\ pc' = pc
    BY <1>32 DEF vars, busVars
  <2> QED
    BY <1>d, <2>1 DEF Own, WriterDied
<1> QED
  BY <1>1, <1>2, <1>3, <1>4, <1>5, <1>6, <1>7, <1>8, <1>9, <1>10, <1>11, <1>12, <1>13, <1>14, <1>15, <1>16,
     <1>17, <1>18, <1>19, <1>20, <1>21, <1>22, <1>23, <1>24, <1>25, <1>26, <1>27, <1>28, <1>29, <1>30, <1>31,
     <1>32
     DEF Next, WriterSteps, DelSteps, ExitSteps

-----------------------------------------------------------------------------
(* Ids and functions. *)

\* A step does not matter to the id and the function x works on.
Alike(x) ==
  /\ pc'[x] \in IdPcs <=> pc[x] \in IdPcs
  /\ pc'[x] \in FakePcs <=> pc[x] \in FakePcs
  /\ pc'[x] = "stop" <=> pc[x] = "stop"
  /\ pc[x] \in IdPcs \cup FakePcs => arg'[x].id = arg[x].id /\ arg'[x].addr = arg[x].addr
  /\ pc[x] = "stop" => arg'[x].pdev = arg[x].pdev

\* Every step keeps the ids and the functions.
LEMMA FunStep ==
  ASSUME NsimBusAssumption, TypeOK, LockInv, DevInv, FunInv, [Next]_vars
  PROVE  FunInv'
<1>a. /\ pc \in [Actors -> AllPcs] /\ Module \in Actors /\ Module \notin Writers
      /\ arg \in [Actors -> ArgStates] /\ \A w \in Writers : w \in Actors
  BY DEF TypeOK, Actors, NsimBusAssumption
<1>b. fake \subseteq Addrs /\ pci \subseteq Addrs
  BY DEF TypeOK
<1>c. ListOK /\ (\A x \in Actors : ActorOK(x))
  BY DEF DevInv
<1>e. \A x, y \in Actors : (pc[x] \in NewPcs \cup DelPcs /\ pc[y] \in NewPcs \cup DelPcs) => x = y
  BY OneAtWork
<1>l. LockInv /\ None \notin Actors /\ Actors = Writers \cup {Module}
  BY DEF NsimBusAssumption, Actors
<1>d. ASSUME ToSet(list') = ToSet(list), ida' = ida, fake' = fake, misread' = misread,
             WriterDied => WriterDied', \A y \in Actors : Alike(y),
             \A e \in ToSet(list) : dev'[e].id = dev[e].id /\ dev'[e].addr = dev[e].addr,
             DistinctOK /\ TakenOK /\ PciOK => PciOK'
      PROVE  FunInv'
  <2> SUFFICES ASSUME DistinctOK, TakenOK PROVE DistinctOK' /\ TakenOK'
    BY <1>d DEF FunInv
  <2>1. DistinctOK'
    BY <1>d DEF DistinctOK, Alike, IdPcs, FakePcs
  <2>2. TakenOK'
    <3>1. ASSUME NEW i PROVE HasId(i)' <=> HasId(i)
      BY <1>d DEF HasId, Alike
    <3>2. ASSUME NEW a PROVE HasFake(a)' <=> HasFake(a)
      BY <1>d DEF HasFake, Alike
    <3> QED
      BY <1>d, <3>1, <3>2 DEF TakenOK
  <2> QED
    BY <2>1, <2>2
<1>1. ASSUME NEW w \in Writers, NewBegin(w) PROVE FunInv'
  <2>1. /\ ToSet(list') = ToSet(list) /\ ida' = ida /\ fake' = fake
        /\ misread' = misread /\ (WriterDied => WriterDied')
    BY <1>1, <1>a DEF NewBegin, NoArg, Goto, busVars, pciVars, WriterDied
  <2>2. \A e \in ToSet(list) : dev'[e].id = dev[e].id /\ dev'[e].addr = dev[e].addr
    BY <1>1 DEF NewBegin, busVars
  <2>3. \A y \in Actors : Alike(y)
    BY <1>1, <1>a, <1>b DEF NewBegin, NoArg, Goto, busVars, pciVars, Alike, IdPcs, FakePcs, DelPcs
  <2>4. DistinctOK /\ TakenOK /\ PciOK => PciOK'
    BY <1>1, <2>3 DEF NewBegin, pciVars, PciOK, Alike, IdPcs
  <2> QED
    BY <1>d, <2>1, <2>2, <2>3, <2>4
<1>2. ASSUME NEW w \in Writers, DelBegin(w) PROVE FunInv'
  <2> SUFFICES ASSUME ~misread', ~WriterDied' PROVE DistinctOK' /\ TakenOK' /\ PciOK'
    BY DEF FunInv
  <2>g. DistinctOK /\ TakenOK /\ PciOK
    BY <1>2, <1>a DEF DelBegin, Take, Goto, FunInv, WriterDied
  <2>1. PICK k \in DOMAIN list : Take(w, k)
    BY <1>2 DEF DelBegin
  <2> DEFINE d == list[k]
  <2>2. /\ d \in Objs /\ d \in ToSet(list) /\ ToSet(list') = ToSet(list) \ {d}
    BY <2>1, ListedTyped DEF Take
  <2>3. /\ arg'[w].id = dev[d].id /\ arg'[w].addr = dev[d].addr /\ pc'[w] = "unlist"
        /\ \A y \in Actors \ {w} : pc'[y] = pc[y] /\ arg'[y] = arg[y]
    <3>1. /\ arg' = [arg EXCEPT ![w] = [NoArg EXCEPT !.id = dev[d].id, !.addr = dev[d].addr, !.dev = d]]
          /\ pc' = [pc EXCEPT ![w] = "unlist"]
      BY <2>1 DEF Take, Goto
    <3> QED
      BY <1>a, <3>1 DEF NoArg
  <2>4. /\ dev' = dev /\ ida' = ida /\ fake' = fake /\ probed' = probed /\ pci' = pci
        /\ pc[w] \notin NewPcs \cup DelPcs
    BY <1>2 DEF DelBegin, pciVars, NewPcs, DelPcs
  <2>l. \A y \in Actors \ {w} : pc[y] \notin NewPcs \cup DelPcs
    BY <1>2, <1>a, <1>l DEF DelBegin, LockInv, Holds, NewPcs, DelPcs, NsimBusAssumption
  <2> HIDE DEF d
  <2>5. DistinctOK'
    BY <2>g, <2>2, <2>3, <2>4, <2>l, <1>a DEF DistinctOK, IdPcs, FakePcs, NewPcs, DelPcs
  <2>6. TakenOK'
    BY <2>g, <2>2, <2>3, <2>4, <2>l, <1>a DEF TakenOK, HasId, HasFake, IdPcs, FakePcs, NewPcs, DelPcs
  <2>7. PciOK'
    BY <2>g, <2>2, <2>3, <2>4, <2>l, <1>a DEF PciOK, NewPcs, DelPcs
  <2> QED
    BY <2>5, <2>6, <2>7
<1>3. ASSUME NEW w \in Writers, NewCreate(w) PROVE FunInv'
  <2> SUFFICES ASSUME ~misread', ~WriterDied' PROVE DistinctOK' /\ TakenOK' /\ PciOK'
    BY DEF FunInv
  <2>g. DistinctOK /\ TakenOK /\ PciOK
    BY <1>3, <1>a DEF NewCreate, Goto, FunInv, WriterDied
  <2>i. \A y \in Actors \ {w} : pc[y] \notin NewPcs \cup DelPcs /\ pc'[y] = pc[y] /\ arg'[y] = arg[y]
    BY <1>3, <1>a, <1>b, <1>e DEF NewCreate, Goto, NewPcs, DelPcs
  <2>1. /\ pc[w] = "create" /\ pc'[w] = "scan" /\ arg' = arg /\ list' = list /\ dev' = dev
        /\ arg[w].addr \in Addrs /\ arg[w].addr \notin fake
        /\ ida' = ida /\ fake' = fake \cup {arg[w].addr} /\ probed' = probed /\ pci' = pci
    BY <1>3, <1>a, <1>c DEF NewCreate, Goto, MayCreate, busVars, ActorOK, NewPcs
  <2>2. DistinctOK'
    BY <2>g, <2>i, <2>1, <1>a, <1>c DEF DistinctOK, TakenOK, HasFake, IdPcs, FakePcs, NewPcs, DelPcs, ListOK
  <2>3. TakenOK'
    BY <2>g, <2>i, <2>1, <1>a DEF TakenOK, HasId, HasFake, IdPcs, FakePcs, NewPcs, DelPcs
  <2>4. PciOK'
    BY <2>g, <2>i, <2>1, <1>a DEF PciOK, NewPcs, DelPcs
  <2> QED
    BY <2>2, <2>3, <2>4
<1>4. ASSUME NEW w \in Writers, NewCreateFails(w) PROVE FunInv'
  <2>1. /\ ToSet(list') = ToSet(list) /\ ida' = ida /\ fake' = fake
        /\ misread' = misread /\ (WriterDied => WriterDied')
    BY <1>4, <1>a DEF NewCreateFails, Return, NoArg, Goto, busVars, pciVars, WriterDied
  <2>2. \A e \in ToSet(list) : dev'[e].id = dev[e].id /\ dev'[e].addr = dev[e].addr
    BY <1>4 DEF NewCreateFails, busVars
  <2>3. \A y \in Actors : Alike(y)
    BY <1>4, <1>a, <1>b DEF NewCreateFails, Return, NoArg, Goto, busVars, pciVars, Alike, IdPcs, FakePcs, DelPcs
  <2>4. DistinctOK /\ TakenOK /\ PciOK => PciOK'
    BY <1>4, <2>3 DEF NewCreateFails, pciVars, PciOK, Alike, IdPcs
  <2> QED
    BY <1>d, <2>1, <2>2, <2>3, <2>4
<1>5. ASSUME NEW w \in Writers, NewWithoutRoot(w) PROVE FunInv'
  <2>1. WriterDied'
    BY <1>5, <1>a DEF NewWithoutRoot, Goto, WriterDied
  <2> QED
    BY <2>1 DEF FunInv
<1>6. ASSUME NEW w \in Writers, NewScan(w) PROVE FunInv'
  <2>1. /\ ToSet(list') = ToSet(list) /\ ida' = ida /\ fake' = fake
        /\ misread' = misread /\ (WriterDied => WriterDied')
    BY <1>6, <1>a DEF NewScan, Rescan, Found, Goto, busVars, pciVars, WriterDied
  <2>2. \A e \in ToSet(list) : dev'[e].id = dev[e].id /\ dev'[e].addr = dev[e].addr
    BY <1>6 DEF NewScan, busVars
  <2>3. \A y \in Actors : Alike(y)
    BY <1>6, <1>a, <1>b DEF NewScan, Rescan, Found, Goto, busVars, pciVars, Alike, IdPcs, FakePcs, DelPcs
  <2>4. DistinctOK /\ TakenOK /\ PciOK => PciOK'
    BY <1>6, <2>1, <2>3 DEF NewScan, Rescan, Found, PciOK, Alike
  <2> QED
    BY <1>d, <2>1, <2>2, <2>3, <2>4
<1>7. ASSUME NEW w \in Writers, NewRegister(w) PROVE FunInv'
  <2> SUFFICES ASSUME ~misread', ~WriterDied' PROVE DistinctOK' /\ TakenOK' /\ PciOK'
    BY DEF FunInv
  <2>g. DistinctOK /\ TakenOK /\ PciOK
    BY <1>7, <1>a DEF NewRegister, Goto, FunInv, WriterDied
  <2>i. \A y \in Actors \ {w} : pc[y] \notin NewPcs \cup DelPcs /\ pc'[y] = pc[y] /\ arg'[y] = arg[y]
    BY <1>7, <1>a, <1>b, <1>e DEF NewRegister, Goto, NewPcs, DelPcs
  <2> DEFINE d == Fresh
  <2>1. /\ d \in Objs /\ dev[d].state = "none" /\ arg'[w].id = arg[w].id /\ arg'[w].addr = arg[w].addr
        /\ \A e \in Objs \ {d} : dev'[e] = dev[e]
    BY <1>7, RegisterEffect
  <2>2. /\ pc[w] = "register" /\ pc'[w] = "probe" /\ list' = list /\ arg[w].id \notin ida
        /\ ida' = ida \cup {arg[w].id} /\ fake' = fake /\ probed' = probed /\ pci' = pci /\ arg[w].id \in Ids
    BY <1>7, <1>a, <1>c DEF NewRegister, Goto, pciVars, ActorOK, NewPcs
  <2> HIDE DEF d
  <2>3. \A e \in ToSet(list) : dev'[e] = dev[e] /\ dev[e].id \in Ids
    BY <1>c, <2>1, DevTyped DEF ListOK
  <2>4. DistinctOK'
    BY <2>g, <2>i, <2>1, <2>2, <2>3, <1>a DEF DistinctOK, TakenOK, HasId, IdPcs, FakePcs, NewPcs, DelPcs
  <2>5. TakenOK'
    BY <2>g, <2>i, <2>1, <2>2, <2>3, <1>a DEF TakenOK, HasId, HasFake, IdPcs, FakePcs, NewPcs, DelPcs
  <2>6. PciOK'
    BY <2>g, <2>i, <2>1, <2>2, <1>a DEF PciOK, NewPcs, DelPcs
  <2> QED
    BY <2>4, <2>5, <2>6
<1>8. ASSUME NEW w \in Writers, NewIdFails(w) PROVE FunInv'
  <2> SUFFICES ASSUME ~misread', ~WriterDied' PROVE DistinctOK' /\ TakenOK' /\ PciOK'
    BY DEF FunInv
  <2>g. DistinctOK /\ TakenOK /\ PciOK
    BY <1>8, <1>a DEF NewIdFails, Return, NoArg, Goto, FunInv, WriterDied
  <2>i. \A y \in Actors \ {w} : pc[y] \notin NewPcs \cup DelPcs /\ pc'[y] = pc[y] /\ arg'[y] = arg[y]
    BY <1>8, <1>a, <1>b, <1>e DEF NewIdFails, Return, NoArg, Goto, NewPcs, DelPcs
  <2>1. /\ pc[w] = "register" /\ pc'[w] = "idle" /\ list' = list /\ dev' = dev /\ ida' = ida
        /\ arg[w].addr \in Addrs
    BY <1>8, <1>a, <1>c DEF NewIdFails, Return, Goto, ActorOK, NewPcs
  <2>2. /\ fake' = fake \ {arg[w].addr} /\ probed' = probed \ {arg[w].addr}
        /\ pci' = pci \ ({arg[w].addr} \cap probed)
    BY <1>8 DEF NewIdFails
  <2>3. DistinctOK'
    BY <2>g, <2>i, <2>1, <1>a DEF DistinctOK, IdPcs, FakePcs, NewPcs, DelPcs
  <2>4. TakenOK'
    BY <2>g, <2>i, <2>1, <2>2, <1>a DEF TakenOK, DistinctOK, HasId, HasFake, IdPcs, FakePcs, NewPcs, DelPcs
  <2>5. PciOK'
    BY <2>g, <2>i, <2>1, <2>2, <1>a DEF PciOK, NewPcs, DelPcs
  <2> QED
    BY <2>3, <2>4, <2>5
<1>9. ASSUME NEW w \in Writers, NewRegisterFails(w) PROVE FunInv'
  <2>1. WriterDied'
    BY <1>9, <1>a DEF NewRegisterFails, Goto, WriterDied
  <2> QED
    BY <2>1 DEF FunInv
<1>10. ASSUME NEW w \in Writers, NewProbe(w) PROVE FunInv'
  <2>1. /\ ToSet(list') = ToSet(list) /\ ida' = ida /\ fake' = fake
        /\ misread' = misread /\ (WriterDied => WriterDied')
    BY <1>10, <1>a DEF NewProbe, Goto, busVars, pciVars, WriterDied
  <2>2. \A e \in ToSet(list) : dev'[e].id = dev[e].id /\ dev'[e].addr = dev[e].addr
    BY <1>10, <1>c, ProbeEffect DEF ListOK
  <2>3. \A y \in Actors : Alike(y)
    BY <1>10, <1>a, <1>b DEF NewProbe, Goto, busVars, pciVars, Alike, IdPcs, FakePcs, DelPcs
  <2>4. DistinctOK /\ TakenOK /\ PciOK => PciOK'
    BY <1>10, <2>3 DEF NewProbe, pciVars, PciOK, Alike, IdPcs
  <2> QED
    BY <1>d, <2>1, <2>2, <2>3, <2>4
<1>11. ASSUME NEW w \in Writers, NewFinish(w) PROVE FunInv'
  <2> SUFFICES ASSUME ~misread', ~WriterDied' PROVE DistinctOK' /\ TakenOK' /\ PciOK'
    BY DEF FunInv
  <2>g. DistinctOK /\ TakenOK /\ PciOK
    BY <1>11, <1>a DEF NewFinish, Return, NoArg, Goto, FunInv, WriterDied
  <2>i. \A y \in Actors \ {w} : pc[y] \notin NewPcs \cup DelPcs /\ pc'[y] = pc[y] /\ arg'[y] = arg[y]
    BY <1>11, <1>a, <1>b, <1>e DEF NewFinish, Return, NoArg, Goto, NewPcs, DelPcs
  <2> DEFINE d == arg[w].dev
  <2>1. /\ d \in Objs /\ d \notin ToSet(list) /\ ToSet(list') = ToSet(list) \cup {d}
        /\ dev'[d].id = dev[d].id /\ dev'[d].addr = dev[d].addr
        /\ \A e \in Objs \ {d} : dev'[e] = dev[e]
    BY <1>11, FinishEffect
  <2>2. /\ pc[w] = "finish" /\ pc'[w] = "idle"
        /\ ida' = ida /\ fake' = fake /\ probed' = probed /\ pci' = pci
    BY <1>11, <1>a DEF NewFinish, Return, Goto, pciVars
  <2>3. dev[d].id = arg[w].id /\ dev[d].addr = arg[w].addr
    BY <1>a, <1>c, <2>2 DEF ActorOK, OwnDev, DevPcs
  <2> HIDE DEF d
  <2>4. \A e \in ToSet(list) : dev'[e] = dev[e]
    BY <1>c, <2>1 DEF ListOK
  <2>5. DistinctOK'
    BY <2>g, <2>i, <2>1, <2>2, <2>3, <2>4, <1>a DEF DistinctOK, IdPcs, FakePcs, NewPcs, DelPcs
  <2>6. TakenOK'
    BY <2>g, <2>i, <2>1, <2>2, <2>3, <2>4, <1>a DEF TakenOK, HasId, HasFake, IdPcs, FakePcs, NewPcs, DelPcs
  <2>7. PciOK'
    BY <2>g, <2>i, <2>2, <1>a DEF PciOK, NewPcs, DelPcs
  <2> QED
    BY <2>5, <2>6, <2>7
<1>12. ASSUME NEW x \in Actors, Unlist(x) PROVE FunInv'
  <2> SUFFICES ASSUME ~misread', ~WriterDied' PROVE DistinctOK' /\ TakenOK' /\ PciOK'
    BY DEF FunInv
  <2>g. DistinctOK /\ TakenOK /\ PciOK
    BY <1>12, <1>a DEF Unlist, Goto, FunInv, WriterDied
  <2>i. \A y \in Actors \ {x} : pc[y] \notin NewPcs \cup DelPcs /\ pc'[y] = pc[y] /\ arg'[y] = arg[y]
    BY <1>12, <1>a, <1>b, <1>e DEF Unlist, Goto, NewPcs, DelPcs
  <2>1. /\ pc[x] = "unlist" /\ pc'[x] = "stop" /\ list' = list /\ dev' = dev /\ ida' = ida /\ pci' = pci
        /\ arg'[x].id = arg[x].id /\ arg'[x].addr = arg[x].addr /\ (arg'[x].pdev <=> arg[x].addr \in probed)
        /\ fake' = fake \ {arg[x].addr} /\ probed' = probed \ {arg[x].addr}
    BY <1>12, <1>a DEF Unlist, Goto, busVars, ArgStates
  <2>2. DistinctOK'
    BY <2>g, <2>i, <2>1, <1>a DEF DistinctOK, IdPcs, FakePcs, NewPcs, DelPcs
  <2>3. TakenOK'
    BY <2>g, <2>i, <2>1, <1>a DEF TakenOK, DistinctOK, HasId, HasFake, IdPcs, FakePcs, NewPcs, DelPcs
  <2>4. PciOK'
    BY <2>g, <2>i, <2>1, <1>a DEF PciOK, NewPcs, DelPcs
  <2> QED
    BY <2>2, <2>3, <2>4
<1>13. ASSUME NEW x \in Actors, Stop(x) PROVE FunInv'
  <2> SUFFICES ASSUME ~misread', ~WriterDied' PROVE DistinctOK' /\ TakenOK' /\ PciOK'
    BY DEF FunInv
  <2>g. DistinctOK /\ TakenOK /\ PciOK
    BY <1>13, <1>a DEF Stop, Goto, FunInv, WriterDied
  <2>i. \A y \in Actors \ {x} : pc[y] \notin NewPcs \cup DelPcs /\ pc'[y] = pc[y] /\ arg'[y] = arg[y]
    BY <1>13, <1>a, <1>b, <1>e DEF Stop, Goto, NewPcs, DelPcs
  <2>1. /\ pc[x] = "stop" /\ pc'[x] = "unregister" /\ list' = list
        /\ arg' = arg /\ ida' = ida \ {arg[x].id} /\ fake' = fake /\ probed' = probed
        /\ pci' = IF arg[x].pdev THEN pci \ {arg[x].addr} ELSE pci
    BY <1>13, <1>a DEF Stop, Goto
  <2>2. \A e \in ToSet(list) : dev'[e] = dev[e]
    <3>1. OwnDev(x)
      BY <1>a, <1>c, <2>1 DEF ActorOK, DevPcs, DelPcs
    <3> QED
      BY <1>13, <1>c, <3>1, StopEffect DEF ListOK, OwnDev
  <2>3. DistinctOK'
    BY <2>g, <2>i, <2>1, <2>2, <1>a DEF DistinctOK, IdPcs, FakePcs, NewPcs, DelPcs
  <2>4. TakenOK'
    BY <2>g, <2>i, <2>1, <2>2, <1>a DEF TakenOK, DistinctOK, HasId, HasFake, IdPcs, FakePcs, NewPcs, DelPcs
  <2>5. PciOK'
    <3>1. arg[x].addr \notin fake
      <4>1. arg[x].addr \in Addrs /\ ~HasFake(arg[x].addr)
        BY <2>g, <2>i, <2>1, <1>a, <1>c DEF DistinctOK, HasFake, FakePcs, NewPcs, DelPcs, ActorOK
      <4> QED
        BY <2>g, <4>1 DEF TakenOK
    <3> QED
      BY <2>g, <2>i, <2>1, <3>1, <1>a DEF PciOK, NewPcs, DelPcs
  <2> QED
    BY <2>3, <2>4, <2>5
<1>14. ASSUME NEW x \in Actors, Unregister(x) PROVE FunInv'
  <2>1. /\ ToSet(list') = ToSet(list) /\ ida' = ida /\ fake' = fake
        /\ misread' = misread /\ (WriterDied => WriterDied')
    BY <1>14, <1>a DEF Unregister, Return, NoArg, Goto, busVars, pciVars, WriterDied
  <2>2. \A e \in ToSet(list) : dev'[e].id = dev[e].id /\ dev'[e].addr = dev[e].addr
    BY <1>14, <1>c, UnregisterEffect DEF ListOK
  <2>3. \A y \in Actors : Alike(y)
    BY <1>14, <1>a, <1>b DEF Unregister, Return, NoArg, Goto, busVars, pciVars, Alike, IdPcs, FakePcs, DelPcs
  <2>4. DistinctOK /\ TakenOK /\ PciOK => PciOK'
    BY <1>14, <2>3 DEF Unregister, pciVars, PciOK, Alike, IdPcs
  <2> QED
    BY <1>d, <2>1, <2>2, <2>3, <2>4
<1>15. ASSUME NEW d \in Objs, PortBegin(d) PROVE FunInv'
  <2>1. /\ ToSet(list') = ToSet(list) /\ ida' = ida /\ fake' = fake
        /\ misread' = misread /\ (WriterDied => WriterDied')
    BY <1>15, <1>a DEF PortBegin, busVars, pciVars, WriterDied
  <2>2. \A e \in ToSet(list) : dev'[e].id = dev[e].id /\ dev'[e].addr = dev[e].addr
    BY <1>15 DEF PortBegin, busVars
  <2>3. \A y \in Actors : Alike(y)
    BY <1>15, <1>a, <1>b DEF PortBegin, busVars, pciVars, Alike, IdPcs, FakePcs, DelPcs
  <2>4. DistinctOK /\ TakenOK /\ PciOK => PciOK'
    BY <1>15, <2>3 DEF PortBegin, pciVars, PciOK, Alike, IdPcs
  <2> QED
    BY <1>d, <2>1, <2>2, <2>3, <2>4
<1>16. ASSUME NEW d \in Objs, Release(d) PROVE FunInv'
  <2>1. /\ ToSet(list') = ToSet(list) /\ ida' = ida /\ fake' = fake
        /\ misread' = misread /\ (WriterDied => WriterDied')
    BY <1>16, <1>a DEF Release, NoDev, busVars, pciVars, WriterDied
  <2>2. \A e \in ToSet(list) : dev'[e].id = dev[e].id /\ dev'[e].addr = dev[e].addr
    BY <1>16, <1>c, ReleaseEffect DEF ListOK
  <2>3. \A y \in Actors : Alike(y)
    BY <1>16, <1>a, <1>b DEF Release, NoDev, busVars, pciVars, Alike, IdPcs, FakePcs, DelPcs
  <2>4. DistinctOK /\ TakenOK /\ PciOK => PciOK'
    BY <1>16, <2>3 DEF Release, pciVars, PciOK, Alike, IdPcs
  <2> QED
    BY <1>d, <2>1, <2>2, <2>3, <2>4
<1>17. ASSUME NEW a \in Addrs, PciRemove(a) PROVE FunInv'
  <2>1. /\ ToSet(list') = ToSet(list) /\ ida' = ida /\ fake' = fake
        /\ misread' = misread /\ (WriterDied => WriterDied')
    BY <1>17, <1>a DEF PciRemove, busVars, pciVars, WriterDied
  <2>2. \A e \in ToSet(list) : dev'[e].id = dev[e].id /\ dev'[e].addr = dev[e].addr
    BY <1>17 DEF PciRemove, busVars
  <2>3. \A y \in Actors : Alike(y)
    BY <1>17, <1>a, <1>b DEF PciRemove, busVars, pciVars, Alike, IdPcs, FakePcs, DelPcs
  <2>4. DistinctOK /\ TakenOK /\ PciOK => PciOK'
    BY <1>17, <2>1, <2>3 DEF PciRemove, PciOK, Alike
  <2> QED
    BY <1>d, <2>1, <2>2, <2>3, <2>4
<1>18. CASE PortEnd
  <2>1. /\ ToSet(list') = ToSet(list) /\ ida' = ida /\ fake' = fake
        /\ misread' = misread /\ (WriterDied => WriterDied')
    BY <1>18, <1>a DEF PortEnd, busVars, pciVars, WriterDied
  <2>2. \A e \in ToSet(list) : dev'[e].id = dev[e].id /\ dev'[e].addr = dev[e].addr
    BY <1>18 DEF PortEnd, busVars
  <2>3. \A y \in Actors : Alike(y)
    BY <1>18, <1>a, <1>b DEF PortEnd, busVars, pciVars, Alike, IdPcs, FakePcs, DelPcs
  <2>4. DistinctOK /\ TakenOK /\ PciOK => PciOK'
    BY <1>18, <2>3 DEF PortEnd, pciVars, PciOK, Alike, IdPcs
  <2> QED
    BY <1>d, <2>1, <2>2, <2>3, <2>4
<1>19. CASE PciRescan
  <2>1. /\ ToSet(list') = ToSet(list) /\ ida' = ida /\ fake' = fake
        /\ misread' = misread /\ (WriterDied => WriterDied')
    BY <1>19, <1>a DEF PciRescan, Rescan, Found, busVars, pciVars, WriterDied
  <2>2. \A e \in ToSet(list) : dev'[e].id = dev[e].id /\ dev'[e].addr = dev[e].addr
    BY <1>19 DEF PciRescan, busVars
  <2>3. \A y \in Actors : Alike(y)
    BY <1>19, <1>a, <1>b DEF PciRescan, Rescan, Found, busVars, pciVars, Alike, IdPcs, FakePcs, DelPcs
  <2>4. DistinctOK /\ TakenOK /\ PciOK => PciOK'
    BY <1>19, <2>1, <2>3 DEF PciRescan, Rescan, Found, PciOK, Alike
  <2> QED
    BY <1>d, <2>1, <2>2, <2>3, <2>4
<1>20. CASE LoadPci
  <2>1. /\ ToSet(list') = ToSet(list) /\ ida' = ida /\ fake' = fake
        /\ misread' = misread /\ (WriterDied => WriterDied')
    BY <1>20, <1>a DEF LoadPci, Goto, busVars, pciVars, WriterDied
  <2>2. \A e \in ToSet(list) : dev'[e].id = dev[e].id /\ dev'[e].addr = dev[e].addr
    BY <1>20 DEF LoadPci, busVars
  <2>3. \A y \in Actors : Alike(y)
    BY <1>20, <1>a, <1>b DEF LoadPci, Goto, busVars, pciVars, Alike, IdPcs, FakePcs, DelPcs
  <2>4. DistinctOK /\ TakenOK /\ PciOK => PciOK'
    BY <1>20, <2>3 DEF LoadPci, pciVars, PciOK, Alike, IdPcs
  <2> QED
    BY <1>d, <2>1, <2>2, <2>3, <2>4
<1>21. CASE LoadBus
  <2>1. /\ ToSet(list') = ToSet(list) /\ ida' = ida /\ fake' = fake
        /\ misread' = misread /\ (WriterDied => WriterDied')
    BY <1>21, <1>a DEF LoadBus, Goto, busVars, pciVars, WriterDied
  <2>2. \A e \in ToSet(list) : dev'[e].id = dev[e].id /\ dev'[e].addr = dev[e].addr
    BY <1>21 DEF LoadBus, busVars
  <2>3. \A y \in Actors : Alike(y)
    BY <1>21, <1>a, <1>b DEF LoadBus, Goto, busVars, pciVars, Alike, IdPcs, FakePcs, DelPcs
  <2>4. DistinctOK /\ TakenOK /\ PciOK => PciOK'
    BY <1>21, <2>3 DEF LoadBus, pciVars, PciOK, Alike, IdPcs
  <2> QED
    BY <1>d, <2>1, <2>2, <2>3, <2>4
<1>22. CASE LoadBusFails
  <2>1. /\ ToSet(list') = ToSet(list) /\ ida' = ida /\ fake' = fake
        /\ misread' = misread /\ (WriterDied => WriterDied')
    BY <1>22, <1>a DEF LoadBusFails, Goto, busVars, pciVars, WriterDied
  <2>2. \A e \in ToSet(list) : dev'[e].id = dev[e].id /\ dev'[e].addr = dev[e].addr
    BY <1>22 DEF LoadBusFails, busVars
  <2>3. \A y \in Actors : Alike(y)
    BY <1>22, <1>a, <1>b DEF LoadBusFails, Goto, busVars, pciVars, Alike, IdPcs, FakePcs, DelPcs
  <2>4. DistinctOK /\ TakenOK /\ PciOK => PciOK'
    BY <1>22, <2>3 DEF LoadBusFails, pciVars, PciOK, Alike, IdPcs
  <2> QED
    BY <1>d, <2>1, <2>2, <2>3, <2>4
<1>23. CASE LoadLink
  <2>1. /\ ToSet(list') = ToSet(list) /\ ida' = ida /\ fake' = fake
        /\ misread' = misread /\ (WriterDied => WriterDied')
    BY <1>23, <1>a DEF LoadLink, Goto, busVars, pciVars, WriterDied
  <2>2. \A e \in ToSet(list) : dev'[e].id = dev[e].id /\ dev'[e].addr = dev[e].addr
    BY <1>23 DEF LoadLink, busVars
  <2>3. \A y \in Actors : Alike(y)
    BY <1>23, <1>a, <1>b DEF LoadLink, Goto, busVars, pciVars, Alike, IdPcs, FakePcs, DelPcs
  <2>4. DistinctOK /\ TakenOK /\ PciOK => PciOK'
    BY <1>23, <2>3 DEF LoadLink, pciVars, PciOK, Alike, IdPcs
  <2> QED
    BY <1>d, <2>1, <2>2, <2>3, <2>4
<1>24. CASE ExitBegin
  <2>1. /\ ToSet(list') = ToSet(list) /\ ida' = ida /\ fake' = fake
        /\ misread' = misread /\ (WriterDied => WriterDied')
    BY <1>24, <1>a DEF ExitBegin, Goto, busVars, pciVars, WriterDied
  <2>2. \A e \in ToSet(list) : dev'[e].id = dev[e].id /\ dev'[e].addr = dev[e].addr
    BY <1>24 DEF ExitBegin, busVars
  <2>3. \A y \in Actors : Alike(y)
    BY <1>24, <1>a, <1>b DEF ExitBegin, Goto, busVars, pciVars, Alike, IdPcs, FakePcs, DelPcs
  <2>4. DistinctOK /\ TakenOK /\ PciOK => PciOK'
    BY <1>24, <2>3 DEF ExitBegin, pciVars, PciOK, Alike, IdPcs
  <2> QED
    BY <1>d, <2>1, <2>2, <2>3, <2>4
<1>25. CASE ExitDisable
  <2>1. /\ ToSet(list') = ToSet(list) /\ ida' = ida /\ fake' = fake
        /\ misread' = misread /\ (WriterDied => WriterDied')
    BY <1>25, <1>a DEF ExitDisable, Goto, busVars, pciVars, WriterDied
  <2>2. \A e \in ToSet(list) : dev'[e].id = dev[e].id /\ dev'[e].addr = dev[e].addr
    BY <1>25 DEF ExitDisable, busVars
  <2>3. \A y \in Actors : Alike(y)
    BY <1>25, <1>a, <1>b DEF ExitDisable, Goto, busVars, pciVars, Alike, IdPcs, FakePcs, DelPcs
  <2>4. DistinctOK /\ TakenOK /\ PciOK => PciOK'
    BY <1>25, <2>3 DEF ExitDisable, pciVars, PciOK, Alike, IdPcs
  <2> QED
    BY <1>d, <2>1, <2>2, <2>3, <2>4
<1>26. CASE ExitDrop
  <2>1. /\ ToSet(list') = ToSet(list) /\ ida' = ida /\ fake' = fake
        /\ misread' = misread /\ (WriterDied => WriterDied')
    BY <1>26, <1>a DEF ExitDrop, Goto, busVars, pciVars, WriterDied
  <2>2. \A e \in ToSet(list) : dev'[e].id = dev[e].id /\ dev'[e].addr = dev[e].addr
    BY <1>26 DEF ExitDrop, busVars
  <2>3. \A y \in Actors : Alike(y)
    BY <1>26, <1>a, <1>b DEF ExitDrop, Goto, busVars, pciVars, Alike, IdPcs, FakePcs, DelPcs
  <2>4. DistinctOK /\ TakenOK /\ PciOK => PciOK'
    BY <1>26, <2>3 DEF ExitDrop, pciVars, PciOK, Alike, IdPcs
  <2> QED
    BY <1>d, <2>1, <2>2, <2>3, <2>4
<1>27. CASE ExitLock
  <2>1. /\ ToSet(list') = ToSet(list) /\ ida' = ida /\ fake' = fake
        /\ misread' = misread /\ (WriterDied => WriterDied')
    BY <1>27, <1>a DEF ExitLock, Goto, busVars, pciVars, WriterDied
  <2>2. \A e \in ToSet(list) : dev'[e].id = dev[e].id /\ dev'[e].addr = dev[e].addr
    BY <1>27 DEF ExitLock, busVars
  <2>3. \A y \in Actors : Alike(y)
    BY <1>27, <1>a, <1>b DEF ExitLock, Goto, busVars, pciVars, Alike, IdPcs, FakePcs, DelPcs
  <2>4. DistinctOK /\ TakenOK /\ PciOK => PciOK'
    BY <1>27, <2>3 DEF ExitLock, pciVars, PciOK, Alike, IdPcs
  <2> QED
    BY <1>d, <2>1, <2>2, <2>3, <2>4
<1>28. CASE ExitNext
  <2> SUFFICES ASSUME ~misread', ~WriterDied' PROVE DistinctOK' /\ TakenOK' /\ PciOK'
    BY DEF FunInv
  <2>g. DistinctOK /\ TakenOK /\ PciOK
    BY <1>28, <1>a DEF ExitNext, Take, Goto, FunInv, WriterDied
  <2>1. PICK k \in DOMAIN list : Take(Module, k)
    <3>1. list \in Seq(Objs) /\ list # <<>>
      BY <1>28 DEF ExitNext, TypeOK
    <3>2. 1 \in DOMAIN list
      BY <3>1, EmptySeq, LenProperties
    <3> QED
      BY <1>28, <3>2 DEF ExitNext
  <2> DEFINE d == list[k]
  <2>2. /\ d \in Objs /\ d \in ToSet(list) /\ ToSet(list') = ToSet(list) \ {d}
    BY <2>1, ListedTyped DEF Take
  <2>3. /\ arg'[Module].id = dev[d].id /\ arg'[Module].addr = dev[d].addr /\ pc'[Module] = "unlist"
        /\ \A y \in Actors \ {Module} : pc'[y] = pc[y] /\ arg'[y] = arg[y]
    <3>1. /\ arg' = [arg EXCEPT ![Module] = [NoArg EXCEPT !.id = dev[d].id, !.addr = dev[d].addr, !.dev = d]]
          /\ pc' = [pc EXCEPT ![Module] = "unlist"]
      BY <2>1 DEF Take, Goto
    <3> QED
      BY <1>a, <3>1 DEF NoArg
  <2>4. /\ dev' = dev /\ ida' = ida /\ fake' = fake /\ probed' = probed /\ pci' = pci
        /\ pc[Module] \notin NewPcs \cup DelPcs
    BY <1>28 DEF ExitNext, pciVars, NewPcs, DelPcs
  <2>l. \A y \in Actors \ {Module} : pc[y] \notin NewPcs \cup DelPcs
    BY <1>28, <1>a, <1>l DEF ExitNext, LockInv, Holds, NewPcs, DelPcs, NsimBusAssumption
  <2> HIDE DEF d
  <2>5. DistinctOK'
    BY <2>g, <2>2, <2>3, <2>4, <2>l, <1>a DEF DistinctOK, IdPcs, FakePcs, NewPcs, DelPcs
  <2>6. TakenOK'
    BY <2>g, <2>2, <2>3, <2>4, <2>l, <1>a DEF TakenOK, HasId, HasFake, IdPcs, FakePcs, NewPcs, DelPcs
  <2>7. PciOK'
    BY <2>g, <2>2, <2>3, <2>4, <2>l, <1>a DEF PciOK, NewPcs, DelPcs
  <2> QED
    BY <2>5, <2>6, <2>7
<1>29. CASE ExitUnlock
  <2>1. /\ ToSet(list') = ToSet(list) /\ ida' = ida /\ fake' = fake
        /\ misread' = misread /\ (WriterDied => WriterDied')
    BY <1>29, <1>a DEF ExitUnlock, Goto, busVars, pciVars, WriterDied
  <2>2. \A e \in ToSet(list) : dev'[e].id = dev[e].id /\ dev'[e].addr = dev[e].addr
    BY <1>29 DEF ExitUnlock, busVars
  <2>3. \A y \in Actors : Alike(y)
    BY <1>29, <1>a, <1>b DEF ExitUnlock, Goto, busVars, pciVars, Alike, IdPcs, FakePcs, DelPcs
  <2>4. DistinctOK /\ TakenOK /\ PciOK => PciOK'
    BY <1>29, <2>3 DEF ExitUnlock, pciVars, PciOK, Alike, IdPcs
  <2> QED
    BY <1>d, <2>1, <2>2, <2>3, <2>4
<1>30. CASE ExitWait
  <2>1. /\ ToSet(list') = ToSet(list) /\ ida' = ida /\ fake' = fake
        /\ misread' = misread /\ (WriterDied => WriterDied')
    BY <1>30, <1>a DEF ExitWait, Goto, busVars, pciVars, WriterDied
  <2>2. \A e \in ToSet(list) : dev'[e].id = dev[e].id /\ dev'[e].addr = dev[e].addr
    BY <1>30 DEF ExitWait, busVars
  <2>3. \A y \in Actors : Alike(y)
    BY <1>30, <1>a, <1>b DEF ExitWait, Goto, busVars, pciVars, Alike, IdPcs, FakePcs, DelPcs
  <2>4. DistinctOK /\ TakenOK /\ PciOK => PciOK'
    BY <1>30, <2>3 DEF ExitWait, pciVars, PciOK, Alike, IdPcs
  <2> QED
    BY <1>d, <2>1, <2>2, <2>3, <2>4
<1>31. CASE ExitEnd
  <2>1. /\ ToSet(list') = ToSet(list) /\ ida' = ida /\ fake' = fake
        /\ misread' = misread /\ (WriterDied => WriterDied')
    BY <1>31, <1>a DEF ExitEnd, Goto, busVars, pciVars, WriterDied
  <2>2. \A e \in ToSet(list) : dev'[e].id = dev[e].id /\ dev'[e].addr = dev[e].addr
    BY <1>31 DEF ExitEnd, busVars
  <2>3. \A y \in Actors : Alike(y)
    BY <1>31, <1>a, <1>b DEF ExitEnd, Goto, busVars, pciVars, Alike, IdPcs, FakePcs, DelPcs
  <2>4. DistinctOK /\ TakenOK /\ PciOK => PciOK'
    BY <1>31, <2>1, <2>3 DEF ExitEnd, pciVars, PciOK, Alike
  <2> QED
    BY <1>d, <2>1, <2>2, <2>3, <2>4
<1>32. CASE UNCHANGED vars
  <2>1. /\ list' = list /\ ida' = ida /\ fake' = fake /\ probed' = probed /\ pci' = pci
        /\ dev' = dev /\ pc' = pc /\ arg' = arg /\ misread' = misread
    BY <1>32 DEF vars, busVars, pciVars
  <2> QED
    BY <2>1 DEF FunInv, DistinctOK, TakenOK, PciOK, HasId, HasFake, WriterDied
<1> QED
  BY <1>1, <1>2, <1>3, <1>4, <1>5, <1>6, <1>7, <1>8, <1>9, <1>10, <1>11, <1>12, <1>13, <1>14, <1>15, <1>16,
     <1>17, <1>18, <1>19, <1>20, <1>21, <1>22, <1>23, <1>24, <1>25, <1>26, <1>27, <1>28, <1>29, <1>30, <1>31,
     <1>32
     DEF Next, WriterSteps, DelSteps, ExitSteps

-----------------------------------------------------------------------------
(* The theorems. *)

\* The inductive invariant.
IInv == TypeOK /\ LockInv /\ DevInv /\ CountInv /\ FunInv

\* It holds before the module is loaded.
LEMMA InitInv ==
  ASSUME NsimBusAssumption, Init
  PROVE  IInv
<1> USE DEF Init
<1>1. ToSet(list) = {} /\ Len(list) = 0 /\ list \in Seq(Objs)
  BY EmptySeq DEF ToSet
<1>2. \A d \in Objs : dev[d] = NoDev /\ dev[d].state = "none"
  BY DEF NoDev
<1>3. \A x \in Actors : pc[x] = (IF x = Module THEN "load" ELSE "idle") /\ arg[x] = NoArg
  OBVIOUS
<1>4. NoArg \in ArgStates
  BY ArgTyped
<1>5. TypeOK
  <2>1. pc \in [Actors -> AllPcs]
    BY DEF AllPcs, WriterPcs, ModulePcs, LoadPcs
  <2>2. arg \in [Actors -> ArgStates]
    BY <1>4
  <2>3. dev \in [Objs -> DevStates \cup {NoDev}]
    OBVIOUS
  <2>4. count \in Int
    OBVIOUS
  <2> QED
    BY <1>1, <2>1, <2>2, <2>3, <2>4 DEF TypeOK
<1>6. LockInv
  BY <1>3 DEF LockInv, Holds, WriterPcs, ModulePcs, LoadPcs, DelPcs, Actors, NsimBusAssumption
<1>7. DevInv
  BY <1>1, <1>2, <1>3 DEF DevInv, ListOK, NoRepeat, ActorOK, HeldOK, PortOK, NewPcs, DelPcs, DevPcs
<1>8. CountInv
  <2>1. Counted = {}
    BY <1>2 DEF Counted
  <2>2. PhaseOK
    BY <1>2, <1>3 DEF PhaseOK, LoadPcs, OwnPcs, NewPcs, Actors, NsimBusAssumption
  <2>3. pc[Module] = "load"
    BY <1>3 DEF Actors
  <2>4. Own = 0
    BY <2>3 DEF Own, OwnPcs
  <2> QED
    BY <2>1, <2>2, <2>4, FS_EmptySet DEF CountInv, TallyOK
<1>9. FunInv
  BY <1>1, <1>3 DEF FunInv, DistinctOK, TakenOK, HasId, HasFake, PciOK, IdPcs, FakePcs
<1> QED
  BY <1>5, <1>6, <1>7, <1>8, <1>9 DEF IInv

\* The bookkeeping of bus.c and of the fake PCI devices is consistent at every step of
\* every writer, of loading and of unloading the module.
THEOREM BusInvariant == Spec => []IInv
<1>1. Init => IInv
  BY InitInv, NsimBusAssumption
<1>2. IInv /\ [Next]_vars => IInv'
  BY NsimBusAssumption, TypeStep, LockStep, DevStep, PhaseStep, TallyStep, FunStep DEF IInv, CountInv
<1> QED
  BY <1>1, <1>2, PTL DEF Spec

\* FunctionsMatch: the ids and the PCI functions that are taken are those of the devices
\* on the list, each of one device, whenever nobody holds nsim_bus_dev_list_lock.
THEOREM FunctionsAlwaysMatch == Spec => []FunctionsMatch
<1>1. IInv => FunctionsMatch
  <2> SUFFICES ASSUME IInv, lock = None, ~misread
               PROVE  /\ \A d, e \in ToSet(list) : d # e => dev[d].id # dev[e].id /\ dev[d].addr # dev[e].addr
                      /\ ida = {dev[d].id : d \in ToSet(list)}
                      /\ fake = {dev[d].addr : d \in ToSet(list)}
                      /\ probed = fake \cap pci
    BY DEF FunctionsMatch
  <2>1. \A x \in Actors : ~Holds(x)
    BY NsimBusAssumption DEF IInv, LockInv, NsimBusAssumption, Actors
  <2>2. ~WriterDied
    BY <2>1, NsimBusAssumption DEF WriterDied, Holds, Actors, NsimBusAssumption
  <2>3. DistinctOK /\ TakenOK /\ PciOK
    BY <2>2 DEF IInv, FunInv
  <2>4. \A x \in Actors : pc[x] \notin IdPcs \cup FakePcs
    BY <2>1 DEF Holds, IdPcs, FakePcs, IInv, LockInv, DelPcs, ModulePcs, LoadPcs, OwnPcs, ExitPcs
  <2>5. \A d \in ToSet(list) : dev[d].id \in Ids /\ dev[d].addr \in Addrs
    BY DevTyped DEF IInv, DevInv, ListOK
  <2>6. ida \subseteq Ids /\ fake \subseteq Addrs
    BY DEF IInv, TypeOK
  <2>7. ida = {dev[d].id : d \in ToSet(list)}
    BY <2>3, <2>4, <2>5, <2>6 DEF TakenOK, HasId
  <2>8. fake = {dev[d].addr : d \in ToSet(list)}
    BY <2>3, <2>4, <2>5, <2>6 DEF TakenOK, HasFake
  <2> QED
    BY <2>3, <2>7, <2>8 DEF DistinctOK, PciOK
<1> QED
  BY <1>1, BusInvariant, PTL

\* PortUseReady: a writer of new_port or del_port that has passed the test of init works
\* on a registered device whose probe has ended.
THEOREM PortUsesReady == Spec => []PortUseReady
<1>1. IInv => PortUseReady
  BY DEF IInv, DevInv, PortOK, PortUseReady
<1> QED
  BY <1>1, BusInvariant, PTL

\* Nothing and nothing more.
LEMMA ZeroSum == \A c \in Nat : c + 0 = 0 => c = 0
OBVIOUS

\* ExitWaits: nsim_bus_exit passes its completion only when every device is released,
\* unless a writer raced with it or an actor died.
THEOREM ExitWaitsForAll == Spec => []ExitWaits
<1>1. IInv => ExitWaits
  <2> SUFFICES ASSUME IInv, pc[Module] \in {"unregister bus", "unloaded"}, ~raced, ~Died
               PROVE  Live = {}
    BY DEF ExitWaits
  <2>1. ~WriterDied
    BY DEF WriterDied, Died, Actors
  <2>2. released /\ pc[Module] \notin OwnPcs
    BY DEF IInv, CountInv, PhaseOK, OwnPcs
  <2>3. Cardinality(Counted) = 0 /\ IsFiniteSet(Counted)
    <3>1. /\ IsFiniteSet(Counted) /\ count = Cardinality(Counted) + Own /\ count = 0
          /\ Own = 0
      BY <2>1, <2>2 DEF IInv, CountInv, TallyOK, Own
    <3>2. Cardinality(Counted) \in Nat
      BY <3>1, FS_CardinalityType
    <3>3. Cardinality(Counted) + 0 = 0
      BY <3>1
    <3>4. Cardinality(Counted) = 0
      BY <3>2, <3>3, ZeroSum, Zenon
    <3> QED
      BY <3>1, <3>4
  <2>4. Counted = {}
    BY <2>3, FS_EmptySet
  <2>5. \A w \in Writers : pc[w] \notin NewPcs
    BY <2>2 DEF IInv, CountInv, PhaseOK
  <2>6. ASSUME NEW d \in Objs, dev[d].state # "none" PROVE FALSE
    <3>1. ~dev[d].counted
      BY <2>4, <2>6 DEF Counted
    <3>2. dev[d].state = "registered"
      BY <2>6, <3>1, DevTyped DEF IInv, DevInv, HeldOK
    <3>3. d \notin ToSet(list)
      BY <3>1 DEF IInv, DevInv, ListOK
    <3>4. PICK x \in Actors : arg[x].dev = d /\ pc[x] \in DevPcs
      BY <3>2, <3>3 DEF IInv, DevInv, HeldOK
    <3>5. pc[x] \in {"probe", "finish"}
      BY <3>1, <3>4 DEF IInv, DevInv, ActorOK, OwnDev, DevPcs
    <3>6. x \in Writers
      BY <3>5 DEF Actors
    <3> QED
      BY <2>5, <3>5, <3>6 DEF NewPcs
  <2> QED
    BY <2>6, DevTyped DEF Live, IInv
<1> QED
  BY <1>1, BusInvariant, PTL
=============================================================================
