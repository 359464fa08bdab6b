---------------------------- MODULE NsimDevProofs ---------------------------
(***************************************************************************)
(* Proofs about NsimDev for any number of ports and of virtual functions:  *)
(* the parts of the device are set up and torn down once each, the trap    *)
(* work exists exactly while its data does, and ports, pins and VF         *)
(* configurations match.                                                   *)
(***************************************************************************)
EXTENDS NsimDev, SequenceTheorems, TLAPS

USE NsimDevAssumption DEF NsimDevAssumption

(***************************************************************************)
(* The uses of the device the theorems are about: the ones the run makes,  *)
(* and ports whose indices are not those of virtual functions.             *)
(***************************************************************************)
PlainUse ==
  /\ Uses = {}
  /\ \A i \in PfIndices : i < VfBase
  /\ PortCount <= VfBase

(***************************************************************************)
(* The inductive invariant.                                                *)
(***************************************************************************)

\* All parts, in the order in which a removal leaves them: the parts a reload goes
\* through are the last of them.
AllParts == RemoveRest \o ReloadDestroy

PartNames == {"vfconfigs", "register", "resources", "params", "region", "traps", "debugfs",
              "fib", "health", "bpf", "psample", "hwstats", "ports", "dpll"}

First(s, k) == {s[j] : j \in 1..k}

OpNames == {"none", "probe", "probe undo", "reload up", "reload undo", "reload down", "remove"}

Records ==
  /\ bus \in [registered : BOOLEAN, init : BOOLEAN, wpc : BOOLEAN, numVfs : Nat, maxVfs : Nat]
  /\ op \in [name : OpNames, k : Nat]
  /\ reload \in [failed : BOOLEAN, fail : BOOLEAN, forbid : BOOLEAN]

TypeOK ==
  /\ Records
  /\ drvdata \in BOOLEAN
  /\ esw \in {"legacy", "switchdev"}
  /\ vfs \in Nat
  /\ work \in {"idle", "queued", "running", "reporting", "requeue"}
  /\ writer \in Nat \cup {-1}

\* Where an operation is, in the end of a failed probe or creation without the last
\* part; a device has its driver data from the probe on.
InRange(name, k) ==
  /\ name = "none" => k = 0
  /\ name \in {"probe", "remove"} => k <= 14
  /\ name = "probe undo" => k <= 13
  /\ name \in {"reload up", "reload undo"} => k <= 7
  /\ name = "reload down" => k <= 8

OpInv ==
  /\ InRange(op.name, op.k)
  /\ op.name # "none" => drvdata
  /\ drvdata => bus.registered
  /\ op.name = "probe" => ~reload.failed

\* The parts that should be set up, but for the DPLL of a device that has none.
Have ==
  CASE op.name \in {"probe", "probe undo"}                     -> First(ProbeParts, op.k)
    [] op.name \in {"reload up", "reload undo", "reload down"} -> First(AllParts, op.k + 6)
    [] op.name = "remove"                                      -> First(AllParts, op.k)
    [] op.name = "none" /\ ~drvdata                            -> {}
    [] op.name = "none" /\ drvdata /\ reload.failed            -> First(AllParts, 6)
    [] op.name = "none" /\ drvdata /\ ~reload.failed           -> First(AllParts, 14)

PartsInv == parts \subseteq Have /\ Have \subseteq parts \cup {"dpll"}

\* The ports are those of the PF and of the VFs; each has its own index, which
\* devlink knows; there are none without the part that makes them; and no VF
\* port is left for nsim_dev_port_del_all.
PortOK(p) == p.vf \in BOOLEAN /\ p.index \in Nat /\ (p.vf <=> p.index >= VfBase)

PortsKnown ==
  /\ \A p \in ports : PortOK(p)
  /\ \A p, q \in ports : p.index = q.index => p = q
  /\ devlink = IndicesOf(ports)

PortsInv == PortsKnown /\ (ports # {} => "ports" \in parts)

VfSet(n) == {Vf(i) : i \in 0..n - 1}

VfInv ==
  /\ VfPorts = IF esw = "switchdev" THEN VfSet(bus.numVfs) ELSE {}
  /\ op.name # "none" \/ reload.failed \/ ~drvdata => bus.numVfs = 0 \/ esw = "legacy"
  /\ op.name \in {"probe", "probe undo"} => bus.numVfs = 0

PinsInv ==
  /\ pins \subseteq ports
  /\ \A p \in pins : ~p.vf
  /\ pins # {} => "dpll" \in parts

ConfigInv ==
  /\ bus.numVfs <= bus.maxVfs
  /\ "vfconfigs" \in parts => vfs = bus.maxVfs
  /\ writer # -1 => "debugfs" \in parts

IInv ==
  /\ TypeOK /\ OpInv /\ WorkFollowsTraps /\ PartsInv
  /\ PortsInv /\ VfInv /\ PinsInv /\ ConfigInv

-----------------------------------------------------------------------------
(* Facts about the plans. *)

\* The plans, element by element.
LEMMA PlanParts ==
  /\ Len(ProbeParts) = 14 /\ Len(ReloadParts) = 7 /\ Len(ReloadDestroy) = 8
  /\ Len(RemoveRest) = 6 /\ Len(AllParts) = 14
  /\ \A j \in 1..7 : ReloadParts[j] = AllParts[j + 6]
  /\ \A j \in 1..8 : ReloadDestroy[j] = AllParts[j + 6]
  /\ \A j \in 1..6 : RemoveRest[j] = AllParts[j]
<1>1. Len(ReloadParts) = 7 /\ Len(RemoveRest) = 6 /\ Len(ProbeParts) = 14
  BY DEF ReloadParts, RemoveRest, ProbeParts
<1>2. ReloadParts \in Seq(PartNames)
  BY DEF ReloadParts, PartNames
<1>3. RemoveRest \in Seq(PartNames)
  BY DEF RemoveRest, PartNames
<1>4. <<"dpll">> \in Seq(PartNames) /\ Len(<<"dpll">>) = 1
  BY DEF PartNames
<1>5. /\ ReloadDestroy \in Seq(PartNames) /\ Len(ReloadDestroy) = 8
      /\ \A j \in 1..7 : ReloadDestroy[j] = ReloadParts[j]
  <2> DEFINE a == ReloadParts
             b == <<"dpll">>
  <2>1. a \in Seq(PartNames) /\ b \in Seq(PartNames) /\ Len(a) = 7 /\ Len(b) = 1
    BY <1>1, <1>2, <1>4
  <2> HIDE DEF a, b
  <2>2. /\ a \o b \in Seq(PartNames) /\ Len(a \o b) = Len(a) + Len(b)
        /\ \A i \in 1..Len(a) + Len(b) : (a \o b)[i] = IF i <= Len(a) THEN a[i] ELSE b[i - Len(a)]
    BY <2>1, ConcatProperties
  <2>3. ReloadDestroy = a \o b
    BY DEF ReloadDestroy, a, b
  <2>4. Len(ReloadDestroy) = 8 /\ \A j \in 1..7 : ReloadDestroy[j] = a[j]
    BY <2>1, <2>2, <2>3
  <2> QED
    BY <2>2, <2>3, <2>4 DEF a
<1>6. /\ Len(AllParts) = 14
      /\ \A j \in 1..6 : AllParts[j] = RemoveRest[j]
      /\ \A j \in 1..8 : AllParts[j + 6] = ReloadDestroy[j]
  <2> DEFINE a == RemoveRest
             b == ReloadDestroy
  <2>1. a \in Seq(PartNames) /\ b \in Seq(PartNames) /\ Len(a) = 6 /\ Len(b) = 8
    BY <1>1, <1>3, <1>5
  <2> HIDE DEF a, b
  <2>2. /\ Len(a \o b) = Len(a) + Len(b)
        /\ \A i \in 1..Len(a) + Len(b) : (a \o b)[i] = IF i <= Len(a) THEN a[i] ELSE b[i - Len(a)]
    BY <2>1, ConcatProperties
  <2>3. AllParts = a \o b
    BY DEF AllParts, a, b
  <2>4. Len(AllParts) = 14 /\ \A i \in 1..14 : AllParts[i] = IF i <= 6 THEN a[i] ELSE b[i - 6]
    <3>1. Len(a) + Len(b) = 14
      BY <2>1
    <3> QED
      BY <2>1, <2>2, <2>3, <3>1, Zenon
  <2>5. ASSUME NEW j \in 1..8 PROVE AllParts[j + 6] = b[j]
    <3> DEFINE i == j + 6
    <3>1. i \in 1..14 /\ ~(i <= 6) /\ i - 6 = j
      OBVIOUS
    <3> HIDE DEF i
    <3>2. AllParts[i] = b[i - 6]
      BY <2>4, <3>1
    <3> QED
      BY <3>1, <3>2 DEF i
  <2> QED
    BY <2>4, <2>5 DEF a, b
<1> QED
  BY <1>1, <1>5, <1>6

\* The parts nsim_drv_probe sets up, by their place.
LEMMA ProbeElements ==
  /\ ProbeParts[1] = "vfconfigs" /\ ProbeParts[2] = "register" /\ ProbeParts[3] = "resources"
  /\ ProbeParts[4] = "params" /\ ProbeParts[5] = "region" /\ ProbeParts[6] = "traps"
  /\ ProbeParts[7] = "debugfs" /\ ProbeParts[8] = "fib" /\ ProbeParts[9] = "health"
  /\ ProbeParts[10] = "bpf" /\ ProbeParts[11] = "psample" /\ ProbeParts[12] = "hwstats"
  /\ ProbeParts[13] = "ports" /\ ProbeParts[14] = "dpll"
BY DEF ProbeParts

\* The parts nsim_drv_remove takes down, by their place.
LEMMA AllElements ==
  /\ AllParts[1] = "vfconfigs" /\ AllParts[2] = "register" /\ AllParts[3] = "resources"
  /\ AllParts[4] = "params" /\ AllParts[5] = "debugfs" /\ AllParts[6] = "bpf"
  /\ AllParts[7] = "region" /\ AllParts[8] = "traps" /\ AllParts[9] = "fib"
  /\ AllParts[10] = "health" /\ AllParts[11] = "psample" /\ AllParts[12] = "hwstats"
  /\ AllParts[13] = "ports" /\ AllParts[14] = "dpll"
<1>1. RemoveRest[1] = "vfconfigs" /\ RemoveRest[2] = "register" /\ RemoveRest[3] = "resources"
  BY DEF RemoveRest
<1>2. RemoveRest[4] = "params" /\ RemoveRest[5] = "debugfs" /\ RemoveRest[6] = "bpf"
  BY DEF RemoveRest
<1>3. /\ ReloadParts[1] = "region" /\ ReloadParts[2] = "traps" /\ ReloadParts[3] = "fib"
      /\ ReloadParts[4] = "health" /\ ReloadParts[5] = "psample" /\ ReloadParts[6] = "hwstats"
      /\ ReloadParts[7] = "ports"
  BY DEF ReloadParts
<1>4. ReloadDestroy[8] = "dpll"
  BY DEF ReloadDestroy, ReloadParts
<1> QED
  BY <1>1, <1>2, <1>3, <1>4, PlanParts

\* No part is twice in a plan, and both plans have the same parts.
LEMMA PlansDistinct ==
  /\ \A i, j \in 1..14 : ProbeParts[i] = ProbeParts[j] => i = j
  /\ \A i, j \in 1..14 : AllParts[i] = AllParts[j] => i = j
  /\ First(AllParts, 14) = First(ProbeParts, 14)
<1>1. \A i \in 1..14 : i = 1 \/ i = 2 \/ i = 3 \/ i = 4 \/ i = 5 \/ i = 6 \/ i = 7
                       \/ i = 8 \/ i = 9 \/ i = 10 \/ i = 11 \/ i = 12 \/ i = 13 \/ i = 14
  OBVIOUS
<1>2. \A i, j \in 1..14 : ProbeParts[i] = ProbeParts[j] => i = j
  BY <1>1, ProbeElements
<1>3. \A i, j \in 1..14 : AllParts[i] = AllParts[j] => i = j
  BY <1>1, AllElements
<1>4. First(AllParts, 14) = First(ProbeParts, 14)
  <2>1. \A i \in 1..14 : \E j \in 1..14 : AllParts[i] = ProbeParts[j]
    BY <1>1, ProbeElements, AllElements
  <2>2. \A i \in 1..14 : \E j \in 1..14 : ProbeParts[i] = AllParts[j]
    BY <1>1, ProbeElements, AllElements
  <2> QED
    BY <2>1, <2>2 DEF First
<1> QED
  BY <1>2, <1>3, <1>4

\* What one step does to the first parts of a plan.
LEMMA FirstStep ==
  ASSUME NEW s, \A i, j \in 1..14 : s[i] = s[j] => i = j, NEW k \in 0..13
  PROVE  First(s, k + 1) = First(s, k) \cup {s[k + 1]} /\ s[k + 1] \notin First(s, k)
<1>1. \A j \in 1..(k + 1) : j \in 1..k \/ j = k + 1
  OBVIOUS
<1>2. \A j \in 1..k : j \in 1..14 /\ j \in 1..(k + 1) /\ j # k + 1
  OBVIOUS
<1>3. k + 1 \in 1..14 /\ k + 1 \in 1..(k + 1)
  OBVIOUS
<1> QED
  BY <1>1, <1>2, <1>3 DEF First

\* The plan of each operation.
LEMMA PlanIs ==
  /\ op.name \in {"probe", "probe undo"} => Plan = ProbeParts
  /\ op.name \in {"reload up", "reload undo"} => Plan = ReloadParts
  /\ op.name = "reload down" => Plan = ReloadDestroy
  /\ op.name = "remove" => Plan = AllParts
BY DEF Plan, AllParts

\* The part a step sets up is not there yet ...
LEMMA UpPart ==
  ASSUME TypeOK, OpInv, Rising
  PROVE  /\ Plan[op.k + 1] \notin Have
         /\ Plan[op.k + 1] = "dpll" => op.name = "probe"
         /\ (op' = [op EXCEPT !.k = @ + 1] /\ UNCHANGED <<drvdata, reload>>) =>
              Have' = Have \cup {Plan[op.k + 1]}
<1>1. op \in [name : OpNames, k : Nat] /\ op.k \in Nat
  BY DEF TypeOK, Records
<1>2. op' = [op EXCEPT !.k = @ + 1] => op'.name = op.name /\ op'.k = op.k + 1
  BY <1>1
<1>3. CASE op.name = "probe"
  <2>1. Plan = ProbeParts /\ op.k \in 0..13
    <3>1. Plan = ProbeParts
      BY <1>3, PlanIs
    <3>2. Len(ProbeParts) = 14
      BY PlanParts
    <3>3. op.k < 14
      BY <3>1, <3>2 DEF Rising
    <3> QED
      BY <1>1, <3>1, <3>3
  <2>2. Have = First(ProbeParts, op.k)
    BY <1>3 DEF Have
  <2>3. op'.name = op.name => Have' = First(ProbeParts, op'.k)
    BY <1>3 DEF Have
  <2>4. /\ First(ProbeParts, op.k + 1) = First(ProbeParts, op.k) \cup {ProbeParts[op.k + 1]}
        /\ ProbeParts[op.k + 1] \notin First(ProbeParts, op.k)
    BY <2>1, FirstStep, PlansDistinct
  <2> QED
    BY <1>2, <1>3, <2>1, <2>2, <2>3, <2>4
<1>4. CASE op.name = "reload up"
  <2>1. Plan = ReloadParts /\ op.k \in 0..6
    <3>1. Plan = ReloadParts
      BY <1>4, PlanIs
    <3>2. Len(ReloadParts) = 7
      BY PlanParts
    <3>3. op.k < 7
      BY <3>1, <3>2 DEF Rising
    <3> QED
      BY <1>1, <3>1, <3>3
  <2>2. Have = First(AllParts, op.k + 6)
    BY <1>4 DEF Have
  <2>3. op'.name = op.name => Have' = First(AllParts, op'.k + 6)
    BY <1>4 DEF Have
  <2>4. op.k + 6 \in 0..13 /\ (op.k + 6) + 1 = (op.k + 1) + 6 /\ op.k + 1 \in 1..7
        /\ (op.k + 1) + 6 \in 1..14 /\ (op.k + 1) + 6 # 14
    BY <2>1
  <2>5. /\ First(AllParts, (op.k + 6) + 1) =
             First(AllParts, op.k + 6) \cup {AllParts[(op.k + 6) + 1]}
        /\ AllParts[(op.k + 6) + 1] \notin First(AllParts, op.k + 6)
    BY <2>4, FirstStep, PlansDistinct
  <2>6. Plan[op.k + 1] = AllParts[(op.k + 1) + 6]
    BY <2>1, <2>4, PlanParts
  <2>7. Plan[op.k + 1] # "dpll"
    BY <2>4, <2>6, AllElements, PlansDistinct
  <2> QED
    BY <1>2, <2>2, <2>3, <2>4, <2>5, <2>6, <2>7
<1> QED
  BY <1>3, <1>4 DEF Rising

\* ... the one it tears down is, and the DPLL goes before the ports.
LEMMA DownPart ==
  ASSUME TypeOK, OpInv, Falling
  PROVE  /\ Plan[op.k] \in Have
         /\ Plan[op.k] = "ports" => "dpll" \notin Have
         /\ (op' = [op EXCEPT !.k = @ - 1] /\ UNCHANGED <<drvdata, reload>>) =>
              Have' = Have \ {Plan[op.k]}
<1>1. op \in [name : OpNames, k : Nat] /\ op.k \in Nat /\ op.k > 0
  BY DEF TypeOK, Records, Falling
<1>2. op' = [op EXCEPT !.k = @ - 1] => op'.name = op.name /\ op'.k = op.k - 1
  BY <1>1
<1>3. ASSUME NEW s, \A i, j \in 1..14 : s[i] = s[j] => i = j, s[13] = "ports", s[14] = "dpll",
             NEW k \in 1..14
      PROVE  /\ First(s, k - 1) = First(s, k) \ {s[k]} /\ s[k] \in First(s, k)
             /\ s[k] = "ports" => "dpll" \notin First(s, k)
  <2>1. k - 1 \in 0..13 /\ (k - 1) + 1 = k
    OBVIOUS
  <2>2. /\ First(s, (k - 1) + 1) = First(s, k - 1) \cup {s[(k - 1) + 1]}
        /\ s[(k - 1) + 1] \notin First(s, k - 1)
    BY <1>3, <2>1, FirstStep
  <2>3. ASSUME s[k] = "ports" PROVE "dpll" \notin First(s, k)
    <3>1. k = 13
      BY <1>3, <2>3
    <3>2. \A i \in 1..13 : i \in 1..14 /\ i # 14
      OBVIOUS
    <3> QED
      BY <1>3, <3>1, <3>2 DEF First
  <2> QED
    BY <2>1, <2>2, <2>3
<1>4. CASE op.name = "probe undo"
  <2>1. Plan = ProbeParts /\ op.k \in 1..14 /\ Have = First(ProbeParts, op.k)
    <3>1. Plan = ProbeParts
      BY <1>4, PlanIs
    <3>2. op.k <= 13
      BY <1>4 DEF OpInv, InRange
    <3>3. op.k \in 1..14
      BY <1>1, <3>2
    <3> QED
      BY <1>4, <3>1, <3>3 DEF Have
  <2>2. op'.name = op.name => Have' = First(ProbeParts, op'.k)
    BY <1>4 DEF Have
  <2>3. /\ First(ProbeParts, op.k - 1) = First(ProbeParts, op.k) \ {ProbeParts[op.k]}
        /\ ProbeParts[op.k] \in First(ProbeParts, op.k)
        /\ ProbeParts[op.k] = "ports" => "dpll" \notin First(ProbeParts, op.k)
    BY <1>3, <2>1, ProbeElements, PlansDistinct
  <2> QED
    BY <1>2, <2>1, <2>2, <2>3
<1>5. CASE op.name = "remove"
  <2>1. Plan = AllParts /\ op.k \in 1..14 /\ Have = First(AllParts, op.k)
    BY <1>1, <1>5, PlanIs DEF Have, OpInv, InRange
  <2>2. op'.name = op.name => Have' = First(AllParts, op'.k)
    BY <1>5 DEF Have
  <2>3. /\ First(AllParts, op.k - 1) = First(AllParts, op.k) \ {AllParts[op.k]}
        /\ AllParts[op.k] \in First(AllParts, op.k)
        /\ AllParts[op.k] = "ports" => "dpll" \notin First(AllParts, op.k)
    BY <1>3, <2>1, AllElements, PlansDistinct
  <2> QED
    BY <1>2, <2>1, <2>2, <2>3
<1>6. CASE op.name \in {"reload undo", "reload down"}
  <2>1. /\ op.k \in 1..8
        /\ op.name = "reload undo" => op.k \in 1..7
        /\ Have = First(AllParts, op.k + 6)
    <3>1. op.name = "reload undo" => op.k <= 7
      BY DEF OpInv, InRange
    <3>2. op.name = "reload down" => op.k <= 8
      BY DEF OpInv, InRange
    <3>3. \A k \in Nat : k > 0 => (k <= 8 => k \in 1..8) /\ (k <= 7 => k \in 1..8 /\ k \in 1..7)
      OBVIOUS
    <3>4. op.k \in 1..8 /\ (op.name = "reload undo" => op.k \in 1..7)
      BY <1>1, <1>6, <3>1, <3>2, <3>3
    <3> QED
      BY <1>6, <3>4 DEF Have
  <2>2. op'.name = op.name => Have' = First(AllParts, op'.k + 6)
    BY <1>6 DEF Have
  <2>3. op.k + 6 \in 1..14 /\ (op.k + 6) - 1 = (op.k - 1) + 6
    <3>1. \A k \in 1..8 : k + 6 \in 1..14 /\ (k + 6) - 1 = (k - 1) + 6
      OBVIOUS
    <3> QED
      BY <2>1, <3>1
  <2>4. Plan[op.k] = AllParts[op.k + 6]
    <3>1. CASE op.name = "reload undo"
      BY <2>1, <3>1, PlanIs, PlanParts
    <3>2. CASE op.name = "reload down"
      BY <2>1, <3>2, PlanIs, PlanParts
    <3> QED
      BY <1>6, <3>1, <3>2
  <2>5. /\ First(AllParts, (op.k + 6) - 1) = First(AllParts, op.k + 6) \ {AllParts[op.k + 6]}
        /\ AllParts[op.k + 6] \in First(AllParts, op.k + 6)
        /\ AllParts[op.k + 6] = "ports" => "dpll" \notin First(AllParts, op.k + 6)
    BY <1>3, <2>3, AllElements, PlansDistinct
  <2> QED
    BY <1>2, <2>1, <2>2, <2>3, <2>4, <2>5
<1> QED
  BY <1>4, <1>5, <1>6 DEF Falling

-----------------------------------------------------------------------------
(* Types, and where an operation is. *)

\* What the steps of an operation do to op.
LEMMA OpSteps ==
  ASSUME TypeOK
  PROVE  /\ StepUp => op'.name = op.name /\ op'.k = op.k + 1 /\ op' \in [name : OpNames, k : Nat]
         /\ StepFail => /\ op'.name = IF op.name = "probe" THEN "probe undo" ELSE "reload undo"
                        /\ op'.k = op.k /\ op' \in [name : OpNames, k : Nat]
         /\ StepDown => op'.name = op.name /\ op'.k = op.k - 1 /\ op' \in [name : OpNames, k : Nat]
         /\ ReloadUp => /\ op'.name = IF reload.fail THEN "reload undo" ELSE "reload up"
                        /\ op'.k = 0 /\ op' \in [name : OpNames, k : Nat]
<1>1. op \in [name : OpNames, k : Nat] /\ op.k \in Nat /\ op.name \in OpNames
  BY DEF TypeOK, Records
<1>2. ASSUME StepUp
      PROVE  op'.name = op.name /\ op'.k = op.k + 1 /\ op' \in [name : OpNames, k : Nat]
  BY <1>1, <1>2 DEF StepUp
<1>3. ASSUME StepFail
      PROVE  /\ op'.name = IF op.name = "probe" THEN "probe undo" ELSE "reload undo"
             /\ op'.k = op.k /\ op' \in [name : OpNames, k : Nat]
  BY <1>1, <1>3 DEF StepFail, OpNames
<1>4. ASSUME StepDown
      PROVE  op'.name = op.name /\ op'.k = op.k - 1 /\ op' \in [name : OpNames, k : Nat]
  <2>1. op.k > 0 /\ op' = [op EXCEPT !.k = @ - 1]
    BY <1>4 DEF StepDown, Falling
  <2>2. op.k - 1 \in Nat
    BY <1>1, <2>1
  <2> QED
    BY <1>1, <2>1, <2>2
<1>5. ASSUME ReloadUp
      PROVE  /\ op'.name = IF reload.fail THEN "reload undo" ELSE "reload up"
             /\ op'.k = 0 /\ op' \in [name : OpNames, k : Nat]
  BY <1>1, <1>5 DEF ReloadUp, OpNames
<1> QED
  BY <1>2, <1>3, <1>4, <1>5

\* Every step keeps the records' fields in their sets.
LEMMA RecordsStep ==
  ASSUME TypeOK, [Next]_vars
  PROVE  Records'
<1> DEFINE Buses == [registered : BOOLEAN, init : BOOLEAN, wpc : BOOLEAN,
                     numVfs : Nat, maxVfs : Nat]
           Ops == [name : OpNames, k : Nat]
           Reloads == [failed : BOOLEAN, fail : BOOLEAN, forbid : BOOLEAN]
<1>1. bus \in Buses /\ op \in Ops /\ reload \in Reloads /\ writer \in Nat \cup {-1}
  BY DEF TypeOK, Records
<1>2. /\ NoBus \in Buses /\ Idle \in Ops
      /\ [failed |-> FALSE, fail |-> FALSE, forbid |-> FALSE] \in Reloads
  BY DEF NoBus, Idle, OpNames
<1>3. CASE ProbeBegin
  <2>1. [name |-> "probe", k |-> 0] \in Ops
    BY DEF OpNames
  <2>2. \A wpc \in BOOLEAN :
          [NoBus EXCEPT !.registered = TRUE, !.wpc = wpc, !.maxVfs = DefaultVfs] \in Buses
    BY DEF NoBus
  <2> QED
    BY <1>2, <1>3, <2>1, <2>2 DEF ProbeBegin, Records
<1>4. CASE StepUp \/ StepFail \/ StepDown \/ ReloadUp
  BY <1>1, <1>4, OpSteps DEF StepUp, StepFail, StepDown, ReloadUp, Records
<1>5. CASE ProbeEnd
  BY <1>1, <1>2, <1>5 DEF ProbeEnd, Records
<1>6. CASE RemoveEnd \/ RemoveUnbound
  BY <1>1, <1>2, <1>6 DEF RemoveEnd, RemoveUnbound, Records
<1>7. CASE ReloadEnd
  <2>1. reload' \in Reloads
    BY <1>1, <1>7 DEF ReloadEnd
  <2> QED
    BY <1>1, <1>2, <1>7, <2>1 DEF ReloadEnd, Records
<1>8. CASE RemoveBegin \/ ReloadBegin
  <2>1. bus' \in Buses
    <3>1. [bus EXCEPT !.numVfs = 0] \in Buses
      BY <1>1
    <3> QED
      BY <1>1, <1>8, <3>1 DEF RemoveBegin, ReloadBegin, DropVfs
  <2>2. op' \in Ops
    <3>1. Len(RemoveRest) = 6 /\ Len(ReloadDestroy) = 8
      BY PlanParts
    <3>2. \A n \in Nat : /\ [name |-> "remove", k |-> n] \in Ops
                         /\ [name |-> "reload down", k |-> n] \in Ops
      BY DEF OpNames
    <3>3. /\ Len(RemoveRest) + (IF reload.failed THEN 0 ELSE Len(ReloadDestroy)) \in Nat
          /\ (IF reload.failed THEN 0 ELSE Len(ReloadDestroy)) \in Nat
      BY <3>1
    <3> HIDE DEF Ops
    <3> QED
      BY <1>8, <3>2, <3>3 DEF RemoveBegin, ReloadBegin
  <2> QED
    BY <1>1, <1>8, <2>1, <2>2 DEF RemoveBegin, ReloadBegin, Records
<1>9. CASE SetReload
  BY <1>1, <1>9 DEF SetReload, Records
<1>10. ASSUME NEW n \in VfCounts, ConfigureVfs(n) PROVE Records'
  <2>1. [bus EXCEPT !.numVfs = n] \in Buses
    BY <1>1
  <2> QED
    BY <1>1, <1>10, <2>1 DEF ConfigureVfs, Records
<1>11. CASE MaxVfsWrite
  <2>1. writer # -1 => [bus EXCEPT !.maxVfs = writer] \in Buses
    BY <1>1
  <2> QED
    BY <1>1, <1>11, <2>1 DEF MaxVfsWrite, Records
<1>12. CASE UNCHANGED <<bus, op, reload>>
  BY <1>1, <1>12 DEF Records
<1> QED
  BY <1>3, <1>4, <1>5, <1>6, <1>7, <1>8, <1>9, <1>10, <1>11, <1>12
     DEF Next, OpStep, WorkStep, WorkStart, WorkTryLock, WorkReport, WorkRequeue, WorkMoves,
         NewPort, DelPort, MaxVfsBegin, EswitchModeSet, vars

\* Every step keeps the type invariant.
LEMMA TypeStep ==
  ASSUME TypeOK, [Next]_vars
  PROVE  TypeOK'
<1>1. drvdata' \in BOOLEAN
  BY DEF TypeOK, Next, OpStep, WorkStep, WorkStart, WorkTryLock, WorkReport, WorkRequeue,
         WorkMoves, NewPort, DelPort, MaxVfsBegin, EswitchModeSet, vars, ProbeBegin, RemoveBegin,
         RemoveUnbound, ReloadBegin, SetReload, StepUp, StepFail, StepDown, ProbeEnd, RemoveEnd,
         ReloadUp, ReloadEnd, ConfigureVfs, MaxVfsWrite
<1>2. esw' \in {"legacy", "switchdev"}
  <2>1. esw' = esw \/ esw' = "legacy" \/ esw' = "switchdev"
    <3>1. ASSUME NEW n \in VfCounts, ConfigureVfs(n) PROVE esw' = esw \/ esw' = "legacy"
      BY <3>1 DEF ConfigureVfs
    <3> QED
      BY <3>1 DEF Next, OpStep, WorkStep, WorkStart, WorkTryLock, WorkReport, WorkRequeue,
         WorkMoves, NewPort, DelPort, MaxVfsBegin, EswitchModeSet, vars, ProbeBegin, RemoveBegin,
         RemoveUnbound, ReloadBegin, SetReload, StepUp, StepFail, StepDown, ProbeEnd, RemoveEnd,
         ReloadUp, ReloadEnd, MaxVfsWrite, DropVfs
  <2> QED
    BY <2>1 DEF TypeOK
<1>3. bus.maxVfs \in Nat
  BY DEF TypeOK, Records
<1>4. vfs' \in Nat
  <2>1. vfs' = vfs \/ vfs' = 0 \/ vfs' = bus.maxVfs \/ (writer # -1 /\ vfs' = writer)
    BY DEF Next, OpStep, WorkStep, WorkStart, WorkTryLock, WorkReport, WorkRequeue,
       WorkMoves, NewPort, DelPort, MaxVfsBegin, EswitchModeSet, vars, ProbeBegin, RemoveBegin,
       RemoveUnbound, ReloadBegin, SetReload, StepUp, StepFail, StepDown, ProbeEnd, RemoveEnd,
       ReloadUp, ReloadEnd, ConfigureVfs, MaxVfsWrite, PartUp, PartDown
  <2> QED
    BY <1>3, <2>1 DEF TypeOK
<1>5. work' \in {"idle", "queued", "running", "reporting", "requeue"}
  BY DEF TypeOK, Next, OpStep, WorkStep, WorkStart, WorkTryLock, WorkReport, WorkRequeue,
         WorkMoves, NewPort, DelPort, MaxVfsBegin, EswitchModeSet, vars, ProbeBegin, RemoveBegin,
         RemoveUnbound, ReloadBegin, SetReload, StepUp, StepFail, StepDown, ProbeEnd, RemoveEnd,
         ReloadUp, ReloadEnd, ConfigureVfs, MaxVfsWrite, PartUp, PartDown
<1>6. writer' \in Nat \cup {-1}
  BY DEF TypeOK, Next, OpStep, WorkStep, WorkStart, WorkTryLock, WorkReport, WorkRequeue,
         WorkMoves, NewPort, DelPort, MaxVfsBegin, EswitchModeSet, vars, ProbeBegin, RemoveBegin,
         RemoveUnbound, ReloadBegin, SetReload, StepUp, StepFail, StepDown, ProbeEnd, RemoveEnd,
         ReloadUp, ReloadEnd, ConfigureVfs, MaxVfsWrite
<1> QED
  BY <1>1, <1>2, <1>4, <1>5, <1>6, RecordsStep DEF TypeOK

\* What the beginning and the end of an operation do to op.
LEMMA OpEnds ==
  ASSUME TypeOK, OpInv
  PROVE  /\ op = Idle <=> op.name = "none"
         /\ ProbeBegin => op'.name = "probe" /\ op'.k = 0
         /\ RemoveBegin => op'.name = "remove" /\ op'.k = IF reload.failed THEN 6 ELSE 14
         /\ ReloadBegin => op'.name = "reload down" /\ op'.k = IF reload.failed THEN 0 ELSE 8
         /\ ProbeEnd \/ RemoveEnd \/ ReloadEnd => op'.name = "none" /\ op'.k = 0
<1>1. op = Idle <=> op.name = "none"
  <2>1. op \in [name : OpNames, k : Nat]
    BY DEF TypeOK, Records
  <2>2. op.name = "none" => op.k = 0
    BY DEF OpInv, InRange
  <2> QED
    BY <2>1, <2>2 DEF Idle
<1>2. Len(RemoveRest) = 6 /\ Len(ReloadDestroy) = 8
  BY PlanParts
<1>3. ProbeBegin => op'.name = "probe" /\ op'.k = 0
  BY DEF ProbeBegin
<1>4. ASSUME RemoveBegin
      PROVE  op'.name = "remove" /\ op'.k = IF reload.failed THEN 6 ELSE 14
  <2> DEFINE n == Len(RemoveRest) + IF reload.failed THEN 0 ELSE Len(ReloadDestroy)
  <2>1. op' = [name |-> "remove", k |-> n]
    BY <1>4 DEF RemoveBegin
  <2>2. n = IF reload.failed THEN 6 ELSE 14
    BY <1>2
  <2> HIDE DEF n
  <2> QED
    BY <2>1, <2>2
<1>5. ASSUME ReloadBegin
      PROVE  op'.name = "reload down" /\ op'.k = IF reload.failed THEN 0 ELSE 8
  <2> DEFINE n == IF reload.failed THEN 0 ELSE Len(ReloadDestroy)
  <2>1. op' = [name |-> "reload down", k |-> n]
    BY <1>5 DEF ReloadBegin
  <2>2. n = IF reload.failed THEN 0 ELSE 8
    BY <1>2
  <2> HIDE DEF n
  <2> QED
    BY <2>1, <2>2
<1>6. ASSUME ProbeEnd \/ RemoveEnd \/ ReloadEnd PROVE op'.name = "none" /\ op'.k = 0
  <2>1. op' = Idle
    BY <1>6 DEF ProbeEnd, RemoveEnd, ReloadEnd
  <2> QED
    BY <2>1 DEF Idle
<1> QED
  BY <1>1, <1>3, <1>4, <1>5, <1>6

\* Every step keeps the progress of the operation within its plan.
LEMMA OpInvStep ==
  ASSUME TypeOK, OpInv, [Next]_vars
  PROVE  OpInv'
<1>types. /\ op.k \in Nat /\ op.name \in OpNames /\ drvdata \in BOOLEAN
          /\ reload.failed \in BOOLEAN /\ bus.registered \in BOOLEAN
  BY DEF TypeOK, Records
<1>range. InRange("none", 0)
  BY DEF InRange
<1>1. CASE ProbeBegin
  <2>1. bus'.registered
    BY <1>1 DEF ProbeBegin, NoBus
  <2>2. ~reload'.failed /\ drvdata'
    BY <1>1 DEF ProbeBegin
  <2> QED
    <3>1. op'.name = "probe" /\ op'.k = 0
      BY <1>1, OpEnds
    <3>2. InRange("probe", 0)
      BY DEF InRange
    <3> QED
      BY <2>1, <2>2, <3>1, <3>2 DEF OpInv
<1>2. CASE RemoveBegin \/ ReloadBegin
  <2>1. drvdata' = drvdata /\ drvdata /\ bus'.registered = bus.registered
    BY <1>2 DEF RemoveBegin, ReloadBegin, DropVfs, TypeOK, Records
  <2>2. bus.registered
    BY <2>1 DEF OpInv
  <2>3. \/ op'.name = "remove" /\ (op'.k = 6 \/ op'.k = 14)
        \/ op'.name = "reload down" /\ (op'.k = 0 \/ op'.k = 8)
    BY <1>2, OpEnds
  <2>4. /\ InRange("remove", 6) /\ InRange("remove", 14)
        /\ InRange("reload down", 0) /\ InRange("reload down", 8)
    BY DEF InRange
  <2> QED
    BY <2>1, <2>2, <2>3, <2>4 DEF OpInv
<1>3. CASE ProbeEnd
  <2>1. bus'.registered = bus.registered
    BY <1>3 DEF ProbeEnd, TypeOK, Records
  <2>2. drvdata' => drvdata
    BY <1>3 DEF ProbeEnd
  <2> QED
    BY <1>3, <2>1, <2>2, OpEnds, <1>range DEF OpInv
<1>4. CASE RemoveEnd
  BY <1>4, <1>range, OpEnds DEF RemoveEnd, OpInv
<1>5. CASE ReloadEnd
  <2>1. drvdata' = drvdata /\ bus' = bus
    BY <1>5 DEF ReloadEnd
  <2> QED
    BY <1>5, <1>range, <2>1, OpEnds DEF OpInv
<1>6. CASE StepUp
  <2>1. UNCHANGED <<drvdata, bus, reload>> /\ Rising
    BY <1>6 DEF StepUp
  <2>2. op'.name = op.name /\ op'.k = op.k + 1
    BY <1>6, OpSteps
  <2>3. CASE op.name = "probe"
    <3>1. op.k < 14
      BY <2>1, <2>3, PlanIs, PlanParts DEF Rising
    <3>2. \A k \in Nat : k < 14 => InRange("probe", k + 1)
      BY DEF InRange
    <3> QED
      BY <1>types, <2>1, <2>2, <2>3, <3>1, <3>2 DEF OpInv
  <2>4. CASE op.name = "reload up"
    <3>1. op.k < 7
      BY <2>1, <2>4, PlanIs, PlanParts DEF Rising
    <3>2. \A k \in Nat : k < 7 => InRange("reload up", k + 1)
      BY DEF InRange
    <3> QED
      BY <1>types, <2>1, <2>2, <2>4, <3>1, <3>2 DEF OpInv
  <2> QED
    BY <2>1, <2>3, <2>4 DEF Rising
<1>7. CASE StepFail
  <2>1. UNCHANGED <<drvdata, bus, reload>> /\ Rising
    BY <1>7 DEF StepFail
  <2>2. /\ op'.name = IF op.name = "probe" THEN "probe undo" ELSE "reload undo"
        /\ op'.k = op.k
    BY <1>7, OpSteps
  <2>3. CASE op.name = "probe"
    <3>1. op.k < 14
      BY <2>1, <2>3, PlanIs, PlanParts DEF Rising
    <3>2. \A k \in Nat : k < 14 => InRange("probe undo", k)
      BY DEF InRange
    <3> QED
      BY <1>types, <2>1, <2>2, <2>3, <3>1, <3>2 DEF OpInv
  <2>4. CASE op.name = "reload up"
    <3>1. InRange("reload up", op.k) => InRange("reload undo", op.k)
      BY DEF InRange
    <3> QED
      BY <2>1, <2>2, <2>4, <3>1 DEF OpInv
  <2> QED
    BY <2>1, <2>3, <2>4 DEF Rising
<1>8. CASE StepDown
  <2>1. UNCHANGED <<drvdata, bus, reload>> /\ Falling
    BY <1>8 DEF StepDown
  <2>2. op'.name = op.name /\ op'.k = op.k - 1
    BY <1>8, OpSteps
  <2>3. ASSUME NEW k \in Nat, k > 0, NEW name, InRange(name, k) PROVE InRange(name, k - 1)
    <3>1. name # "none"
      <4>1. k # 0
        BY <2>3
      <4> QED
        BY <2>3, <4>1, Zenon DEF InRange
    <3>2. \A n \in {7, 8, 13, 14} : k <= n => k - 1 <= n
      OBVIOUS
    <3> QED
      BY <2>3, <3>1, <3>2 DEF InRange
  <2> QED
    BY <1>types, <2>1, <2>2, <2>3 DEF Falling, OpInv
<1>9. CASE ReloadUp
  <2>1. /\ UNCHANGED <<drvdata, bus, reload>> /\ op.name = "reload down"
        /\ op'.name \in {"reload undo", "reload up"} /\ op'.k = 0
    BY <1>9, OpSteps DEF ReloadUp
  <2>2. InRange("reload undo", 0) /\ InRange("reload up", 0)
    BY DEF InRange
  <2> QED
    BY <2>1, <2>2 DEF OpInv
<1>10. CASE RemoveUnbound
  BY <1>10 DEF RemoveUnbound, OpInv
<1>11. CASE SetReload
  BY <1>11 DEF SetReload, TypeOK, Records, OpInv
<1>12. ASSUME NEW n \in VfCounts, ConfigureVfs(n) PROVE OpInv'
  <2>1. bus'.registered = bus.registered
    BY <1>12 DEF ConfigureVfs, TypeOK, Records
  <2> QED
    BY <1>12, <2>1 DEF ConfigureVfs, OpInv
<1>13. CASE MaxVfsWrite
  <2>1. bus'.registered = bus.registered
    BY <1>13 DEF MaxVfsWrite, TypeOK, Records
  <2> QED
    BY <1>13, <2>1 DEF MaxVfsWrite, OpInv
<1>14. CASE UNCHANGED <<bus, op, drvdata, reload>>
  BY <1>14 DEF OpInv
<1> QED
  BY <1>1, <1>2, <1>3, <1>4, <1>5, <1>6, <1>7, <1>8, <1>9, <1>10, <1>11, <1>12, <1>13, <1>14
     DEF Next, OpStep, WorkStep, WorkStart, WorkTryLock, WorkReport, WorkRequeue, WorkMoves,
         NewPort, DelPort, MaxVfsBegin, EswitchModeSet, vars

-----------------------------------------------------------------------------
(* The work and the parts. *)

\* Every step keeps the trap work within the life of the trap data.
LEMMA WorkInvStep ==
  ASSUME TypeOK, OpInv, WorkFollowsTraps, [Next]_vars
  PROVE  WorkFollowsTraps'
<1> USE DEF WorkFollowsTraps
<1>1. CASE UNCHANGED <<op, parts>> /\ (UNCHANGED work \/ WorkStep)
  <2>1. Canceling' = Canceling
    BY <1>1 DEF Canceling, Falling, Plan
  <2> QED
    BY <1>1, <2>1 DEF WorkStep, WorkStart, WorkTryLock, WorkReport, WorkRequeue, WorkMoves
<1>2. CASE UNCHANGED <<parts, work>> /\ ~Canceling
  BY <1>2
<1>3. CASE StepUp
  <2>1. ~Canceling
    BY <1>3 DEF StepUp, Rising, Canceling, Falling
  <2> QED
    BY <1>3, <2>1 DEF StepUp, PartUp
<1>4. CASE StepFail
  BY <1>2, <1>4 DEF StepFail, Rising, Canceling, Falling
<1>5. CASE StepDown
  <2>1. CASE Plan[op.k] = "traps"
    BY <1>5, <2>1 DEF StepDown, PartDown, MayGo
  <2>2. CASE Plan[op.k] # "traps"
    BY <1>5, <2>2 DEF StepDown, PartDown, Canceling
  <2> QED
    BY <2>1, <2>2
<1>6. CASE op = Idle \/ op.k = 0 \/ op.name = "probe" \/ op.name = "reload up"
  <2>1. ~Falling
    <3>1. CASE op = Idle
      BY <3>1 DEF Falling, Idle
    <3>2. CASE op.k = 0
      BY <3>2 DEF Falling
    <3>3. CASE op.name = "probe" \/ op.name = "reload up"
      BY <3>3 DEF Falling
    <3> QED
      BY <1>6, <3>1, <3>2, <3>3
  <2>2. ~Canceling
    BY <2>1 DEF Canceling
  <2> QED
    BY <1>1, <1>2, <1>3, <1>4, <1>5, <2>2 DEF Next, OpStep, WorkStep, WorkStart, WorkTryLock,
         WorkReport, WorkRequeue, WorkMoves,
         NewPort, DelPort, MaxVfsBegin, EswitchModeSet, vars, ProbeBegin, RemoveBegin,
         RemoveUnbound, ReloadBegin, SetReload, ProbeEnd, RemoveEnd,
         ReloadUp, ReloadEnd, ConfigureVfs, MaxVfsWrite
<1>7. CASE ProbeBegin
  <2>1. op = Idle
    BY <1>7, OpEnds DEF ProbeBegin, OpInv, InRange, TypeOK, Records, OpNames
  <2> QED
    BY <1>6, <2>1
<1>8. CASE RemoveBegin \/ ReloadBegin \/ RemoveUnbound
  BY <1>6, <1>8 DEF RemoveBegin, ReloadBegin, RemoveUnbound, LockFree
<1>9. CASE ProbeEnd \/ RemoveEnd \/ ReloadUp \/ ReloadEnd
  BY <1>6, <1>9 DEF ProbeEnd, RemoveEnd, ReloadUp, ReloadEnd
<1> QED
  BY <1>1, <1>3, <1>4, <1>5, <1>7, <1>8, <1>9 DEF Next, OpStep, WorkStep, WorkStart, WorkTryLock,
     WorkReport, WorkRequeue, WorkMoves, NewPort, DelPort, MaxVfsBegin, EswitchModeSet, vars,
     SetReload, ConfigureVfs, MaxVfsWrite

\* No part at all, and every part of the removal.
LEMMA FirstEnds ==
  ASSUME NEW s
  PROVE  First(s, 0) = {} /\ First(AllParts, 14) = First(AllParts, 13) \cup {"dpll"}
<1>1. First(s, 0) = {}
  BY DEF First
<1>2. 13 \in 0..13 /\ 13 + 1 = 14
  OBVIOUS
<1>3. First(AllParts, 13 + 1) = First(AllParts, 13) \cup {AllParts[13 + 1]}
  BY <1>2, FirstStep, PlansDistinct
<1> QED
  BY <1>1, <1>2, <1>3, AllElements

\* No part is set up or torn down twice.
LEMMA PartsStep ==
  ASSUME TypeOK, OpInv, PartsInv, [Next]_vars
  PROVE  PartsInv'
<1>types. op.k \in Nat /\ op.name \in OpNames /\ drvdata \in BOOLEAN /\ reload.failed \in BOOLEAN
  BY DEF TypeOK, Records
<1>1. ASSUME Have' = Have, UNCHANGED parts PROVE PartsInv'
  BY <1>1 DEF PartsInv
<1>2. CASE StepUp
  <2> DEFINE part == Plan[op.k + 1]
  <2>1. Have' = Have \cup {part}
    BY <1>2, UpPart DEF StepUp
  <2>2. /\ parts \subseteq parts' /\ parts' \subseteq parts \cup {part}
        /\ part # "dpll" => part \in parts'
    BY <1>2 DEF StepUp, PartUp
  <2> HIDE DEF part
  <2> QED
    BY <2>1, <2>2 DEF PartsInv
<1>3. CASE StepDown
  <2> DEFINE part == Plan[op.k]
  <2>1. Have' = Have \ {part}
    BY <1>3, DownPart DEF StepDown
  <2>2. parts' = parts \ {part}
    BY <1>3 DEF StepDown, PartDown
  <2> HIDE DEF part
  <2> QED
    BY <2>1, <2>2 DEF PartsInv
<1>4. CASE StepFail
  <2>1. /\ \/ op.name = "probe" /\ op'.name = "probe undo"
           \/ op.name = "reload up" /\ op'.name = "reload undo"
        /\ op'.k = op.k
    BY <1>4, OpSteps DEF StepFail, Rising
  <2>2. Have' = Have
    BY <2>1 DEF Have
  <2> QED
    BY <1>1, <1>4, <2>2 DEF StepFail
<1>5. CASE ProbeBegin
  <2>1. ~drvdata /\ op.name = "none"
    BY <1>types, <1>5 DEF ProbeBegin, OpInv
  <2>2. op'.name = "probe" /\ op'.k = 0
    BY <1>5, OpEnds
  <2>3. Have = {}
    BY <2>1 DEF Have
  <2>4. Have' = First(ProbeParts, 0)
    BY <2>2 DEF Have
  <2> QED
    BY <1>1, <1>5, <2>3, <2>4, FirstEnds DEF ProbeBegin
<1>6. CASE ProbeEnd
  <2>1. op'.name = "none" /\ UNCHANGED <<parts, reload>>
    BY <1>6, OpEnds DEF ProbeEnd
  <2>2. CASE op.name = "probe"
    <3>1. op.k = 14 /\ drvdata' = drvdata /\ drvdata /\ ~reload.failed
      BY <1>6, <2>2, PlanParts DEF ProbeEnd, OpInv
    <3>2. Have = First(ProbeParts, 14)
      BY <2>2, <3>1 DEF Have
    <3>3. Have' = First(AllParts, 14)
      BY <2>1, <3>1 DEF Have
    <3> QED
      BY <1>1, <2>1, <3>2, <3>3, PlansDistinct
  <2>3. CASE op.name = "probe undo"
    <3>1. op.k = 0 /\ ~drvdata'
      BY <1>6, <2>3 DEF ProbeEnd
    <3>2. Have = First(ProbeParts, 0)
      BY <2>3, <3>1 DEF Have
    <3>3. Have' = {}
      BY <2>1, <3>1 DEF Have
    <3> QED
      BY <1>1, <2>1, <3>2, <3>3, FirstEnds
  <2> QED
    BY <1>6, <2>2, <2>3 DEF ProbeEnd
<1>7. CASE RemoveBegin \/ ReloadBegin
  <2>1. op.name = "none" /\ drvdata /\ drvdata' = drvdata /\ UNCHANGED <<parts, reload>>
    BY <1>7, OpEnds DEF RemoveBegin, ReloadBegin, LockFree
  <2>2. Have = First(AllParts, IF reload.failed THEN 6 ELSE 14)
    BY <1>types, <2>1 DEF Have
  <2>3. Have' = First(AllParts, IF reload.failed THEN 6 ELSE 14)
    <3>1. CASE RemoveBegin
      BY <3>1, OpEnds DEF Have
    <3>2. CASE ReloadBegin
      <4>1. op'.name = "reload down" /\ op'.k = IF reload.failed THEN 0 ELSE 8
        BY <3>2, OpEnds
      <4>2. op'.k + 6 = IF reload.failed THEN 6 ELSE 14
        <5>1. 0 + 6 = 6 /\ 8 + 6 = 14
          OBVIOUS
        <5> QED
          BY <4>1, <5>1, Zenon
      <4>3. Have' = First(AllParts, op'.k + 6)
        BY <4>1 DEF Have
      <4> QED
        BY <4>2, <4>3
    <3> QED
      BY <1>7, <3>1, <3>2
  <2> QED
    BY <1>1, <2>1, <2>2, <2>3
<1>8. CASE RemoveEnd
  <2>1. op.name = "remove" /\ op.k = 0 /\ op'.name = "none" /\ ~drvdata' /\ UNCHANGED parts
    BY <1>8, OpEnds DEF RemoveEnd
  <2>2. Have = First(AllParts, 0)
    BY <2>1 DEF Have
  <2>3. Have' = {}
    BY <2>1 DEF Have
  <2> QED
    BY <1>1, <2>1, <2>2, <2>3, FirstEnds
<1>9. CASE ReloadUp
  <2>1. op.name = "reload down" /\ op.k = 0 /\ UNCHANGED parts
        /\ op'.name \in {"reload undo", "reload up"} /\ op'.k = 0
    BY <1>9, OpSteps DEF ReloadUp
  <2>2. Have' = Have
    BY <2>1 DEF Have
  <2> QED
    BY <1>1, <2>1, <2>2
<1>10. CASE ReloadEnd
  <2>1. op'.name = "none" /\ UNCHANGED <<parts, drvdata>> /\ drvdata
    BY <1>types, <1>10, OpEnds DEF ReloadEnd, OpInv
  <2>2. CASE op.name = "reload up"
    <3>1. op.k = 7 /\ ~reload'.failed
      BY <1>10, <2>2, PlanParts DEF ReloadEnd, TypeOK, Records
    <3>2. Have = First(AllParts, 13)
      <4>1. Have = First(AllParts, op.k + 6)
        BY <2>2 DEF Have
      <4>2. op.k + 6 = 13
        BY <3>1
      <4> QED
        BY <4>1, <4>2
    <3>3. Have' = First(AllParts, 14)
      BY <2>1, <3>1 DEF Have
    <3> QED
      BY <2>1, <3>2, <3>3, FirstEnds DEF PartsInv
  <2>3. CASE op.name = "reload undo"
    <3>1. op.k = 0 /\ reload'.failed
      BY <1>10, <2>3 DEF ReloadEnd, TypeOK, Records
    <3>2. Have = First(AllParts, 6)
      <4>1. Have = First(AllParts, op.k + 6)
        BY <2>3 DEF Have
      <4>2. op.k + 6 = 6
        BY <3>1
      <4> QED
        BY <4>1, <4>2
    <3>3. Have' = First(AllParts, 6)
      BY <2>1, <3>1 DEF Have
    <3> QED
      BY <1>1, <2>1, <3>2, <3>3
  <2> QED
    BY <1>10, <2>2, <2>3 DEF ReloadEnd
<1>11. CASE UNCHANGED <<op, drvdata, parts>> /\ reload'.failed = reload.failed
  <2>1. Have' = Have
    BY <1>11 DEF Have
  <2> QED
    BY <1>1, <1>11, <2>1
<1>12. CASE SetReload
  <2>1. reload'.failed = reload.failed
    BY <1>12 DEF SetReload, TypeOK, Records
  <2> QED
    BY <1>11, <1>12, <2>1 DEF SetReload
<1> QED
  BY <1>2, <1>3, <1>4, <1>5, <1>6, <1>7, <1>8, <1>9, <1>10, <1>11, <1>12
     DEF Next, OpStep, WorkStep, WorkStart, WorkTryLock, WorkReport, WorkRequeue, WorkMoves,
         NewPort, DelPort, MaxVfsBegin, EswitchModeSet, vars, ConfigureVfs, MaxVfsWrite,
         RemoveUnbound

-----------------------------------------------------------------------------
(* Ports and pins. *)

\* What a port is made of.
LEMMA PortShape ==
  /\ \A i \in Nat : i < VfBase => PortOK(Pf(i)) /\ ~Pf(i).vf
  /\ \A i \in Nat : PortOK(Vf(i)) /\ Vf(i).vf
  /\ \A i, j \in Nat : /\ Pf(i).index = Pf(j).index => i = j
                       /\ Vf(i).index = Vf(j).index => i = j
  /\ VfSet(0) = {}
<1>1. ASSUME NEW i \in Nat, i < VfBase PROVE PortOK(Pf(i)) /\ ~Pf(i).vf
  BY <1>1 DEF PortOK, Pf
<1>2. ASSUME NEW i \in Nat PROVE PortOK(Vf(i)) /\ Vf(i).vf
  <2>1. VfBase + i \in Nat /\ VfBase + i >= VfBase
    OBVIOUS
  <2> QED
    BY <2>1 DEF PortOK, Vf
<1>3. ASSUME NEW i \in Nat, NEW j \in Nat
      PROVE  /\ Pf(i).index = Pf(j).index => i = j
             /\ Vf(i).index = Vf(j).index => i = j
  BY DEF Pf, Vf
<1>4. VfSet(0) = {}
  BY DEF VfSet
<1> QED
  BY <1>1, <1>2, <1>3, <1>4

\* Ports with new indices are added to the list and to devlink.
LEMMA AddKnown ==
  ASSUME PortsKnown, NEW ps, \A p \in ps : PortOK(p),
         \A p, q \in ps : p.index = q.index => p = q,
         IndicesOf(ps) \cap devlink = {}, AddPorts(ps)
  PROVE  PortsKnown' /\ ports' = ports \cup ps
<1>1. ports' = ports \cup ps /\ devlink' = devlink \cup IndicesOf(ps)
  BY DEF AddPorts
<1>2. \A p \in ps, q \in ports : p.index # q.index
  BY DEF PortsKnown, IndicesOf
<1> QED
  BY <1>1, <1>2 DEF PortsKnown, IndicesOf

\* Ports are taken off the list and off devlink.
LEMMA DelKnown ==
  ASSUME PortsKnown, NEW ps, ps \subseteq ports, DelPorts(ps)
  PROVE  PortsKnown' /\ ports' = ports \ ps
<1>1. ports' = ports \ ps /\ devlink' = devlink \ IndicesOf(ps)
  BY DEF DelPorts
<1>2. \A p \in ports \ ps, q \in ps : p.index # q.index
  BY DEF PortsKnown
<1>3. devlink' = IndicesOf(ports')
  BY <1>1, <1>2 DEF PortsKnown, IndicesOf
<1> QED
  BY <1>1, <1>3 DEF PortsKnown

\* The ports nsim_dev_port_add_all and the VFs bring.
LEMMA NewPorts ==
  ASSUME PlainUse, NEW n \in Nat
  PROVE  /\ \A p \in FirstPorts : PortOK(p) /\ ~p.vf
         /\ \A p, q \in FirstPorts : p.index = q.index => p = q
         /\ \A p \in VfSet(n) : PortOK(p) /\ p.vf
         /\ \A p, q \in VfSet(n) : p.index = q.index => p = q
<1>1. \A i \in 0..PortCount - 1 : i \in Nat /\ i < VfBase
  BY DEF PlainUse
<1>2. \A i \in 0..n - 1 : i \in Nat
  OBVIOUS
<1>3. \A p \in FirstPorts : \E i \in Nat : i < VfBase /\ p = Pf(i)
  BY <1>1 DEF FirstPorts
<1>4. \A p \in VfSet(n) : \E i \in Nat : p = Vf(i)
  BY <1>2 DEF VfSet
<1>5. \A p \in FirstPorts : PortOK(p) /\ ~p.vf
  BY <1>3, PortShape
<1>6. \A p, q \in FirstPorts : p.index = q.index => p = q
  BY <1>3, PortShape
<1>7. \A p \in VfSet(n) : PortOK(p) /\ p.vf
  BY <1>4, PortShape
<1>8. \A p, q \in VfSet(n) : p.index = q.index => p = q
  BY <1>4, PortShape
<1> QED
  BY <1>5, <1>6, <1>7, <1>8

\* Where the parts "ports" and "dpll" are.
LEMMA PortParts ==
  /\ "ports" \notin First(AllParts, 6) /\ "dpll" \notin First(AllParts, 6)
  /\ "ports" \in First(AllParts, 14)
<1>1. \A j \in 1..6 : j \in 1..14 /\ j # 13 /\ j # 14
  OBVIOUS
<1>2. 13 \in 1..14 /\ 14 \in 1..14
  OBVIOUS
<1> QED
  BY <1>1, <1>2, AllElements, PlansDistinct DEF First

\* A device that is not there, or whose reload has failed or is about to create
\* the parts anew, has no ports and no pins; one that is in use may have ports.
LEMMA NoPorts ==
  ASSUME TypeOK, OpInv, PartsInv, PortsInv, PinsInv
  PROVE  /\ (\/ op.name = "none" /\ ~drvdata
             \/ op.name = "none" /\ drvdata /\ reload.failed
             \/ op.k = 0 /\ op.name \in {"reload down", "remove", "probe undo"}) =>
               ports = {} /\ devlink = {} /\ pins = {}
         /\ op.name = "none" /\ drvdata /\ ~reload.failed => "ports" \in parts
<1>1. ASSUME "ports" \notin Have PROVE ports = {} /\ devlink = {} /\ pins = {}
  <2>1. "ports" \notin parts
    BY <1>1 DEF PartsInv
  <2>2. ports = {}
    BY <2>1 DEF PortsInv
  <2> QED
    BY <2>2 DEF PortsInv, PortsKnown, PinsInv, IndicesOf
<1>2. CASE op.name = "none" /\ ~drvdata
  <2>1. Have = {}
    BY <1>2 DEF Have
  <2> QED
    BY <1>1, <1>2, <2>1
<1>3. CASE op.name = "none" /\ drvdata /\ reload.failed
  <2>1. Have = First(AllParts, 6)
    BY <1>3 DEF Have
  <2> QED
    BY <1>1, <1>3, <2>1, PortParts
<1>4. CASE op.k = 0 /\ op.name \in {"reload down", "remove", "probe undo"}
  <2>1. Have \in {First(ProbeParts, 0), First(AllParts, 0), First(AllParts, 0 + 6)}
    BY <1>4 DEF Have
  <2>2. 0 + 6 = 6 /\ First(ProbeParts, 0) = {} /\ First(AllParts, 0) = {}
    BY FirstEnds
  <2>3. "ports" \notin Have
    BY <2>1, <2>2, PortParts
  <2> QED
    BY <1>1, <1>4, <2>3
<1>5. ASSUME op.name = "none", drvdata, ~reload.failed PROVE "ports" \in parts
  <2>1. Have = First(AllParts, 14)
    BY <1>5 DEF Have
  <2> QED
    BY <2>1, PortParts DEF PartsInv
<1> QED
  BY <1>2, <1>3, <1>4, <1>5

\* What setting a part up and tearing one down does to the ports and the pins.
LEMMA PortsUp ==
  ASSUME PlainUse, TypeOK, OpInv, PartsInv, PortsInv, VfInv, PinsInv, StepUp
  PROVE  PortsInv' /\ VfInv' /\ PinsInv'
<1> DEFINE part == Plan[op.k + 1]
<1>1. part \notin parts
  BY UpPart DEF StepUp, PartsInv
<1>2. op'.name = op.name /\ UNCHANGED <<bus, drvdata, esw, reload>> /\ PartUp(part)
  BY OpSteps DEF StepUp
<1> HIDE DEF part
<1>3. CASE part = "ports"
  <2>1. ports = {} /\ pins = {}
    BY <1>1, <1>3 DEF PortsInv, PinsInv
  <2>2. AddPorts(FirstPorts) /\ MayAdd(FirstPorts) /\ pins' = pins /\ parts' = parts \cup {"ports"}
    BY <1>2, <1>3 DEF PartUp
  <2>3. PortsKnown' /\ ports' = FirstPorts
    BY <2>1, <2>2, AddKnown, NewPorts DEF MayAdd, PortsInv
  <2>4. VfPorts = {} /\ VfPorts' = {}
    BY <2>1, <2>3, NewPorts DEF VfPorts
  <2> QED
    BY <1>2, <2>1, <2>2, <2>3, <2>4 DEF PortsInv, VfInv, PinsInv
<1>4. CASE part # "ports"
  <2>1. UNCHANGED <<ports, devlink>> /\ parts \subseteq parts'
    BY <1>2, <1>4 DEF PartUp
  <2>2. /\ pins' = pins \/ (pins' = {p \in ports : ~p.vf} /\ "dpll" \in parts')
    BY <1>2 DEF PartUp
  <2>3. VfPorts' = VfPorts /\ PortsKnown'
    BY <2>1 DEF VfPorts, PortsInv, PortsKnown
  <2>4. PinsInv'
    BY <2>1, <2>2 DEF PinsInv
  <2> QED
    BY <1>2, <2>1, <2>3, <2>4 DEF PortsInv, VfInv
<1> QED
  BY <1>3, <1>4

\* Taking down a part: the ports go with theirs, after the DPLL pins that name them.
LEMMA PortsDown ==
  ASSUME TypeOK, OpInv, PartsInv, PortsInv, VfInv, PinsInv, StepDown
  PROVE  PortsInv' /\ VfInv' /\ PinsInv'
<1> DEFINE part == Plan[op.k]
<1>1. part = "ports" => "dpll" \notin parts
  BY DownPart DEF StepDown, PartsInv
<1>2. /\ op'.name = op.name /\ op.name # "none" /\ UNCHANGED <<bus, drvdata, esw, reload>>
      /\ PartDown(part)
  BY OpSteps DEF StepDown, Falling
<1> HIDE DEF part
<1>3. parts' = parts \ {part}
  BY <1>2 DEF PartDown
<1>4. CASE part = "ports"
  <2>1. pins = {} /\ pins' = {}
    BY <1>1, <1>2, <1>4 DEF PinsInv, PartDown
  <2>2. DelPorts(ports)
    BY <1>2, <1>4 DEF PartDown
  <2>3. PortsKnown' /\ ports' = {}
    BY <2>2, DelKnown DEF PortsInv
  <2>4. VfPorts' = {}
    BY <2>3 DEF VfPorts
  <2>5. (IF esw = "switchdev" THEN VfSet(bus.numVfs) ELSE {}) = {}
    BY <1>2, PortShape DEF VfInv
  <2> QED
    BY <1>2, <2>1, <2>3, <2>4, <2>5 DEF PortsInv, VfInv, PinsInv
<1>5. CASE part # "ports"
  <2>1. UNCHANGED <<ports, devlink>> /\ pins' \subseteq pins /\ (part = "dpll" => pins' = {})
    BY <1>2, <1>5 DEF PartDown
  <2>2. VfPorts' = VfPorts /\ PortsKnown'
    BY <2>1 DEF VfPorts, PortsInv, PortsKnown
  <2>3. PinsInv'
    BY <1>3, <2>1 DEF PinsInv
  <2>4. PortsInv'
    BY <1>3, <1>5, <2>1, <2>2 DEF PortsInv
  <2> QED
    BY <1>2, <2>2, <2>3, <2>4 DEF VfInv
<1> QED
  BY <1>4, <1>5

\* A removal or a reload begins: the VF ports go.
LEMMA PortsBegin ==
  ASSUME TypeOK, OpInv, PartsInv, PortsInv, VfInv, PinsInv, RemoveBegin \/ ReloadBegin
  PROVE  PortsInv' /\ VfInv' /\ PinsInv'
<1>1. /\ op.name = "none" /\ drvdata /\ UNCHANGED <<drvdata, parts, pins, reload>>
      /\ op'.name \in {"remove", "reload down"}
  BY OpEnds DEF RemoveBegin, ReloadBegin, LockFree
<1>2. CASE reload.failed
  <2>1. UNCHANGED <<bus, ports, devlink, esw>>
    BY <1>2 DEF RemoveBegin, ReloadBegin
  <2>2. VfPorts' = VfPorts /\ PortsKnown'
    BY <2>1 DEF VfPorts, PortsInv, PortsKnown
  <2> QED
    BY <1>1, <1>2, <2>1, <2>2 DEF PortsInv, VfInv, PinsInv
<1>3. CASE ~reload.failed
  <2>1. DropVfs
    BY <1>3 DEF RemoveBegin, ReloadBegin
  <2>2. bus'.numVfs = 0 /\ bus.numVfs \in Nat
    BY <2>1 DEF DropVfs, TypeOK, Records
  <2>3. CASE bus.numVfs > 0 /\ esw = "switchdev"
    <3>1. DelPorts(VfPorts) /\ esw' = "legacy"
      BY <2>1, <2>3 DEF DropVfs
    <3>2. PortsKnown' /\ ports' = ports \ VfPorts
      BY <3>1, DelKnown DEF PortsInv, VfPorts
    <3>3. VfPorts' = {}
      BY <3>2 DEF VfPorts
    <3>4. PinsInv'
      BY <1>1, <3>2 DEF PinsInv, VfPorts
    <3> QED
      BY <1>1, <2>2, <3>1, <3>2, <3>3, <3>4 DEF PortsInv, VfInv
  <2>4. CASE ~(bus.numVfs > 0 /\ esw = "switchdev")
    <3>1. UNCHANGED <<ports, devlink, esw>>
      BY <2>1, <2>4 DEF DropVfs
    <3>2. VfPorts' = VfPorts /\ PortsKnown'
      BY <3>1 DEF VfPorts, PortsInv, PortsKnown
    <3>3. bus.numVfs = 0 \/ esw # "switchdev"
      BY <2>2, <2>4
    <3>4. VfPorts = {}
      BY <3>3, PortShape DEF VfInv
    <3> QED
      BY <1>1, <2>2, <3>1, <3>2, <3>4, PortShape DEF PortsInv, VfInv, PinsInv
  <2> QED
    BY <2>3, <2>4
<1> QED
  BY <1>2, <1>3

\* new_port and del_port.
LEMMA PortsSysfs ==
  ASSUME PlainUse, TypeOK, OpInv, PartsInv, PortsInv, VfInv, PinsInv,
         NEW i \in PfIndices, NewPort(i) \/ DelPort(i)
  PROVE  PortsInv' /\ VfInv' /\ PinsInv'
<1>1. /\ op = Idle /\ op.name = "none" /\ drvdata
      /\ UNCHANGED <<bus, drvdata, op, parts, pins, esw, reload>>
  BY OpEnds DEF NewPort, DelPort, LockFree
<1>2. i \in Nat /\ i < VfBase
  BY DEF PlainUse
<1>3. CASE NewPort(i)
  <2>1. AddPorts({Pf(i)}) /\ IndicesOf({Pf(i)}) \cap devlink = {} /\ ~reload.failed
    BY <1>1, <1>3 DEF NewPort, MayAdd, PlainUse
  <2>2. PortsKnown' /\ ports' = ports \cup {Pf(i)}
    BY <1>2, <2>1, AddKnown, PortShape DEF PortsInv
  <2>3. VfPorts' = VfPorts
    BY <1>2, <2>2, PortShape DEF VfPorts
  <2>4. "ports" \in parts
    BY <1>1, <2>1, NoPorts
  <2> QED
    BY <1>1, <2>2, <2>3, <2>4 DEF PortsInv, VfInv, PinsInv
<1>4. CASE DelPort(i)
  <2> DEFINE ps == {p \in ports : p.index = i}
  <2>1. DelPorts(ps) /\ i \notin IndicesOf(pins)
    BY <1>4 DEF DelPort, PlainUse
  <2>2. PortsKnown' /\ ports' = ports \ ps
    BY <2>1, DelKnown DEF PortsInv
  <2>3. \A p \in ps : ~p.vf
    BY <1>2 DEF PortsInv, PortsKnown, PortOK
  <2>4. VfPorts' = VfPorts
    BY <2>2, <2>3 DEF VfPorts
  <2>5. PinsInv'
    BY <1>1, <2>1, <2>2 DEF PinsInv, IndicesOf
  <2> QED
    BY <1>1, <2>2, <2>4, <2>5 DEF PortsInv, VfInv
<1> QED
  BY <1>3, <1>4

\* sriov_numvfs and the eswitch mode: the VF ports come and go with the VFs.
LEMMA PortsVfs ==
  ASSUME PlainUse, TypeOK, OpInv, PartsInv, PortsInv, VfInv, PinsInv,
         \/ \E n \in VfCounts : ConfigureVfs(n)
         \/ EswitchModeSet
  PROVE  PortsInv' /\ VfInv' /\ PinsInv'
<1>1. /\ op = Idle /\ op.name = "none" /\ drvdata
      /\ UNCHANGED <<drvdata, op, parts, pins, reload>>
  BY OpEnds DEF ConfigureVfs, EswitchModeSet, LockFree
<1>2. bus.numVfs \in Nat /\ esw \in {"legacy", "switchdev"}
  BY DEF TypeOK, Records
<1>3. ASSUME NEW n \in Nat, AddVfPorts(n), VfPorts = {}, bus'.numVfs = n, esw' = "switchdev"
      PROVE  PortsInv' /\ VfInv' /\ PinsInv'
  <2>1. AddPorts(VfSet(n)) /\ IndicesOf(VfSet(n)) \cap devlink = {} /\ ~reload.failed
    BY <1>1, <1>3 DEF AddVfPorts, MayAdd, PlainUse, VfSet
  <2>2. PortsKnown' /\ ports' = ports \cup VfSet(n)
    BY <2>1, AddKnown, NewPorts DEF PortsInv
  <2>3. VfPorts' = VfSet(n)
    BY <1>3, <2>2, NewPorts DEF VfPorts
  <2>4. "ports" \in parts
    BY <1>1, <2>1, NoPorts
  <2>5. VfInv'
    BY <1>1, <1>3, <2>1, <2>3 DEF VfInv
  <2> QED
    BY <1>1, <2>2, <2>4, <2>5 DEF PortsInv, PinsInv
<1>4. ASSUME DelPorts(VfPorts), esw' = "legacy"
      PROVE  PortsInv' /\ VfInv' /\ PinsInv'
  <2>1. PortsKnown' /\ ports' = ports \ VfPorts
    BY <1>4, DelKnown DEF PortsInv, VfPorts
  <2>2. VfPorts' = {}
    BY <2>1 DEF VfPorts
  <2>3. PinsInv'
    BY <1>1, <2>1 DEF PinsInv, VfPorts
  <2> QED
    BY <1>1, <1>4, <2>1, <2>2, <2>3 DEF PortsInv, VfInv
<1>5. ASSUME UNCHANGED <<ports, devlink, esw>>, esw = "legacy"
      PROVE  PortsInv' /\ VfInv' /\ PinsInv'
  <2>1. VfPorts' = VfPorts /\ PortsKnown'
    BY <1>5 DEF VfPorts, PortsInv, PortsKnown
  <2> QED
    BY <1>1, <1>5, <2>1 DEF PortsInv, VfInv, PinsInv
<1>6. ASSUME NEW n \in VfCounts, ConfigureVfs(n)
      PROVE  PortsInv' /\ VfInv' /\ PinsInv'
  <2>1. n \in Nat /\ (bus.numVfs = 0 \/ n = 0) /\ bus'.numVfs = n
    BY <1>6 DEF ConfigureVfs, TypeOK, Records
  <2>2. CASE esw = "switchdev" /\ n > 0
    <3>1. AddVfPorts(n) /\ esw' = "switchdev"
      BY <1>6, <2>2 DEF ConfigureVfs
    <3>2. bus.numVfs = 0
      BY <2>1, <2>2
    <3>3. VfPorts = {}
      BY <2>2, <3>2, PortShape DEF VfInv
    <3> QED
      BY <1>3, <2>1, <3>1, <3>3
  <2>3. CASE esw = "switchdev" /\ n = 0
    <3>1. ~(esw = "switchdev" /\ n > 0)
      BY <2>3
    <3>2. DelPorts(VfPorts) /\ esw' = "legacy"
      BY <1>6, <2>3, <3>1 DEF ConfigureVfs
    <3> QED
      BY <1>4, <3>2
  <2>4. CASE esw = "legacy"
    BY <1>5, <1>6, <2>4 DEF ConfigureVfs
  <2> QED
    BY <1>2, <2>1, <2>2, <2>3, <2>4
<1>7. CASE EswitchModeSet
  <2>1. bus' = bus
    BY <1>7 DEF EswitchModeSet
  <2>2. CASE esw = "legacy"
    <3>1. \/ AddVfPorts(bus.numVfs) /\ esw' = "switchdev"
          \/ DelPorts(VfPorts) /\ esw' = "legacy"
      BY <1>7, <2>2 DEF EswitchModeSet
    <3>2. VfPorts = {}
      BY <2>2 DEF VfInv
    <3> QED
      BY <1>2, <1>3, <1>4, <2>1, <3>1, <3>2
  <2>3. CASE esw # "legacy"
    BY <1>4, <1>7, <2>3 DEF EswitchModeSet
  <2> QED
    BY <2>2, <2>3
<1> QED
  BY <1>6, <1>7

\* Every step keeps the ports as they should be.
LEMMA PortsStep ==
  ASSUME PlainUse, TypeOK, OpInv, PartsInv, PortsInv, VfInv, PinsInv, [Next]_vars
  PROVE  PortsInv' /\ VfInv' /\ PinsInv'
<1>1. ASSUME UNCHANGED <<parts, ports, devlink, pins>>
      PROVE  PortsInv' /\ PinsInv' /\ VfPorts' = VfPorts
  BY <1>1 DEF PortsInv, PortsKnown, PinsInv, VfPorts
<1>2. ASSUME ports = {}, ports' = {}, devlink' = {}, pins' = {}, bus'.numVfs = 0 \/ esw' = "legacy",
             op'.name \in {"probe", "probe undo"} => bus'.numVfs = 0
      PROVE  PortsInv' /\ VfInv' /\ PinsInv'
  <2>1. VfPorts' = {} /\ PortsKnown' /\ IndicesOf(ports') = {}
    BY <1>2 DEF VfPorts, PortsKnown, IndicesOf
  <2>2. (IF esw' = "switchdev" THEN VfSet(bus'.numVfs) ELSE {}) = {}
    BY <1>2, PortShape
  <2>3. VfSet(bus'.numVfs) = VfSet(bus.numVfs)'
    BY DEF VfSet, Vf
  <2> QED
    BY <1>2, <2>1, <2>2, <2>3 DEF PortsInv, VfInv, PinsInv
<1>3. CASE ProbeBegin
  <2>1. op.name = "none" /\ ~drvdata
    BY <1>3 DEF ProbeBegin, OpInv
  <2>2. bus'.numVfs = 0
    BY <1>3 DEF ProbeBegin, NoBus
  <2>3. ports = {} /\ devlink = {} /\ pins = {}
    BY <2>1, NoPorts
  <2> QED
    BY <1>2, <1>3, <2>2, <2>3 DEF ProbeBegin
<1>4. CASE ProbeEnd
  <2>1. bus'.numVfs = bus.numVfs
    BY <1>4 DEF ProbeEnd, TypeOK, Records
  <2>2. op'.name = "none" /\ UNCHANGED esw
    BY <1>4, OpEnds DEF ProbeEnd
  <2>3. bus.numVfs = 0
    BY <1>4 DEF ProbeEnd, VfInv
  <2>4. PortsInv' /\ PinsInv' /\ VfPorts' = VfPorts
    BY <1>1, <1>4 DEF ProbeEnd
  <2> QED
    BY <2>1, <2>2, <2>3, <2>4 DEF VfInv
<1>5. CASE RemoveEnd \/ RemoveUnbound
  <2>1. \/ op.k = 0 /\ op.name = "remove"
        \/ op.name = "none" /\ ~drvdata
    BY <1>5, OpEnds DEF RemoveEnd, RemoveUnbound
  <2>2. ports = {} /\ devlink = {} /\ pins = {}
    BY <2>1, NoPorts
  <2>3. bus'.numVfs = 0
    BY <1>5 DEF RemoveEnd, RemoveUnbound, NoBus
  <2> QED
    BY <1>2, <1>5, <2>2, <2>3 DEF RemoveEnd, RemoveUnbound
<1>6. CASE ReloadUp
  <2>1. op.k = 0 /\ op.name = "reload down" /\ UNCHANGED <<bus, esw, devlink, pins>>
        /\ op'.name \notin {"probe", "probe undo"}
    BY <1>6, OpSteps DEF ReloadUp
  <2>2. ports = {} /\ devlink = {} /\ pins = {}
    BY <2>1, NoPorts
  <2>3. ports' = {} /\ (bus.numVfs = 0 \/ esw = "legacy")
    BY <1>6, <2>1, <2>2 DEF ReloadUp, VfInv
  <2> QED
    BY <1>2, <2>1, <2>2, <2>3
<1>7. CASE ReloadEnd \/ StepFail
  <2>1. UNCHANGED <<bus, esw, drvdata, parts, ports, devlink, pins>> /\ op.name # "none"
    BY <1>7 DEF ReloadEnd, StepFail, Rising
  <2>2. op'.name \in {"probe", "probe undo"} => op.name \in {"probe", "probe undo"}
    BY <1>7, OpEnds, OpSteps
  <2>3. PortsInv' /\ PinsInv' /\ VfPorts' = VfPorts
    BY <1>1, <2>1
  <2> QED
    BY <2>1, <2>2, <2>3 DEF VfInv
<1>8. CASE /\ UNCHANGED <<esw, op, drvdata, parts, ports, devlink, pins>>
           /\ bus'.numVfs = bus.numVfs /\ reload'.failed = reload.failed
  <2>1. PortsInv' /\ PinsInv' /\ VfPorts' = VfPorts
    BY <1>1, <1>8
  <2> QED
    BY <1>8, <2>1 DEF VfInv
<1>9. CASE SetReload
  <2>1. reload'.failed = reload.failed
    BY <1>9 DEF SetReload, TypeOK, Records
  <2> QED
    BY <1>8, <1>9, <2>1 DEF SetReload
<1>10. CASE MaxVfsWrite
  <2>1. bus'.numVfs = bus.numVfs
    BY <1>10 DEF MaxVfsWrite, TypeOK, Records
  <2> QED
    BY <1>8, <1>10, <2>1 DEF MaxVfsWrite
<1>11. CASE RemoveBegin \/ ReloadBegin
  BY <1>11, PortsBegin
<1>12. CASE StepUp
  BY <1>12, PortsUp
<1>13. CASE StepDown
  BY <1>13, PortsDown
<1>14. ASSUME NEW i \in PfIndices, NewPort(i) \/ DelPort(i) PROVE PortsInv' /\ VfInv' /\ PinsInv'
  BY <1>14, PortsSysfs
<1>15. CASE EswitchModeSet \/ \E n \in VfCounts : ConfigureVfs(n)
  BY <1>15, PortsVfs
<1> QED
  BY <1>3, <1>4, <1>5, <1>6, <1>7, <1>8, <1>9, <1>10, <1>11, <1>12, <1>13, <1>14, <1>15
     DEF Next, OpStep, WorkStep, WorkStart, WorkTryLock, WorkReport, WorkRequeue, WorkMoves,
         MaxVfsBegin, vars

-----------------------------------------------------------------------------
(* The numbers of VFs. *)

\* Every step keeps the number of VFs within what is allocated for them.
LEMMA ConfigStep ==
  ASSUME PlainUse, TypeOK, OpInv, PartsInv, ConfigInv, [Next]_vars
  PROVE  ConfigInv'
<1>1. bus.numVfs \in Nat /\ bus.maxVfs \in Nat
  BY DEF TypeOK, Records
<1>2. CASE ProbeBegin
  <2>1. op.name = "none" /\ ~drvdata
    BY <1>2 DEF ProbeBegin, OpInv
  <2>2. parts = {}
    BY <2>1 DEF PartsInv, Have
  <2>3. bus'.numVfs = 0 /\ bus'.maxVfs = DefaultVfs
    BY <1>2 DEF ProbeBegin, NoBus
  <2>4. bus'.numVfs <= bus'.maxVfs
    BY <2>3
  <2> QED
    BY <1>2, <2>2, <2>4 DEF ProbeBegin, ConfigInv
<1>3. CASE RemoveEnd \/ RemoveUnbound
  <2>1. parts = {}
    <3>1. CASE RemoveEnd
      <4>1. Have = First(AllParts, 0)
        BY <3>1 DEF RemoveEnd, Have
      <4> QED
        BY <4>1, FirstEnds DEF PartsInv
    <3>2. CASE RemoveUnbound
      <4>1. Have = {}
        BY <3>2, OpEnds DEF RemoveUnbound, Have
      <4> QED
        BY <4>1 DEF PartsInv
    <3> QED
      BY <1>3, <3>1, <3>2
  <2>2. bus' = NoBus /\ UNCHANGED <<parts, writer>>
    BY <1>3 DEF RemoveEnd, RemoveUnbound
  <2>3. bus'.numVfs <= bus'.maxVfs
    BY <2>2 DEF NoBus
  <2> QED
    BY <2>1, <2>2, <2>3 DEF ConfigInv
<1>4. CASE ProbeEnd
  <2>1. bus'.numVfs = bus.numVfs /\ bus'.maxVfs = bus.maxVfs
    BY <1>4 DEF ProbeEnd, TypeOK, Records
  <2> QED
    BY <1>4, <2>1 DEF ProbeEnd, ConfigInv
<1>5. CASE RemoveBegin \/ ReloadBegin
  <2>1. bus'.numVfs \in {0, bus.numVfs} /\ bus'.maxVfs = bus.maxVfs
    BY <1>5 DEF RemoveBegin, ReloadBegin, DropVfs, TypeOK, Records
  <2>2. UNCHANGED <<parts, vfs, writer>>
    BY <1>5 DEF RemoveBegin, ReloadBegin
  <2>3. bus'.numVfs <= bus'.maxVfs
    BY <1>1, <2>1 DEF ConfigInv
  <2> QED
    BY <2>1, <2>2, <2>3 DEF ConfigInv
<1>6. CASE StepUp
  <2>1. UNCHANGED <<bus, writer>> /\ parts \subseteq parts'
    BY <1>6 DEF StepUp, PartUp
  <2>2. CASE Plan[op.k + 1] = "vfconfigs"
    BY <1>6, <2>1, <2>2 DEF StepUp, PartUp, ConfigInv
  <2>3. CASE Plan[op.k + 1] # "vfconfigs"
    BY <1>6, <2>1, <2>3 DEF StepUp, PartUp, ConfigInv
  <2> QED
    BY <2>2, <2>3
<1>7. CASE StepDown
  <2>1. UNCHANGED <<bus, writer>> /\ parts' = parts \ {Plan[op.k]} /\ MayGo(Plan[op.k])
    BY <1>7 DEF StepDown, PartDown
  <2>2. writer # -1 => Plan[op.k] # "debugfs"
    BY <2>1 DEF MayGo
  <2>3. Plan[op.k] # "vfconfigs" => vfs' = vfs
    BY <1>7 DEF StepDown, PartDown
  <2> QED
    BY <2>1, <2>2, <2>3 DEF ConfigInv
<1>8. ASSUME NEW n \in VfCounts, ConfigureVfs(n) PROVE ConfigInv'
  <2>1. bus'.numVfs = n /\ bus'.maxVfs = bus.maxVfs /\ n <= bus.maxVfs
    BY <1>8 DEF ConfigureVfs, TypeOK, Records
  <2> QED
    BY <1>8, <2>1 DEF ConfigureVfs, ConfigInv
<1>9. CASE MaxVfsWrite
  <2>1. CASE bus.numVfs > 0
    BY <1>9, <2>1 DEF MaxVfsWrite, ConfigInv
  <2>2. CASE ~(bus.numVfs > 0)
    <3>1. vfs' = writer /\ bus' = [bus EXCEPT !.maxVfs = writer] /\ writer # -1 /\ writer' = -1
      BY <1>9, <2>2 DEF MaxVfsWrite
    <3>2. bus'.numVfs = bus.numVfs /\ bus'.maxVfs = writer
      BY <3>1 DEF TypeOK, Records
    <3>3. bus.numVfs = 0 /\ writer \in Nat
      BY <1>1, <2>2, <3>1 DEF TypeOK
    <3>4. bus'.numVfs <= bus'.maxVfs
      BY <3>2, <3>3
    <3> QED
      BY <3>1, <3>2, <3>4 DEF ConfigInv
  <2> QED
    BY <2>1, <2>2
<1>10. ASSUME NEW n \in VfCounts, MaxVfsBegin(n) PROVE ConfigInv'
  BY <1>10 DEF MaxVfsBegin, ConfigInv
<1>11. CASE UNCHANGED <<bus, parts, vfs, writer>>
  BY <1>11 DEF ConfigInv
<1> QED
  BY <1>2, <1>3, <1>4, <1>5, <1>6, <1>7, <1>8, <1>9, <1>10, <1>11
     DEF Next, OpStep, WorkStep, WorkStart, WorkTryLock, WorkReport, WorkRequeue, WorkMoves,
         NewPort, DelPort, EswitchModeSet, vars, SetReload, StepFail, ReloadUp, ReloadEnd

-----------------------------------------------------------------------------
(* The theorems. *)

\* At first there is no device.
LEMMA Start ==
  ASSUME Init
  PROVE  IInv
<1>1. TypeOK
  BY DEF Init, TypeOK, Records, NoBus, Idle, OpNames
<1>2. OpInv
  BY DEF Init, OpInv, InRange, NoBus, Idle
<1>3. WorkFollowsTraps
  BY DEF Init, WorkFollowsTraps
<1>4. PartsInv
  BY DEF Init, PartsInv, Have, Idle
<1>5. PortsInv
  BY DEF Init, PortsInv, PortsKnown, IndicesOf
<1>6. VfInv /\ PinsInv
  BY DEF Init, VfInv, VfPorts, PinsInv, NoBus, Idle
<1>7. ConfigInv
  BY DEF Init, ConfigInv, NoBus
<1> QED
  BY <1>1, <1>2, <1>3, <1>4, <1>5, <1>6, <1>7 DEF IInv

\* nsim_dev_traps_exit frees what no work can still use, and while there are
\* traps the work stays scheduled, for every use of the device: also when ports
\* are added after a failed reload or max_vfs is written while the device goes.
THEOREM WorkOutlivesNothing == Spec => []WorkFollowsTraps
<1>1. Init => TypeOK /\ OpInv /\ WorkFollowsTraps
  BY Start DEF IInv
<1>2. TypeOK /\ OpInv /\ WorkFollowsTraps /\ [Next]_vars => (TypeOK /\ OpInv /\ WorkFollowsTraps)'
  BY TypeStep, OpInvStep, WorkInvStep
<1> QED
  BY <1>1, <1>2, PTL DEF Spec

\* The inductive invariant, for the uses of PlainUse.
THEOREM Invariant == PlainUse => (Spec => []IInv)
<1> SUFFICES ASSUME PlainUse PROVE Spec => []IInv
  OBVIOUS
<1>1. Init => IInv
  BY Start
<1>2. IInv /\ [Next]_vars => IInv'
  BY TypeStep, OpInvStep, WorkInvStep, PartsStep, PortsStep, ConfigStep DEF IInv
<1> QED
  BY <1>1, <1>2, PTL DEF Spec

\* Every part is set up and torn down once, in whatever step a probe, a reload
\* or a removal fails, and nothing is left of a device that is gone.
THEOREM PartsOnce == PlainUse => (Spec => []PartsAsTheyShould)
<1> SUFFICES ASSUME PlainUse PROVE Spec => []PartsAsTheyShould
  OBVIOUS
<1>1. ASSUME IInv PROVE PartsAsTheyShould
  <2> USE <1>1 DEF IInv
  <2>1. Rising => Plan[op.k + 1] \notin parts
    BY UpPart DEF PartsInv
  <2>2. Falling /\ Plan[op.k] # "dpll" => Plan[op.k] \in parts
    BY DownPart DEF PartsInv
  <2>3. ASSUME op = Idle
        PROVE  /\ ~drvdata => parts = {} /\ ports = {} /\ devlink = {} /\ pins = {} /\ work = "idle"
               /\ drvdata /\ reload.failed =>
                    parts = {RemoveRest[k] : k \in 1..Len(RemoveRest)} /\ ports = {}
               /\ drvdata /\ ~reload.failed =>
                    parts \cup {"dpll"} = {ProbeParts[k] : k \in 1..Len(ProbeParts)}
    <3>1. op.name = "none"
      BY <2>3, OpEnds
    <3>2. ASSUME ~drvdata
          PROVE  parts = {} /\ ports = {} /\ devlink = {} /\ pins = {} /\ work = "idle"
      <4>1. Have = {}
        BY <3>1, <3>2 DEF Have
      <4>2. parts = {}
        BY <4>1 DEF PartsInv
      <4> QED
        BY <3>1, <3>2, <4>2, NoPorts DEF WorkFollowsTraps
    <3>3. ASSUME drvdata, reload.failed
          PROVE  parts = {RemoveRest[k] : k \in 1..Len(RemoveRest)} /\ ports = {}
      <4>1. Have = First(AllParts, 6)
        BY <3>1, <3>3 DEF Have
      <4>2. parts = First(AllParts, 6)
        BY <4>1, PortParts DEF PartsInv
      <4>3. First(AllParts, 6) = {RemoveRest[k] : k \in 1..Len(RemoveRest)}
        BY PlanParts DEF First
      <4> QED
        BY <3>1, <3>3, <4>2, <4>3, NoPorts
    <3>4. ASSUME drvdata, ~reload.failed
          PROVE  parts \cup {"dpll"} = {ProbeParts[k] : k \in 1..Len(ProbeParts)}
      <4>1. Have = First(AllParts, 14)
        BY <3>1, <3>4 DEF Have
      <4>2. parts \cup {"dpll"} = First(AllParts, 14)
        BY <4>1, FirstEnds DEF PartsInv
      <4> QED
        BY <4>2, PlansDistinct, PlanParts DEF First
    <3> QED
      BY <3>2, <3>3, <3>4
  <2>4. drvdata \in BOOLEAN /\ reload.failed \in BOOLEAN
    BY DEF TypeOK, Records
  <2> HIDE DEF IInv
  <2> QED
    BY <2>1, <2>2, <2>3, <2>4 DEF PartsAsTheyShould
<1> QED
  BY <1>1, Invariant, PTL

\* Over all orders of sriov_numvfs, mode changes and reloads the VF ports are
\* those of the VFs, devlink knows the ports of the list, the DPLL's pins are for
\* ports that are there and every VF has its entry of vfconfigs.
THEOREM PortsAndVfs == PlainUse => (Spec => []PortsMatch)
<1> SUFFICES ASSUME PlainUse PROVE Spec => []PortsMatch
  OBVIOUS
<1>1. ASSUME IInv PROVE PortsMatch
  <2> USE <1>1 DEF IInv
  <2>1. VfPorts = IF esw = "switchdev" THEN {Vf(i) : i \in 0..bus.numVfs - 1} ELSE {}
    BY DEF VfInv, VfSet
  <2>2. devlink = IndicesOf(ports) /\ pins \subseteq ports
    BY DEF PortsInv, PortsKnown, PinsInv
  <2>3. ASSUME drvdata, op.name # "remove" PROVE bus.numVfs <= vfs
    <3>1. op.name \in OpNames /\ op.k \in Nat /\ vfs \in Nat
      BY DEF TypeOK, Records
    <3>2. CASE op.name \in {"probe", "probe undo"}
      <4>1. bus.numVfs = 0
        BY <3>2 DEF VfInv
      <4> QED
        BY <3>1, <4>1
    <3>3. CASE op.name \notin {"probe", "probe undo"}
      <4>1. PICK k \in Nat : k >= 6 /\ Have = First(AllParts, k)
        <5>1. \A k \in Nat : k + 6 \in Nat /\ k + 6 >= 6
          OBVIOUS
        <5>2. 6 \in Nat /\ 14 \in Nat /\ 6 >= 6 /\ 14 >= 6
          OBVIOUS
        <5>3. Have \in {First(AllParts, op.k + 6), First(AllParts, 6), First(AllParts, 14)}
          BY <2>3, <3>1, <3>3 DEF Have, OpNames
        <5> QED
          BY <3>1, <5>1, <5>2, <5>3
      <4>2. 1 \in 1..k
        BY <4>1
      <4>3. "vfconfigs" \in parts
        BY <4>1, <4>2, AllElements DEF First, PartsInv
      <4> QED
        BY <4>3 DEF ConfigInv
    <3> QED
      BY <3>2, <3>3
  <2> HIDE DEF IInv
  <2> QED
    BY <2>1, <2>2, <2>3 DEF PortsMatch
<1> QED
  BY <1>1, Invariant, PTL

=============================================================================
