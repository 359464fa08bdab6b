-------------------------- MODULE NsimPortsProofs --------------------------
(***************************************************************************)
(* Proofs about NsimPorts for any finite set of ports on any devices, in   *)
(* any order of their steps: the links between ports are mutual; until a   *)
(* port has used a PHC on its way out, a port that is up has a PHC that    *)
(* stays; and until a PHC has been created beside another, ports with one  *)
(* logical clock id share theirs.                                          *)
(***************************************************************************)
EXTENDS NsimPorts, FiniteSetTheorems, SequenceTheorems, WellFoundedInduction, TLAPS

USE NsimPortsAssumption DEF NsimPortsAssumption

(***************************************************************************)
(* The inductive invariant.                                                *)
(***************************************************************************)

PortPcs == {"down", "found", "create"} \cup Holding \cup Destroying

PortStates == [pc : PortPcs, phc : Phcs \cup {None}]

TypeOK ==
  /\ ref \in [Phcs -> Nat]
  /\ id \in [Phcs -> {IdOf(p) : p \in Ports} \cup {None}]
  /\ class \in Seq(Phcs)
  /\ port \in [Ports -> PortStates]
  /\ peer \in [Ports -> Ports \cup {None}]
  /\ stale \in BOOLEAN /\ doubled \in BOOLEAN

Registered == {class[k] : k \in 1..Len(class)}

\* A clock is in ptp_class once.
ClassOK == \A j, k \in 1..Len(class) : class[j] = class[k] => j = k

\* The port has a PHC that it holds or destroys.
Has(p) == port[p].pc \in Holding \cup Destroying

\* No other port holds or destroys the PHC of the port.
Alone(p) == \A q \in Ports : Has(q) /\ port[q].phc = port[p].phc => q = p

\* The PHC a port holds or destroys has the port's id; it is registered until the
\* port that undoes or destroys it, and has it for itself, has unregistered it.
PortHasPhc ==
  \A p \in Ports :
    /\ port[p].phc = None <=> port[p].pc \in {"down", "create"}
    /\ Has(p) => id[port[p].phc] = IdOf(p)
    /\ Has(p) => (port[p].phc \in Registered <=> port[p].pc \notin {"undo", "free"})
    /\ port[p].pc \in {"undo"} \cup Destroying => Alone(p)

\* A PHC with the id -1 is looked up by nobody and has one port.
IdOK ==
  \A p \in Ports : IdOf(p) = Unique =>
    /\ port[p].pc # "found"
    /\ Has(p) => Alone(p)

\* The count of a PHC is the number of ports that hold it.
RefOK == \A h \in Phcs : ref[h] = Cardinality(Holders(h))

\* A PHC is held or destroyed by a port while it is allocated, and allocated while
\* it is registered.
PhcOK ==
  \A h \in Phcs :
    /\ id[h] # None => Owners(h) # {}
    /\ h \in Registered => id[h] # None

\* No two PHCs that are held have the same id.
OnePerId ==
  \A g, h \in Phcs :
    id[g] = id[h] /\ id[h] \notin {None, Unique} /\ ref[g] > 0 /\ ref[h] > 0 => g = h

Sound == ClassOK /\ PortHasPhc /\ IdOK /\ RefOK /\ PhcOK

IInv ==
  /\ TypeOK
  /\ ~stale => Sound
  /\ ~stale /\ ~doubled => OnePerId

-----------------------------------------------------------------------------
(* Facts about the operators. *)

\* What is registered is in the class.
LEMMA RegisteredIs ==
  ASSUME NEW h
  PROVE  InClass(h) <=> h \in Registered
  BY DEF InClass, Registered

\* A set of positions has a first one.
LEMMA FirstOf ==
  ASSUME NEW S \in SUBSET Nat, S # {}
  PROVE  \E k \in S : \A j \in S : k <= j
<1>1. \E k \in S : \A j \in S : ~ (<<j, k>> \in OpToRel(<, Nat))
  BY NatLessThanWellFounded, WFMin
<1>2. PICK k \in S : \A j \in S : ~ (<<j, k>> \in OpToRel(<, Nat))
  BY <1>1
<1>3. ASSUME NEW j \in S PROVE k <= j
  <2>1. ASSUME j < k PROVE <<j, k>> \in OpToRel(<, Nat)
    <3>1. <<j, k>> \in Nat \X Nat /\ <<j, k>>[1] < <<j, k>>[2]
      BY <2>1
    <3> QED
      BY <3>1, Zenon DEF OpToRel
  <2>2. ~(j < k)
    BY <1>2, <2>1, Zenon
  <2> QED
    BY <2>2
<1> QED
  BY <1>3

\* What the lookup finds is registered and has the port's id.
LEMMA Lookup ==
  ASSUME TypeOK, NEW p \in Ports, Matches(p) # {}
  PROVE  LET h == class[CHOOSE k \in Matches(p) : \A j \in Matches(p) : k <= j]
         IN  h \in Registered /\ h \in Phcs /\ id[h] = IdOf(p)
<1> DEFINE k == CHOOSE i \in Matches(p) : \A j \in Matches(p) : i <= j
<1>1. Matches(p) \in SUBSET Nat
  BY DEF Matches, TypeOK
<1>2. k \in Matches(p)
  BY <1>1, FirstOf
<1>3. k \in 1..Len(class) /\ id[class[k]] = IdOf(p)
  BY <1>2 DEF Matches
<1>4. class[k] \in Phcs
  BY <1>3, ElementOfSeq DEF TypeOK
<1> HIDE DEF k
<1>5. class[k] \in Registered
  BY <1>3 DEF Registered
<1> QED
  BY <1>3, <1>4, <1>5 DEF k

\* What is registered after mock_phc_create ...
LEMMA RegisteredAppend ==
  ASSUME NEW s \in Seq(Phcs), NEW h \in Phcs
  PROVE  /\ Append(s, h) \in Seq(Phcs)
         /\ {Append(s, h)[k] : k \in 1..Len(Append(s, h))} = {s[k] : k \in 1..Len(s)} \cup {h}
<1>1. /\ Append(s, h) \in Seq(Phcs)
      /\ Len(Append(s, h)) = Len(s) + 1
      /\ \A i \in 1.. Len(s) : Append(s, h)[i] = s[i]
      /\ Append(s, h)[Len(s)+1] = h
  BY AppendProperties
<1>2. Len(s) \in Nat
  OBVIOUS
<1> QED
  BY <1>1, <1>2

\* ... and after ptp_clock_unregister.
LEMMA RemoveAtType ==
  ASSUME NEW s \in Seq(Phcs), NEW k \in 1..Len(s)
  PROVE  RemoveAt(s, k) \in Seq(Phcs)
<1>1. /\ Len(s) \in Nat /\ \A i \in 1..Len(s) : s[i] \in Phcs
      /\ 1 \in Int /\ k - 1 \in Int /\ k + 1 \in Int /\ Len(s) \in Int
  BY ElementOfSeq
<1>2. (\A i \in 1..(k - 1) : s[i] \in Phcs) /\ (\A i \in (k + 1)..Len(s) : s[i] \in Phcs)
  BY <1>1
<1>3. SubSeq(s, 1, k - 1) \in Seq(Phcs)
  BY <1>1, <1>2, SubSeqProperties
<1>4. SubSeq(s, k + 1, Len(s)) \in Seq(Phcs)
  BY <1>1, <1>2, SubSeqProperties
<1> QED
  BY <1>3, <1>4, ConcatProperties DEF RemoveAt

\* What a concatenation consists of.
LEMMA ConcatOf ==
  ASSUME NEW a \in Seq(Phcs), NEW b \in Seq(Phcs)
  PROVE  /\ a \o b \in Seq(Phcs)
         /\ Len(a \o b) = Len(a) + Len(b)
         /\ \A i \in 1..(Len(a) + Len(b)) :
              (a \o b)[i] = IF i <= Len(a) THEN a[i] ELSE b[i - Len(a)]
  BY ConcatProperties

\* A clock leaves the class: the others stay, without repetition.
LEMMA RegisteredRemove ==
  ASSUME NEW s \in Seq(Phcs), NEW k \in 1..Len(s),
         \A i, j \in 1..Len(s) : s[i] = s[j] => i = j
  PROVE  /\ \A i, j \in 1..Len(RemoveAt(s, k)) : RemoveAt(s, k)[i] = RemoveAt(s, k)[j] => i = j
         /\ {RemoveAt(s, k)[i] : i \in 1..Len(RemoveAt(s, k))}
              = {s[i] : i \in 1..Len(s)} \ {s[k]}
<1> DEFINE n == Len(s)
           t == RemoveAt(s, k)
<1>1. n \in Nat /\ k \in 1..n /\ \A i \in 1..n : s[i] \in Phcs
  BY ElementOfSeq
<1>2. /\ SubSeq(s, 1, k - 1) \in Seq(Phcs) /\ Len(SubSeq(s, 1, k - 1)) = k - 1
      /\ \A i \in 1..k-1 : SubSeq(s, 1, k - 1)[i] = s[i]
  <2>1. 1 \in Int /\ k - 1 \in Int /\ \A i \in 1..(k - 1) : s[i] \in Phcs
    BY <1>1
  <2>2. /\ SubSeq(s, 1, k - 1) \in Seq(Phcs)
        /\ Len(SubSeq(s, 1, k - 1)) = IF 1 <= k - 1 THEN (k - 1) - 1 + 1 ELSE 0
        /\ \A i \in 1..((k - 1) - 1 + 1) : SubSeq(s, 1, k - 1)[i] = s[1 + i - 1]
    BY <2>1, SubSeqProperties
  <2> QED
    BY <1>1, <2>2
<1>3. /\ SubSeq(s, k + 1, n) \in Seq(Phcs) /\ Len(SubSeq(s, k + 1, n)) = n - k
      /\ \A i \in 1..n-k : SubSeq(s, k + 1, n)[i] = s[k + i]
  <2>1. k + 1 \in Int /\ n \in Int /\ \A i \in (k + 1)..n : s[i] \in Phcs
    BY <1>1
  <2>2. /\ SubSeq(s, k + 1, n) \in Seq(Phcs)
        /\ Len(SubSeq(s, k + 1, n)) = IF k + 1 <= n THEN n - (k + 1) + 1 ELSE 0
        /\ \A i \in 1..(n - (k + 1) + 1) : SubSeq(s, k + 1, n)[i] = s[(k + 1) + i - 1]
    BY <2>1, SubSeqProperties
  <2> HIDE DEF n
  <2> QED
    BY <1>1, <2>2
<1>4. /\ t \in Seq(Phcs) /\ Len(t) = (k - 1) + (n - k)
      /\ \A i \in 1..((k - 1) + (n - k)) :
           t[i] = IF i <= k - 1 THEN SubSeq(s, 1, k - 1)[i]
                                ELSE SubSeq(s, k + 1, n)[i - (k - 1)]
  <2> DEFINE a == SubSeq(s, 1, k - 1)
             b == SubSeq(s, k + 1, n)
  <2>1. t = a \o b
    BY DEF RemoveAt
  <2>2. a \in Seq(Phcs) /\ b \in Seq(Phcs) /\ Len(a) = k - 1 /\ Len(b) = n - k
    BY <1>2, <1>3
  <2> HIDE DEF a, b, n, t
  <2>3. /\ a \o b \in Seq(Phcs)
        /\ Len(a \o b) = Len(a) + Len(b)
        /\ \A i \in 1..(Len(a) + Len(b)) :
             (a \o b)[i] = IF i <= Len(a) THEN a[i] ELSE b[i - Len(a)]
    BY <2>2, ConcatOf
  <2> QED
    BY <2>1, <2>2, <2>3 DEF a, b
<1> HIDE DEF n, t
<1>5. Len(t) = n - 1 /\ \A i \in 1..n-1 : t[i] = IF i < k THEN s[i] ELSE s[i + 1]
  <2>1. Len(t) = n - 1
    BY <1>1, <1>4
  <2>2. ASSUME NEW i \in 1..n-1 PROVE t[i] = IF i < k THEN s[i] ELSE s[i + 1]
    <3>1. i \in 1..((k - 1) + (n - k))
      BY <1>1
    <3>2. CASE i < k
      BY <1>1, <1>2, <1>4, <3>1, <3>2
    <3>3. CASE ~(i < k)
      <4>1. i - (k - 1) \in 1..n-k /\ k + (i - (k - 1)) = i + 1
        BY <1>1, <3>3
      <4> QED
        BY <1>1, <1>3, <1>4, <3>1, <3>3, <4>1
    <3> QED
      BY <3>2, <3>3
  <2> QED
    BY <2>1, <2>2
<1>6. \A i, j \in 1..Len(t) : t[i] = t[j] => i = j
  BY <1>1, <1>5 DEF n
<1>7. {t[i] : i \in 1..Len(t)} = {s[i] : i \in 1..Len(s)} \ {s[k]}
  <2>1. ASSUME NEW i \in 1..Len(t) PROVE \E j \in 1..n : t[i] = s[j] /\ j # k
    <3>1. i \in 1..n /\ i + 1 \in 1..n
      BY <1>1, <1>5
    <3> QED
      BY <1>1, <1>5, <3>1
  <2>2. ASSUME NEW j \in 1..n, j # k PROVE \E i \in 1..Len(t) : t[i] = s[j]
    <3>1. CASE j < k
      <4>1. j \in 1..n-1
        BY <1>1, <3>1
      <4> QED
        BY <1>5, <3>1, <4>1
    <3>2. CASE ~(j < k)
      <4>1. j - 1 \in 1..n-1 /\ ~(j - 1 < k) /\ (j - 1) + 1 = j
        BY <1>1, <2>2, <3>2
      <4> QED
        BY <1>5, <4>1
    <3> QED
      BY <3>1, <3>2
  <2>3. \A j \in 1..n : s[j] = s[k] => j = k
    BY <1>1 DEF n
  <2> DEFINE A == {t[i] : i \in 1..Len(t)}
             B == {s[i] : i \in 1..Len(s)} \ {s[k]}
  <2>4. ASSUME NEW x \in A PROVE x \in B
    <3>1. PICK i \in 1..Len(t) : x = t[i]
      OBVIOUS
    <3>2. PICK j \in 1..n : t[i] = s[j] /\ j # k
      BY <2>1
    <3> QED
      BY <2>3, <3>1, <3>2 DEF n
  <2>5. ASSUME NEW x \in B PROVE x \in A
    <3>1. PICK j \in 1..n : x = s[j] /\ j # k
      BY DEF n
    <3> QED
      BY <2>2, <3>1
  <2> QED
    BY <2>4, <2>5
<1> QED
  BY <1>6, <1>7 DEF t

\* Taking a clock out of the class leaves a class.
LEMMA LeaveType ==
  ASSUME class \in Seq(Phcs), NEW h, Leave(h)
  PROVE  class' \in Seq(Phcs)
  BY RemoveAtType DEF Leave

\* A reference count changed to a number stays one.
LEMMA SetRef ==
  ASSUME NEW f \in [Phcs -> Nat], NEW h
  PROVE  /\ [f EXCEPT ![h] = @ + 1] \in [Phcs -> Nat]
         /\ [f EXCEPT ![h] = IF @ = 0 THEN 0 ELSE @ - 1] \in [Phcs -> Nat]
<1>1. h \in Phcs => f[h] + 1 \in Nat /\ (IF f[h] = 0 THEN 0 ELSE f[h] - 1) \in Nat
  OBVIOUS
<1> QED
  BY <1>1

-----------------------------------------------------------------------------
(* What the actions do to the ports. *)

\* The step changes what port p does, and no other port.
PortBecomes(p, pc, phc) ==
  /\ port' \in [Ports -> PortStates]
  /\ port'[p].pc = pc /\ port'[p].phc = phc
  /\ \A q \in Ports \ {p} : port'[q] = port[q]

\* An action that sets a port's record.
LEMMA SetPort ==
  ASSUME TypeOK, NEW p \in Ports, NEW pc \in PortPcs, NEW phc \in Phcs \cup {None},
         port' = [port EXCEPT ![p] = [pc |-> pc, phc |-> phc]]
  PROVE  PortBecomes(p, pc, phc)
<1>1. [pc |-> pc, phc |-> phc] \in PortStates
  BY DEF PortStates
<1> QED
  BY <1>1 DEF PortBecomes, TypeOK

\* An action that moves a port on and leaves its PHC alone.
LEMMA SetPc ==
  ASSUME TypeOK, NEW p \in Ports, NEW pc \in PortPcs, port' = [port EXCEPT ![p].pc = pc]
  PROVE  PortBecomes(p, pc, port[p].phc)
<1>1. port[p] \in PortStates /\ port[p].phc \in Phcs \cup {None}
  BY DEF TypeOK, PortStates
<1>2. port'[p] = [port[p] EXCEPT !.pc = pc]
  BY DEF TypeOK
<1>3. port'[p] = [pc |-> pc, phc |-> port[p].phc]
  BY <1>1, <1>2 DEF PortStates
<1>4. port' = [port EXCEPT ![p] = [pc |-> pc, phc |-> port[p].phc]]
  BY <1>3 DEF TypeOK
<1> QED
  BY <1>1, <1>4, SetPort

\* The lookup leads to a registered PHC with the port's id, or to a creation.
LEMMA FindPort ==
  ASSUME TypeOK, NEW p \in Ports, Find(p)
  PROVE  \/ /\ IdOf(p) = Unique \/ Matches(p) = {}
            /\ PortBecomes(p, "create", None)
         \/ /\ IdOf(p) # Unique
            /\ \E h \in Phcs \cap Registered : id[h] = IdOf(p) /\ PortBecomes(p, "found", h)
<1> USE DEF PortPcs, Holding, Destroying
<1>1. CASE IdOf(p) # Unique /\ Matches(p) # {}
  <2> DEFINE h == class[CHOOSE k \in Matches(p) : \A j \in Matches(p) : k <= j]
  <2>1. h \in Registered /\ h \in Phcs /\ id[h] = IdOf(p)
    BY <1>1, Lookup
  <2>2. port' = [port EXCEPT ![p] = [pc |-> "found", phc |-> h]]
    BY <1>1 DEF Find
  <2> HIDE DEF h
  <2> QED
    BY <1>1, <2>1, <2>2, SetPort
<1>2. CASE ~(IdOf(p) # Unique /\ Matches(p) # {})
  <2>1. port' = [port EXCEPT ![p] = [pc |-> "create", phc |-> None]]
    BY <1>2 DEF Find
  <2> QED
    BY <1>2, <2>1, SetPort
<1> QED
  BY <1>1, <1>2

\* mock_phc_release: the last reference goes on to destroy the PHC.
LEMMA ReleasePort ==
  ASSUME TypeOK, NEW p \in Ports, Release(p)
  PROVE  IF ref[port[p].phc] = 1 THEN PortBecomes(p, "unregister", port[p].phc)
                                 ELSE PortBecomes(p, "down", None)
<1> USE DEF PortPcs, Holding, Destroying
<1>1. CASE ref[port[p].phc] = 1
  <2>1. port' = [port EXCEPT ![p].pc = "unregister"]
    BY <1>1 DEF Release, TypeOK
  <2> QED
    BY <1>1, <2>1, SetPc
<1>2. CASE ref[port[p].phc] # 1
  BY <1>2, SetPort DEF Release, Down
<1> QED
  BY <1>1, <1>2

\* The other actions.
LEMMA StepPort ==
  ASSUME TypeOK, NEW p \in Ports
  PROVE  /\ Get(p) => PortBecomes(p, "init", port[p].phc)
         /\ Create(p) => \E h \in Phcs :
              /\ id[h] = None /\ id' = [id EXCEPT ![h] = IdOf(p)]
              /\ ref' = [ref EXCEPT ![h] = 1] /\ class' = Append(class, h)
              /\ PortBecomes(p, "created", h)
         /\ CreateDone(p) => PortBecomes(p, "init", port[p].phc)
         /\ CreateUndo(p) => PortBecomes(p, "undo", port[p].phc)
         /\ CreateFails(p) => PortBecomes(p, "down", None)
         /\ InitDone(p) => PortBecomes(p, "up", port[p].phc)
         /\ InitFails(p) => PortBecomes(p, "release", port[p].phc)
         /\ Destroy(p) => PortBecomes(p, "release", port[p].phc)
         /\ DestroyUnregister(p) => PortBecomes(p, "free", port[p].phc)
         /\ DestroyFree(p) => PortBecomes(p, "down", None)
<1> USE DEF PortPcs, Holding, Destroying
<1>1. Get(p) => PortBecomes(p, "init", port[p].phc)
  BY SetPc DEF Get
<1>2. ASSUME Create(p)
      PROVE  \E h \in Phcs :
               /\ id[h] = None /\ id' = [id EXCEPT ![h] = IdOf(p)]
               /\ ref' = [ref EXCEPT ![h] = 1] /\ class' = Append(class, h)
               /\ PortBecomes(p, "created", h)
  BY <1>2, SetPort DEF Create
<1>3. CreateFails(p) => PortBecomes(p, "down", None)
  BY SetPort DEF CreateFails, Down
<1>4. InitDone(p) => PortBecomes(p, "up", port[p].phc)
  BY SetPc DEF InitDone
<1>5. InitFails(p) => PortBecomes(p, "release", port[p].phc)
  BY SetPc DEF InitFails
<1>6. Destroy(p) => PortBecomes(p, "release", port[p].phc)
  BY SetPc DEF Destroy
<1>7. DestroyUnregister(p) => PortBecomes(p, "free", port[p].phc)
  BY SetPc DEF DestroyUnregister
<1>8. DestroyFree(p) => PortBecomes(p, "down", None)
  BY SetPort DEF DestroyFree, Down
<1>9. CreateDone(p) => PortBecomes(p, "init", port[p].phc)
  BY SetPc DEF CreateDone
<1>10. CreateUndo(p) => PortBecomes(p, "undo", port[p].phc)
  BY SetPc DEF CreateUndo
<1> QED
  BY <1>1, <1>2, <1>3, <1>4, <1>5, <1>6, <1>7, <1>8, <1>9, <1>10

-----------------------------------------------------------------------------
(* Links. *)

\* The types hold initially.
LEMMA TypeInit == Init => TypeOK
<1> SUFFICES ASSUME Init PROVE TypeOK
  OBVIOUS
<1>1. Down \in PortStates
  BY DEF Down, PortStates, PortPcs
<1>2. stale \in BOOLEAN /\ doubled \in BOOLEAN
  BY Zenon DEF Init
<1> QED
  BY <1>1, <1>2 DEF Init, TypeOK

\* Every action keeps the types.
LEMMA TypeStep == TypeOK /\ [Next]_vars => TypeOK'
<1> SUFFICES ASSUME TypeOK, [Next]_vars PROVE TypeOK'
  OBVIOUS
<1> USE DEF history
<1>1. ASSUME NEW p \in Ports, Find(p) PROVE TypeOK'
  BY <1>1, FindPort DEF Find, PortBecomes, TypeOK
<1>2. ASSUME NEW p \in Ports, Get(p) PROVE TypeOK'
  <2>1. port' \in [Ports -> PortStates]
    BY <1>2, StepPort DEF PortBecomes
  <2>2. ref' \in [Phcs -> Nat]
    BY <1>2, SetRef DEF Get, TypeOK
  <2>3. stale' \in BOOLEAN
    BY <1>2, Zenon DEF Get
  <2>4. UNCHANGED <<id, class, peer, doubled>>
    BY <1>2 DEF Get
  <2> QED
    BY <2>1, <2>2, <2>3, <2>4 DEF TypeOK
<1>3. ASSUME NEW p \in Ports, Create(p) PROVE TypeOK'
  <2>1. PICK h \in Phcs : /\ id' = [id EXCEPT ![h] = IdOf(p)] /\ class' = Append(class, h)
                          /\ ref' = [ref EXCEPT ![h] = 1] /\ PortBecomes(p, "created", h)
    BY <1>3, StepPort
  <2>2. class' \in Seq(Phcs)
    BY <2>1, AppendProperties DEF TypeOK
  <2> QED
    <3>1. id' \in [Phcs -> {IdOf(q) : q \in Ports} \cup {None}]
      BY <2>1 DEF TypeOK
    <3>2. ref' \in [Phcs -> Nat] /\ port' \in [Ports -> PortStates] /\ UNCHANGED <<peer, stale>>
      BY <1>3, <2>1 DEF Create, PortBecomes, TypeOK
    <3>3. doubled' \in BOOLEAN
      BY <1>3, Zenon DEF Create
    <3> QED
      BY <2>2, <3>1, <3>2, <3>3 DEF TypeOK, IdOf
<1>4. ASSUME NEW p \in Ports, CreateDone(p) \/ CreateFails(p) \/ InitDone(p) \/ InitFails(p)
      PROVE  TypeOK'
  <2>1. port' \in [Ports -> PortStates]
    BY <1>4, StepPort DEF PortBecomes
  <2> QED
    BY <1>4, <2>1 DEF CreateDone, CreateFails, InitDone, InitFails, TypeOK
<1>5. ASSUME NEW p \in Ports, Destroy(p) PROVE TypeOK'
  <2>1. port' \in [Ports -> PortStates]
    BY <1>5, StepPort DEF PortBecomes
  <2> QED
    BY <1>5, <2>1 DEF Destroy, TypeOK
<1>6. ASSUME NEW p \in Ports, Release(p) PROVE TypeOK'
  <2>1. port' \in [Ports -> PortStates]
    BY <1>6, ReleasePort DEF PortBecomes
  <2>2. ref' \in [Phcs -> Nat]
    BY <1>6, SetRef DEF Release, TypeOK
  <2> QED
    BY <1>6, <2>1, <2>2 DEF Release, TypeOK
<1>7. ASSUME NEW p \in Ports, DestroyUnregister(p) PROVE TypeOK'
  <2>1. port' \in [Ports -> PortStates]
    BY <1>7, StepPort DEF PortBecomes
  <2>2. class' \in Seq(Phcs)
    BY <1>7, LeaveType DEF DestroyUnregister, TypeOK
  <2> QED
    BY <1>7, <2>1, <2>2 DEF DestroyUnregister, TypeOK
<1>8. ASSUME NEW p \in Ports, DestroyFree(p) PROVE TypeOK'
  <2>1. port' \in [Ports -> PortStates]
    BY <1>8, StepPort DEF PortBecomes
  <2> QED
    BY <1>8, <2>1 DEF DestroyFree, TypeOK
<1>12. ASSUME NEW p \in Ports, CreateUndo(p) PROVE TypeOK'
  <2>1. port' \in [Ports -> PortStates]
    BY <1>12, StepPort DEF PortBecomes
  <2>2. class' \in Seq(Phcs)
    BY <1>12, LeaveType DEF CreateUndo, TypeOK
  <2>3. stale' \in BOOLEAN
    BY <1>12, Zenon DEF CreateUndo
  <2> QED
    BY <1>12, <2>1, <2>2, <2>3 DEF CreateUndo, TypeOK
<1>9. ASSUME NEW p \in Ports, Unlink(p) PROVE TypeOK'
  BY <1>9 DEF Unlink, TypeOK
<1>10. ASSUME NEW p \in Ports, NEW q \in Ports, Link(p, q) PROVE TypeOK'
  BY <1>10 DEF Link, TypeOK
<1>11. CASE UNCHANGED vars
  BY <1>11 DEF vars, TypeOK
<1> QED
  BY <1>1, <1>2, <1>3, <1>4, <1>5, <1>6, <1>7, <1>8, <1>9, <1>10, <1>11, <1>12 DEF Next

\* Every action keeps both ends of every link, or takes both away.
LEMMA PeersStep == TypeOK /\ PeersMutual /\ [Next]_vars => PeersMutual'
<1> SUFFICES ASSUME TypeOK, PeersMutual, [Next]_vars PROVE PeersMutual'
  OBVIOUS
<1>1. ASSUME NEW p \in Ports, NEW pc, NEW phc, PortBecomes(p, pc, phc),
             UNCHANGED peer, port[p].pc # "up"
      PROVE  PeersMutual'
  <2> SUFFICES ASSUME NEW q \in Ports, peer[q] # None
               PROVE  port'[q] = port[q] /\ port'[peer[q]] = port[peer[q]]
    BY <1>1 DEF PeersMutual
  <2>1. peer[q] \in Ports /\ q # p /\ peer[q] # p
    BY <1>1 DEF TypeOK, PeersMutual
  <2> QED
    BY <1>1, <2>1 DEF PortBecomes
<1>2. ASSUME NEW p \in Ports, Destroy(p) PROVE PeersMutual'
  <2> SUFFICES ASSUME NEW q \in Ports, peer'[q] # None
               PROVE  /\ peer'[q] # q /\ peer'[peer'[q]] = q
                      /\ port'[q].pc = "up" /\ port'[peer'[q]].pc = "up"
    BY DEF PeersMutual
  <2>1. q # p /\ q # peer[p] /\ peer'[q] = peer[q]
    BY <1>2 DEF Destroy
  <2>2. peer[q] \in Ports /\ peer[q] # p /\ peer[q] # peer[p]
    BY <2>1 DEF PeersMutual, TypeOK
  <2>3. /\ port'[q] = port[q] /\ port'[peer[q]] = port[peer[q]]
        /\ peer'[peer[q]] = peer[peer[q]]
    BY <1>2, <2>1, <2>2 DEF Destroy, TypeOK
  <2> QED
    BY <2>1, <2>2, <2>3 DEF PeersMutual
<1>3. ASSUME NEW p \in Ports, Unlink(p) PROVE PeersMutual'
  <2>1. peer[p] \in Ports /\ peer[peer[p]] = p
    BY <1>3 DEF Unlink, PeersMutual, TypeOK
  <2>2. /\ \A q \in Ports : peer'[q] = IF q \in {p, peer[p]} THEN None ELSE peer[q]
        /\ UNCHANGED port
    BY <1>3, <2>1 DEF Unlink, TypeOK
  <2> SUFFICES ASSUME NEW q \in Ports, peer'[q] # None
               PROVE  /\ peer'[q] # q /\ peer'[peer'[q]] = q
                      /\ port[q].pc = "up" /\ port[peer'[q]].pc = "up"
    BY <2>2 DEF PeersMutual
  <2>3. q # p /\ q # peer[p] /\ peer'[q] = peer[q]
    BY <2>2
  <2>4. peer[q] \in Ports /\ peer[q] # p /\ peer[q] # peer[p] /\ peer'[peer[q]] = peer[peer[q]]
    BY <2>1, <2>2, <2>3 DEF PeersMutual, TypeOK
  <2> QED
    BY <2>3, <2>4 DEF PeersMutual
<1>4. ASSUME NEW p \in Ports, NEW q \in Ports, Link(p, q) PROVE PeersMutual'
  <2>1. /\ peer'[p] = q /\ peer'[q] = p /\ p # q
        /\ \A s \in Ports \ {p, q} : peer'[s] = peer[s]
        /\ UNCHANGED port
    BY <1>4 DEF Link, TypeOK
  <2>2. \A s \in Ports : peer[s] # p /\ peer[s] # q
    <3>1. ASSUME NEW s \in Ports, NEW u \in Ports, peer[s] = u, peer[u] = None PROVE FALSE
      BY <3>1 DEF PeersMutual
    <3> QED
      BY <1>4, <3>1 DEF Link
  <2> QED
    <3> SUFFICES ASSUME NEW s \in Ports, peer'[s] # None
                 PROVE  /\ peer'[s] # s /\ peer'[peer'[s]] = s
                        /\ port[s].pc = "up" /\ port[peer'[s]].pc = "up"
      BY <2>1 DEF PeersMutual
    <3>1. CASE s \in {p, q}
      BY <1>4, <2>1, <3>1 DEF Link
    <3>2. CASE s \notin {p, q}
      <4>1. peer'[s] = peer[s] /\ peer[s] \in Ports \ {p, q}
        BY <2>1, <2>2, <3>2 DEF TypeOK
      <4> QED
        BY <2>1, <4>1 DEF PeersMutual
    <3> QED
      BY <3>1, <3>2
<1>5. CASE UNCHANGED vars
  BY <1>5 DEF vars, PeersMutual
<1>6. ASSUME NEW p \in Ports, Find(p) PROVE PeersMutual'
  BY <1>1, <1>6, FindPort DEF Find
<1>7. ASSUME NEW p \in Ports, \/ Get(p) \/ CreateDone(p) \/ CreateUndo(p) \/ CreateFails(p)
                               \/ InitDone(p) \/ InitFails(p)
      PROVE  PeersMutual'
  BY <1>1, <1>7, StepPort DEF Get, CreateDone, CreateUndo, CreateFails, InitDone, InitFails
<1>8. ASSUME NEW p \in Ports, Create(p) PROVE PeersMutual'
  BY <1>1, <1>8, StepPort DEF Create
<1>9. ASSUME NEW p \in Ports, Release(p) PROVE PeersMutual'
  BY <1>1, <1>9, ReleasePort DEF Release
<1>10. ASSUME NEW p \in Ports, DestroyUnregister(p) \/ DestroyFree(p) PROVE PeersMutual'
  BY <1>1, <1>10, StepPort DEF DestroyUnregister, DestroyFree
<1> QED
  BY <1>2, <1>3, <1>4, <1>5, <1>6, <1>7, <1>8, <1>9, <1>10 DEF Next

\* Links are mutual and join ports that are up, whatever ports come, go, link
\* and unlink in between (link_device_store, unlink_device_store, nsim_destroy).
THEOREM LinksMutual == Spec => []PeersMutual
<1>1. Init => PeersMutual
  BY DEF Init, PeersMutual
<1> QED
  BY <1>1, TypeInit, TypeStep, PeersStep, PTL DEF Spec

-----------------------------------------------------------------------------
(* PHCs, until one is used on its way out. *)

\* How the number of holders changes when one port does.
LEMMA HoldersCount ==
  ASSUME TypeOK, NEW p \in Ports, NEW pc, NEW phc, PortBecomes(p, pc, phc), NEW h \in Phcs
  PROVE  LET was == port[p].phc = h /\ port[p].pc \in Holding
             is  == phc = h /\ pc \in Holding
         IN  /\ Cardinality(Holders(h)) \in Nat
             /\ Cardinality(Holders(h))' = IF is /\ ~was THEN Cardinality(Holders(h)) + 1
                                           ELSE IF was /\ ~is THEN Cardinality(Holders(h)) - 1
                                           ELSE Cardinality(Holders(h))
<1> DEFINE was == port[p].phc = h /\ port[p].pc \in Holding
           is  == phc = h /\ pc \in Holding
           H   == Holders(h)
           G   == Holders(h)'
<1>1. IsFiniteSet(H) /\ (p \in H <=> was)
  <2>1. H \in SUBSET Ports
    BY DEF Holders
  <2> QED
    BY <2>1, FS_Subset DEF Holders
<1>2. G = IF is THEN H \cup {p} ELSE H \ {p}
  BY DEF Holders, PortBecomes
<1> HIDE DEF H, G, is, was
<1>3. /\ Cardinality(H) \in Nat
      /\ Cardinality(H \cup {p}) = IF was THEN Cardinality(H) ELSE Cardinality(H) + 1
      /\ Cardinality(H \ {p}) = IF was THEN Cardinality(H) - 1 ELSE Cardinality(H)
  BY <1>1, FS_CardinalityType, FS_AddElement, FS_RemoveElement
<1>4. Cardinality(G) = IF is /\ ~was THEN Cardinality(H) + 1
                       ELSE IF was /\ ~is THEN Cardinality(H) - 1
                       ELSE Cardinality(H)
  BY <1>2, <1>3
<1> QED
  BY <1>3, <1>4 DEF H, G, is, was

\* A PHC that no port has is held by none.
LEMMA NoHolders ==
  ASSUME NEW h, \A p \in Ports : port[p].phc = h => port[p].pc \notin Holding
  PROVE  Cardinality(Holders(h)) = 0
<1>1. Holders(h) = {}
  BY DEF Holders
<1> QED
  BY <1>1, FS_EmptySet

\* What the creation and the unregistration do to the class.
LEMMA CreateClass ==
  ASSUME TypeOK, ClassOK, PhcOK, NEW h \in Phcs, id[h] = None, class' = Append(class, h)
  PROVE  ClassOK' /\ Registered' = Registered \cup {h}
<1>1. Registered' = Registered \cup {h}
  BY RegisteredAppend DEF Registered, TypeOK
<1>2. \A k \in 1..Len(class) : class[k] # h
  BY DEF PhcOK, Registered
<1>3. /\ Len(class) \in Nat /\ Len(class') = Len(class) + 1 /\ class'[Len(class) + 1] = h
      /\ \A k \in 1..Len(class) : class'[k] = class[k]
  BY AppendProperties DEF TypeOK
<1>4. ClassOK'
  <2> SUFFICES ASSUME NEW j \in 1..(Len(class) + 1), NEW k \in 1..(Len(class) + 1),
                      class'[j] = class'[k]
               PROVE  j = k
    BY <1>3 DEF ClassOK
  <2>1. \A i \in 1..(Len(class) + 1) : i \in 1..Len(class) \/ i = Len(class) + 1
    BY <1>3
  <2> QED
    BY <1>2, <1>3, <2>1 DEF ClassOK
<1> QED
  BY <1>1, <1>4

\* ptp_clock_unregister takes the PHC out of the class.
LEMMA LeaveClass ==
  ASSUME TypeOK, ClassOK, NEW h \in Phcs \cap Registered, Leave(h)
  PROVE  ClassOK' /\ Registered' = Registered \ {h}
<1>1. PICK k \in 1..Len(class) : class[k] = h /\ class' = RemoveAt(class, k)
  BY RegisteredIs DEF Leave
<1>2. class \in Seq(Phcs) /\ \A i, j \in 1..Len(class) : class[i] = class[j] => i = j
  BY DEF TypeOK, ClassOK
<1> DEFINE t == RemoveAt(class, k)
<1>3. /\ \A i, j \in 1..Len(t) : t[i] = t[j] => i = j
      /\ {t[i] : i \in 1..Len(t)} = {class[i] : i \in 1..Len(class)} \ {class[k]}
  BY <1>2, RegisteredRemove
<1>4. class' = t
  BY <1>1
<1> HIDE DEF t
<1>5. ClassOK'
  BY <1>3, <1>4 DEF ClassOK
<1>6. Registered' = {t[i] : i \in 1..Len(t)}
  BY <1>4 DEF Registered
<1>7. Registered = {class[i] : i \in 1..Len(class)}
  BY DEF Registered
<1> QED
  BY <1>1, <1>3, <1>5, <1>6, <1>7

\* The holders of a PHC are there exactly while its count is not 0, and the last
\* of them is the only one.
LEMMA HoldersAre ==
  ASSUME TypeOK, RefOK, NEW p \in Ports, NEW h \in Phcs
  PROVE  /\ ref[h] > 0 <=> Holders(h) # {}
         /\ ref[h] = 1 /\ p \in Holders(h) => Holders(h) = {p}
         /\ ref[h] # 1 /\ p \in Holders(h) => \E q \in Holders(h) : q # p
<1> DEFINE H == Holders(h)
<1>1. IsFiniteSet(H) /\ ref[h] = Cardinality(H) /\ Cardinality(H) \in Nat
  <2>1. H \in SUBSET Ports
    BY DEF Holders
  <2> QED
    BY <2>1, FS_Subset, FS_CardinalityType DEF RefOK
<1> HIDE DEF H
<1>2. ref[h] > 0 <=> H # {}
  BY <1>1, FS_EmptySet
<1>3. ref[h] = 1 => \E x : H = {x}
  BY <1>1, FS_Singleton
<1>4. ASSUME ref[h] # 1, p \in H PROVE \E q \in H : q # p
  <2>1. IsFiniteSet(H \ {p}) /\ Cardinality(H \ {p}) = Cardinality(H) - 1
    BY <1>1, <1>4, FS_RemoveElement
  <2>2. Cardinality(H \ {p}) # 0
    BY <1>1, <1>2, <1>4, <2>1
  <2>3. H \ {p} # {}
    BY <2>1, <2>2, FS_EmptySet
  <2> QED
    BY <2>3
<1> QED
  BY <1>2, <1>3, <1>4 DEF H

\* The PHC of a port that is undone or destroyed, or has the last reference, has
\* no other port.
LEMMA LastHolder ==
  ASSUME TypeOK, PortHasPhc, RefOK, NEW p \in Ports, port[p].pc \in Holding
  PROVE  /\ port[p].phc \in Phcs
         /\ ref[port[p].phc] > 0
         /\ ref[port[p].phc] = 1 => Alone(p)
         /\ ref[port[p].phc] # 1 => \E q \in Holders(port[p].phc) : q # p
<1> DEFINE h == port[p].phc
<1>1. h \in Phcs /\ p \in Holders(h)
  BY DEF PortHasPhc, TypeOK, PortStates, Holders, Holding
<1>2. ASSUME ref[h] = 1, NEW q \in Ports, Has(q), port[q].phc = h PROVE q = p
  <2>1. CASE port[q].pc \in Holding
    BY <1>1, <1>2, <2>1, HoldersAre DEF Holders
  <2>2. CASE port[q].pc \in Destroying
    BY <1>2, <2>2 DEF PortHasPhc, Alone, Has
  <2> QED
    BY <1>2, <2>1, <2>2 DEF Has
<1> QED
  BY <1>1, <1>2, HoldersAre DEF Alone

\* A destroyed PHC has no holder.
LEMMA DestroyedAlone ==
  ASSUME PortHasPhc, NEW p \in Ports, port[p].pc \in Destroying
  PROVE  Holders(port[p].phc) = {}
<1>1. p \notin Holders(port[p].phc)
  BY DEF Holders, Holding, Destroying
<1> QED
  BY <1>1 DEF Holders, PortHasPhc, Alone, Has

\* Every path takes and gives back one reference.
LEMMA RefStep ==
  ASSUME TypeOK, Sound, [Next]_vars, ~stale'
  PROVE  RefOK'
<1> USE DEF RefOK, Sound, Holding, Destroying
<1>1. ASSUME NEW p \in Ports, NEW pc, NEW phc, PortBecomes(p, pc, phc), UNCHANGED ref,
             phc = port[p].phc,
             pc \in Holding <=> port[p].pc \in Holding
      PROVE  RefOK'
  BY <1>1, HoldersCount
<1>2. ASSUME NEW p \in Ports, NEW pc, NEW phc, PortBecomes(p, pc, phc), UNCHANGED ref,
             pc \notin Holding, port[p].pc \notin Holding
      PROVE  RefOK'
  BY <1>2, HoldersCount
<1>3. ASSUME NEW p \in Ports, Find(p) PROVE RefOK'
  BY <1>2, <1>3, FindPort DEF Find
<1>4. ASSUME NEW p \in Ports, Get(p) PROVE RefOK'
  <2>1. PortBecomes(p, "init", port[p].phc)
    BY <1>4, StepPort
  <2>2. port[p].phc \in Phcs /\ port[p].pc = "found"
    BY <1>4 DEF Get, PortHasPhc, TypeOK, PortStates
  <2>3. \A h \in Phcs : ref'[h] = IF h = port[p].phc THEN ref[h] + 1 ELSE ref[h]
    BY <1>4, <2>2 DEF Get, TypeOK
  <2> QED
    BY <2>1, <2>2, <2>3, HoldersCount
<1>5. ASSUME NEW p \in Ports, Create(p) PROVE RefOK'
  <2>1. PICK h \in Phcs : /\ id[h] = None /\ ref' = [ref EXCEPT ![h] = 1]
                          /\ PortBecomes(p, "created", h)
    BY <1>5, StepPort
  <2>2. \A q \in Ports : Has(q) => port[q].phc # h
    BY <2>1 DEF PortHasPhc, IdOf
  <2>3. Cardinality(Holders(h)) = 0
    BY <2>2, NoHolders DEF Has
  <2>4. \A g \in Phcs : ref'[g] = IF g = h THEN 1 ELSE ref[g]
    BY <2>1 DEF TypeOK
  <2>5. port[p].pc = "create"
    BY <1>5 DEF Create
  <2>6. \A g \in Phcs : Cardinality(Holders(g))' = IF g = h THEN Cardinality(Holders(g)) + 1
                                                            ELSE Cardinality(Holders(g))
    BY <2>1, <2>5, HoldersCount
  <2> QED
    BY <2>1, <2>3, <2>4, <2>6
<1>6. ASSUME NEW p \in Ports, CreateFails(p) PROVE RefOK'
  BY <1>2, <1>6, StepPort DEF CreateFails, history
<1>7. ASSUME NEW p \in Ports, CreateDone(p) \/ CreateUndo(p) \/ InitDone(p) \/ InitFails(p) \/ Destroy(p)
      PROVE  RefOK'
  <2>1. PICK pc \in {"init", "undo", "up", "release"} : PortBecomes(p, pc, port[p].phc)
    BY <1>7, StepPort
  <2>2. UNCHANGED ref /\ port[p].pc \in Holding
    BY <1>7 DEF CreateDone, CreateUndo, InitDone, InitFails, Destroy
  <2> QED
    BY <1>1, <2>1, <2>2
<1>8. ASSUME NEW p \in Ports, Release(p) PROVE RefOK'
  <2>1. PICK pc \in {"unregister", "down"}, phc \in Phcs \cup {None} : PortBecomes(p, pc, phc)
    BY <1>8, ReleasePort DEF TypeOK, PortStates
  <2>2. port[p].phc \in Phcs /\ port[p].pc = "release" /\ ref[port[p].phc] > 0
    BY <1>8, LastHolder DEF Release
  <2>3. \A h \in Phcs : ref'[h] = IF h = port[p].phc THEN ref[h] - 1 ELSE ref[h]
    BY <1>8, <2>2 DEF Release, TypeOK
  <2>4. \A h \in Phcs : Cardinality(Holders(h))' = IF h = port[p].phc
                                                   THEN Cardinality(Holders(h)) - 1
                                                   ELSE Cardinality(Holders(h))
    BY <2>1, <2>2, HoldersCount
  <2> QED
    BY <2>3, <2>4
<1>9. ASSUME NEW p \in Ports, DestroyUnregister(p) PROVE RefOK'
  <2>1. PortBecomes(p, "free", port[p].phc)
    BY <1>9, StepPort
  <2>2. port[p].pc = "unregister" /\ UNCHANGED ref
    BY <1>9 DEF DestroyUnregister
  <2> QED
    BY <1>1, <2>1, <2>2
<1>10. ASSUME NEW p \in Ports, DestroyFree(p) PROVE RefOK'
  <2>1. PortBecomes(p, "down", None) /\ port[p].pc \in {"free", "undo"}
    BY <1>10, StepPort DEF DestroyFree
  <2>2. Alone(p) /\ port[p].phc # None /\ port[p].phc \in Phcs
    BY <2>1 DEF PortHasPhc, TypeOK, PortStates
  <2>3. PICK h \in Phcs : h = port[p].phc
    BY <2>2
  <2>4. \A g \in Phcs : ref'[g] = IF g = h THEN 0 ELSE ref[g]
    BY <1>10, <2>3 DEF DestroyFree, TypeOK
  <2>5. ASSUME NEW q \in Ports, port'[q].phc = h PROVE port'[q].pc \notin Holding
    BY <2>1, <2>2, <2>3, <2>5 DEF PortBecomes, Alone, Has
  <2>6. Holders(h)' = {}
    BY <2>5 DEF Holders
  <2>7. Cardinality(Holders(h))' = 0
    BY <2>6, FS_EmptySet
  <2>8. ASSUME NEW g \in Phcs \ {h} PROVE Cardinality(Holders(g))' = Cardinality(Holders(g))
    BY <2>1, <2>2, <2>3, HoldersCount
  <2> QED
    BY <2>4, <2>7, <2>8
<1>11. CASE UNCHANGED <<ref, port>>
  <2>1. \A h \in Phcs : Holders(h)' = Holders(h)
    BY <1>11 DEF Holders
  <2> QED
    BY <1>11, <2>1
<1>12. CASE UNCHANGED vars \/ \E p \in Ports : Unlink(p) \/ \E q \in Ports : Link(p, q)
  BY <1>11, <1>12 DEF vars, Unlink, Link
<1> QED
  BY <1>3, <1>4, <1>5, <1>6, <1>7, <1>8, <1>9, <1>10, <1>12 DEF Next

\* The PHC of a port that takes a reference is there and in use.
LEMMA GetUsed ==
  ASSUME TypeOK, Sound, NEW p \in Ports, Get(p), ~stale'
  PROVE  /\ port[p].phc \in Phcs \cap Registered /\ ref[port[p].phc] > 0
         /\ id[port[p].phc] = IdOf(p) /\ IdOf(p) # Unique
         /\ \A q \in Ports : Has(q) /\ port[q].phc = port[p].phc =>
              port[q].pc \notin {"undo"} \cup Destroying /\ IdOf(q) # Unique
<1> DEFINE h == port[p].phc
<1>1. /\ h \in Phcs /\ h \in Registered /\ ref[h] # 0 /\ id[h] = IdOf(p)
      /\ IdOf(p) # Unique
  BY RegisteredIs DEF Get, Sound, PortHasPhc, IdOK, TypeOK, PortStates
<1>2. ref[h] > 0
  BY <1>1 DEF TypeOK
<1>3. ASSUME NEW q \in Ports, Has(q), port[q].phc = h
      PROVE  port[q].pc \notin {"undo"} \cup Destroying /\ IdOf(q) # Unique
  <2>1. port[q].pc \notin Destroying
    BY <1>1, <1>2, <1>3, DestroyedAlone, HoldersAre DEF Sound
  <2>2. port[q].pc # "undo"
    BY <1>1, <1>3 DEF Sound, PortHasPhc
  <2>3. IdOf(q) # Unique
    BY <1>1, <1>3 DEF Sound, PortHasPhc
  <2> QED
    BY <2>1, <2>2, <2>3
<1> QED
  BY <1>1, <1>2, <1>3

\* The PHC a port has stays its PHC.
LEMMA PortHasPhcStep ==
  ASSUME TypeOK, Sound, [Next]_vars, ~stale'
  PROVE  PortHasPhc' /\ IdOK' /\ ClassOK'
<1> USE DEF Sound, Holding, Destroying
<1>1. \A q \in Ports : port[q].phc # None => port[q].phc \in Phcs
  BY DEF TypeOK, PortStates
<1>2. ASSUME NEW p \in Ports, NEW pc, PortBecomes(p, pc, port[p].phc), UNCHANGED <<id, class>>,
             pc \in {"init", "up", "release"},
             port[p].pc \in {"created", "init", "up", "release"}
      PROVE  PortHasPhc' /\ IdOK' /\ ClassOK'
  BY <1>2 DEF PortBecomes, PortHasPhc, IdOK, Alone, Has, ClassOK, Registered, IdOf
<1>3. ASSUME NEW p \in Ports, NEW pc, NEW phc, PortBecomes(p, pc, phc), UNCHANGED <<id, class>>,
             pc \in {"down", "create", "found"}, phc = None <=> pc \in {"down", "create"},
             pc = "found" => IdOf(p) # Unique
      PROVE  PortHasPhc' /\ IdOK' /\ ClassOK'
  BY <1>1, <1>3 DEF PortBecomes, PortHasPhc, IdOK, Alone, Has, ClassOK, Registered, IdOf
<1>4. ASSUME NEW p \in Ports, Find(p) PROVE PortHasPhc' /\ IdOK' /\ ClassOK'
  <2>1. UNCHANGED <<id, class>>
    BY <1>4 DEF Find
  <2> QED
    BY <1>3, <1>4, <2>1, FindPort
<1>5. ASSUME NEW p \in Ports, Get(p) PROVE PortHasPhc' /\ IdOK' /\ ClassOK'
  <2>1. PortBecomes(p, "init", port[p].phc) /\ UNCHANGED <<id, class>> /\ port[p].pc = "found"
    BY <1>5, StepPort DEF Get
  <2>2. /\ port[p].phc \in Phcs \cap Registered
        /\ id[port[p].phc] = IdOf(p) /\ IdOf(p) # Unique
        /\ \A q \in Ports : Has(q) /\ port[q].phc = port[p].phc =>
             port[q].pc \notin {"undo"} \cup Destroying /\ IdOf(q) # Unique
    BY <1>5, GetUsed
  <2> QED
    BY <2>1, <2>2 DEF PortBecomes, PortHasPhc, IdOK, Alone, Has, ClassOK, Registered, IdOf
<1>6. ASSUME NEW p \in Ports, Create(p) PROVE PortHasPhc' /\ IdOK' /\ ClassOK'
  <2>1. PICK h \in Phcs : /\ id[h] = None /\ id' = [id EXCEPT ![h] = IdOf(p)]
                          /\ class' = Append(class, h) /\ PortBecomes(p, "created", h)
    BY <1>6, StepPort
  <2>2. ClassOK' /\ Registered' = Registered \cup {h}
    BY <2>1, CreateClass
  <2>3. \A q \in Ports : Has(q) => port[q].phc \in Phcs \ {h}
    BY <1>1, <2>1 DEF PortHasPhc, IdOf, Has
  <2>4. id'[h] = IdOf(p) /\ \A g \in Phcs \ {h} : id'[g] = id[g]
    BY <2>1 DEF TypeOK
  <2>5. port[p].pc = "create"
    BY <1>6 DEF Create
  <2> QED
    BY <2>1, <2>2, <2>3, <2>4, <2>5 DEF PortBecomes, PortHasPhc, IdOK, Alone, Has, IdOf
<1>7. ASSUME NEW p \in Ports, Release(p) PROVE PortHasPhc' /\ IdOK' /\ ClassOK'
  <2>1. UNCHANGED <<id, class>> /\ port[p].pc = "release"
    BY <1>7 DEF Release
  <2>2. CASE ref[port[p].phc] = 1
    <3>1. PortBecomes(p, "unregister", port[p].phc)
      BY <1>7, <2>2, ReleasePort
    <3>2. Alone(p)
      BY <2>1, <2>2, LastHolder
    <3> QED
      BY <2>1, <3>1, <3>2
      DEF PortBecomes, PortHasPhc, IdOK, Alone, Has, ClassOK, Registered, IdOf
  <2>3. CASE ref[port[p].phc] # 1
    BY <1>3, <1>7, <2>1, <2>3, ReleasePort
  <2> QED
    BY <2>2, <2>3
<1>8. ASSUME NEW p \in Ports, CreateUndo(p) PROVE PortHasPhc' /\ IdOK' /\ ClassOK'
  <2>1. /\ PortBecomes(p, "undo", port[p].phc) /\ port[p].pc = "created" /\ UNCHANGED id
        /\ Leave(port[p].phc) /\ ref[port[p].phc] = 1
    BY <1>8, StepPort DEF CreateUndo
  <2>2. Alone(p) /\ port[p].phc \in Phcs \cap Registered
    BY <2>1, LastHolder DEF PortHasPhc, Has
  <2>3. ClassOK' /\ Registered' = Registered \ {port[p].phc}
    BY <2>1, <2>2, LeaveClass
  <2> QED
    BY <2>1, <2>2, <2>3 DEF PortBecomes, PortHasPhc, IdOK, Alone, Has, IdOf
<1>9. ASSUME NEW p \in Ports, DestroyUnregister(p) PROVE PortHasPhc' /\ IdOK' /\ ClassOK'
  <2>1. /\ PortBecomes(p, "free", port[p].phc) /\ port[p].pc = "unregister" /\ UNCHANGED id
        /\ Leave(port[p].phc)
    BY <1>9, StepPort DEF DestroyUnregister
  <2>2. Alone(p) /\ port[p].phc \in Phcs \cap Registered
    BY <1>1, <2>1 DEF PortHasPhc, Has
  <2>3. ClassOK' /\ Registered' = Registered \ {port[p].phc}
    BY <2>1, <2>2, LeaveClass
  <2> QED
    BY <2>1, <2>2, <2>3 DEF PortBecomes, PortHasPhc, IdOK, Alone, Has, IdOf
<1>10. ASSUME NEW p \in Ports, DestroyFree(p) PROVE PortHasPhc' /\ IdOK' /\ ClassOK'
  <2>1. /\ PortBecomes(p, "down", None) /\ port[p].pc \in {"free", "undo"} /\ UNCHANGED class
        /\ id' = [id EXCEPT ![port[p].phc] = None]
    BY <1>10, StepPort DEF DestroyFree
  <2>2. Alone(p)
    BY <2>1 DEF PortHasPhc
  <2>3. \A q \in Ports \ {p} : Has(q) => id'[port[q].phc] = id[port[q].phc]
    BY <1>1, <2>1, <2>2 DEF TypeOK, PortHasPhc, Has, Alone
  <2> QED
    BY <2>1, <2>3 DEF PortBecomes, PortHasPhc, IdOK, Alone, Has, ClassOK, Registered, IdOf
<1>11. ASSUME NEW p \in Ports, CreateDone(p) \/ InitDone(p) \/ InitFails(p) \/ Destroy(p)
       PROVE  PortHasPhc' /\ IdOK' /\ ClassOK'
  <2>1. PICK pc \in {"init", "up", "release"} : PortBecomes(p, pc, port[p].phc)
    BY <1>11, StepPort
  <2>2. UNCHANGED <<id, class>> /\ port[p].pc \in {"created", "init", "up"}
    BY <1>11 DEF CreateDone, InitDone, InitFails, Destroy
  <2> QED
    BY <1>2, <2>1, <2>2
<1>12. ASSUME NEW p \in Ports, CreateFails(p) PROVE PortHasPhc' /\ IdOK' /\ ClassOK'
  <2>1. PortBecomes(p, "down", None) /\ UNCHANGED <<id, class>>
    BY <1>12, StepPort DEF CreateFails
  <2> QED
    BY <1>3, <2>1
<1>13. CASE UNCHANGED <<id, class, port>>
  BY <1>13 DEF PortHasPhc, IdOK, Alone, Has, ClassOK, Registered, IdOf
<1>14. CASE UNCHANGED vars \/ \E p \in Ports : Unlink(p) \/ \E q \in Ports : Link(p, q)
  BY <1>13, <1>14 DEF vars, Unlink, Link
<1> QED
  BY <1>4, <1>5, <1>6, <1>7, <1>8, <1>9, <1>10, <1>11, <1>12, <1>14 DEF Next

\* No PHC is left behind.
LEMMA PhcStep ==
  ASSUME TypeOK, Sound, [Next]_vars, ~stale'
  PROVE  PhcOK'
<1> USE DEF Sound, Holding, Destroying
<1>1. ASSUME NEW p \in Ports, NEW pc, NEW phc, PortBecomes(p, pc, phc), UNCHANGED id,
             Registered' \subseteq Registered,
             Has(p) => phc = port[p].phc /\ pc \in Holding \cup Destroying
      PROVE  PhcOK'
  <2>1. \A h \in Phcs : Owners(h) # {} => Owners(h)' # {}
    <3> SUFFICES ASSUME NEW h \in Phcs, NEW q \in Owners(h) PROVE q \in Owners(h)'
      OBVIOUS
    <3> QED
      BY <1>1 DEF PortBecomes, Owners, Has
  <2> QED
    BY <1>1, <2>1 DEF PhcOK
<1>2. ASSUME NEW p \in Ports, Find(p) PROVE PhcOK'
  <2>1. UNCHANGED id /\ Registered' = Registered /\ ~Has(p)
    BY <1>2 DEF Find, Registered, Has
  <2> QED
    BY <1>1, <1>2, <2>1, FindPort
<1>3. ASSUME NEW p \in Ports,
             Get(p) \/ CreateDone(p) \/ InitDone(p) \/ InitFails(p) \/ Destroy(p)
      PROVE  PhcOK'
  <2>1. PICK pc \in {"init", "up", "release"} : PortBecomes(p, pc, port[p].phc)
    BY <1>3, StepPort
  <2>2. UNCHANGED id /\ Registered' = Registered
    BY <1>3 DEF Get, CreateDone, InitDone, InitFails, Destroy, Registered
  <2> QED
    BY <1>1, <2>1, <2>2
<1>4. ASSUME NEW p \in Ports, CreateFails(p) PROVE PhcOK'
  <2>1. PortBecomes(p, "down", None) /\ UNCHANGED id /\ Registered' = Registered /\ ~Has(p)
    BY <1>4, StepPort DEF CreateFails, Registered, Has
  <2> QED
    BY <1>1, <2>1
<1>5. ASSUME NEW p \in Ports, Create(p) PROVE PhcOK'
  <2>1. PICK h \in Phcs : /\ id[h] = None /\ id' = [id EXCEPT ![h] = IdOf(p)]
                          /\ class' = Append(class, h) /\ PortBecomes(p, "created", h)
    BY <1>5, StepPort
  <2>2. Registered' = Registered \cup {h}
    BY <2>1, CreateClass
  <2>3. \A g \in Phcs : id'[g] = IF g = h THEN IdOf(p) ELSE id[g]
    BY <2>1 DEF TypeOK
  <2>4. IdOf(p) # None /\ port[p].pc = "create"
    BY <1>5 DEF Create, IdOf
  <2>5. p \in Owners(h)'
    BY <2>1 DEF PortBecomes, Owners
  <2>6. \A g \in Phcs : Owners(g) # {} => Owners(g)' # {}
    <3> SUFFICES ASSUME NEW g \in Phcs, NEW q \in Owners(g) PROVE q \in Owners(g)'
      OBVIOUS
    <3> QED
      BY <2>1, <2>4 DEF PortBecomes, Owners
  <2> QED
    BY <2>2, <2>3, <2>4, <2>5, <2>6 DEF PhcOK
<1>6. ASSUME NEW p \in Ports, Release(p) PROVE PhcOK'
  <2>1. UNCHANGED id /\ Registered' = Registered /\ port[p].pc = "release"
    BY <1>6 DEF Release, Registered
  <2>2. CASE ref[port[p].phc] = 1
    BY <1>1, <1>6, <2>1, <2>2, ReleasePort
  <2>3. CASE ref[port[p].phc] # 1
    <3>1. PortBecomes(p, "down", None)
      BY <1>6, <2>3, ReleasePort
    <3>2. PICK h \in Phcs : h = port[p].phc
      BY <2>1, LastHolder
    <3>3. PICK q \in Holders(h) : q # p
      BY <2>1, <2>3, <3>2, LastHolder
    <3>4. q \in Ports \ {p} /\ port[q].phc = h /\ port[q].pc \in Holding
      BY <3>3, Zenon DEF Holders
    <3>5. q \in Owners(h)'
      BY <3>1, <3>4 DEF PortBecomes, Owners
    <3>6. \A g \in Phcs \ {h} : Owners(g) # {} => Owners(g)' # {}
      <4> SUFFICES ASSUME NEW g \in Phcs \ {h}, NEW r \in Owners(g) PROVE r \in Owners(g)'
        OBVIOUS
      <4> QED
        BY <3>1, <3>2 DEF PortBecomes, Owners
    <3> QED
      BY <2>1, <3>5, <3>6 DEF PhcOK
  <2> QED
    BY <2>2, <2>3
<1>7. ASSUME NEW p \in Ports, CreateUndo(p) \/ DestroyUnregister(p) PROVE PhcOK'
  <2>1. PICK pc \in {"undo", "free"} : PortBecomes(p, pc, port[p].phc)
    BY <1>7, StepPort
  <2>2. UNCHANGED id /\ Leave(port[p].phc) /\ port[p].pc \in {"created", "unregister"}
    BY <1>7 DEF CreateUndo, DestroyUnregister
  <2>3. port[p].phc \in Phcs \cap Registered
    BY <2>2 DEF PortHasPhc, Has, TypeOK, PortStates
  <2>4. Registered' \subseteq Registered
    BY <2>2, <2>3, LeaveClass
  <2> QED
    BY <1>1, <2>1, <2>2, <2>4
<1>8. ASSUME NEW p \in Ports, DestroyFree(p) PROVE PhcOK'
  <2> DEFINE h == port[p].phc
  <2>1. PortBecomes(p, "down", None) /\ port[p].pc \in {"free", "undo"} /\ UNCHANGED class
    BY <1>8, StepPort DEF DestroyFree
  <2>2. \A g \in Phcs : id'[g] = IF g = h THEN None ELSE id[g]
    BY <1>8 DEF DestroyFree, TypeOK
  <2>3. h \notin Registered /\ Registered' = Registered
    BY <2>1 DEF PortHasPhc, Has, Registered
  <2>4. \A g \in Phcs \ {h} : Owners(g) # {} => Owners(g)' # {}
    <3> SUFFICES ASSUME NEW g \in Phcs \ {h}, NEW q \in Owners(g) PROVE q \in Owners(g)'
      OBVIOUS
    <3> QED
      BY <2>1 DEF PortBecomes, Owners
  <2> QED
    BY <2>2, <2>3, <2>4 DEF PhcOK
<1>9. CASE UNCHANGED <<id, class, port>>
  BY <1>9 DEF PhcOK, Registered, Owners
<1>10. CASE UNCHANGED vars \/ \E p \in Ports : Unlink(p) \/ \E q \in Ports : Link(p, q)
  BY <1>9, <1>10 DEF vars, Unlink, Link
<1> QED
  BY <1>2, <1>3, <1>4, <1>5, <1>6, <1>7, <1>8, <1>10 DEF Next

\* No PHC is made beside another with its id, unless the history says so.
LEMMA OnePerIdStep ==
  ASSUME TypeOK, Sound, OnePerId, [Next]_vars, ~stale', ~doubled'
  PROVE  OnePerId'
<1> USE DEF Sound
<1>1. ASSUME UNCHANGED id, \A h \in Phcs : ref'[h] > 0 => ref[h] > 0 PROVE OnePerId'
  BY <1>1 DEF OnePerId
<1>2. CASE UNCHANGED <<id, ref>>
  BY <1>1, <1>2
<1>3. ASSUME NEW p \in Ports, Get(p) PROVE OnePerId'
  <2>1. UNCHANGED id /\ ref[port[p].phc] > 0
    BY <1>3, GetUsed DEF Get
  <2>2. \A h \in Phcs \ {port[p].phc} : ref'[h] = ref[h]
    BY <1>3 DEF Get, TypeOK
  <2> QED
    BY <1>1, <2>1, <2>2
<1>4. ASSUME NEW p \in Ports, Create(p) PROVE OnePerId'
  <2>1. PICK h \in Phcs : /\ id' = [id EXCEPT ![h] = IdOf(p)]
                          /\ ref' = [ref EXCEPT ![h] = 1]
    BY <1>4 DEF Create
  <2>2. /\ \A g \in Phcs : id'[g] = IF g = h THEN IdOf(p) ELSE id[g]
        /\ \A g \in Phcs \ {h} : ref'[g] = ref[g]
    BY <2>1 DEF TypeOK
  <2>3. IdOf(p) # Unique => \A g \in Phcs : ~(id[g] = IdOf(p) /\ ref[g] > 0)
    BY <1>4, Zenon DEF Create
  <2> QED
    BY <2>2, <2>3 DEF OnePerId
<1>5. ASSUME NEW p \in Ports, Release(p) PROVE OnePerId'
  <2>1. UNCHANGED id
    BY <1>5 DEF Release
  <2>2. ASSUME NEW h \in Phcs, ref'[h] > 0 PROVE ref[h] > 0
    BY <1>5, <2>2 DEF Release, TypeOK
  <2> QED
    BY <1>1, <2>1, <2>2
<1>6. ASSUME NEW p \in Ports, DestroyFree(p) PROVE OnePerId'
  <2>1. \A g \in Phcs : \/ id'[g] = None
                        \/ id'[g] = id[g] /\ ref'[g] = ref[g]
    BY <1>6 DEF DestroyFree, TypeOK
  <2> QED
    BY <2>1 DEF OnePerId
<1>7. ASSUME NEW p \in Ports,
             \/ Find(p) \/ CreateDone(p) \/ CreateUndo(p) \/ CreateFails(p)
             \/ InitDone(p) \/ InitFails(p) \/ Destroy(p) \/ DestroyUnregister(p)
             \/ Unlink(p) \/ \E q \in Ports : Link(p, q)
      PROVE  UNCHANGED <<id, ref>>
  BY <1>7 DEF Find, CreateDone, CreateUndo, CreateFails, InitDone, InitFails, Destroy,
              DestroyUnregister, Unlink, Link
<1>8. CASE UNCHANGED vars
  BY <1>2, <1>8 DEF vars
<1> QED
  BY <1>2, <1>3, <1>4, <1>5, <1>6, <1>7, <1>8 DEF Next

\* The history forgets nothing.
LEMMA HistoryKept ==
  ASSUME TypeOK, [Next]_vars
  PROVE  (stale => stale') /\ (doubled => doubled')
<1>1. ASSUME NEW p \in Ports, Get(p) PROVE (stale => stale') /\ (doubled => doubled')
  BY <1>1, Zenon DEF Get
<1>5. ASSUME NEW p \in Ports, CreateUndo(p) PROVE (stale => stale') /\ (doubled => doubled')
  BY <1>5, Zenon DEF CreateUndo
<1>2. ASSUME NEW p \in Ports, Create(p) PROVE (stale => stale') /\ (doubled => doubled')
  BY <1>2, Zenon DEF Create
<1>3. ASSUME NEW p \in Ports,
             \/ Find(p) \/ CreateDone(p) \/ CreateFails(p) \/ InitDone(p) \/ InitFails(p)
             \/ Destroy(p) \/ Release(p) \/ DestroyUnregister(p) \/ DestroyFree(p)
             \/ Unlink(p) \/ \E q \in Ports : Link(p, q)
      PROVE  UNCHANGED history
  BY <1>3 DEF Find, CreateDone, CreateFails, InitDone, InitFails, Destroy, Release,
              DestroyUnregister, DestroyFree, Unlink, Link
<1>4. CASE UNCHANGED vars
  BY <1>4 DEF vars, history
<1> QED
  BY <1>1, <1>2, <1>3, <1>4, <1>5 DEF Next, history

-----------------------------------------------------------------------------
\* The invariant holds initially ...
LEMMA IInvInit == Init => IInv
<1> SUFFICES ASSUME Init PROVE IInv
  OBVIOUS
<1>1. TypeOK
  BY TypeInit
<1>2. Registered = {} /\ ClassOK
  BY DEF Init, Registered, ClassOK
<1>3. PortHasPhc /\ IdOK /\ PhcOK /\ OnePerId
  BY <1>2 DEF Init, PortHasPhc, IdOK, PhcOK, OnePerId, Down, Has, Holding, Destroying
<1>4. RefOK
  <2>1. \A h \in Phcs : Cardinality(Holders(h)) = 0
    BY NoHolders DEF Init, Down, Holding
  <2> QED
    BY <2>1 DEF RefOK, Init
<1> QED
  BY <1>1, <1>2, <1>3, <1>4 DEF IInv, Sound

\* ... and every step keeps it.
LEMMA IInvStep == IInv /\ [Next]_vars => IInv'
<1> SUFFICES ASSUME IInv, [Next]_vars PROVE IInv'
  OBVIOUS
<1>1. TypeOK /\ TypeOK' /\ (stale => stale') /\ (doubled => doubled')
  BY TypeStep, HistoryKept DEF IInv
<1>2. ASSUME ~stale' PROVE Sound'
  BY <1>1, <1>2, PortHasPhcStep, RefStep, PhcStep DEF IInv, Sound
<1>3. ASSUME ~stale', ~doubled' PROVE OnePerId'
  BY <1>1, <1>3, OnePerIdStep DEF IInv
<1> QED
  BY <1>1, <1>2, <1>3 DEF IInv

\* Until a port takes a reference to a PHC on its way out: a port that is up has a
\* registered PHC of its own id with a reference of its own, every reference is a
\* port's, and a PHC without one goes away, in any order of the steps of ports of
\* different devices (nsim_init_netdevsim, mock_phc_create, mock_phc_release).
THEOREM PhcKept == Spec => []UpHasPhc
<1>1. IInv => UpHasPhc
  <2> SUFFICES ASSUME IInv, ~stale PROVE UpHasPhc
    BY DEF UpHasPhc
  <2>1. ASSUME NEW p \in Ports, port[p].pc = "up"
        PROVE  id[port[p].phc] = IdOf(p) /\ InClass(port[p].phc)
    BY <2>1, RegisteredIs DEF IInv, Sound, PortHasPhc, Has, Holding
  <2> QED
    BY <2>1 DEF IInv, Sound, UpHasPhc, RefOK, PhcOK
<1> QED
  BY <1>1, IInvInit, IInvStep, PTL DEF Spec

\* Two ports that are up have the same PHC exactly when their devices have the
\* same logical clock id and it is not -1, until a PHC is created beside one with
\* its id that is in use (two ports have looked for it at once).
THEOREM PhcSharedById == Spec => []SharedById
<1>1. IInv => SharedById
  <2> SUFFICES ASSUME IInv, ~stale, ~doubled, NEW p \in Ports, NEW q \in Ports, p # q,
                      port[p].pc = "up", port[q].pc = "up"
               PROVE  port[p].phc = port[q].phc <=> IdOf(p) = IdOf(q) /\ IdOf(p) # Unique
    BY DEF SharedById
  <2>1. TypeOK /\ Sound /\ OnePerId
    BY DEF IInv
  <2>2. port[p].pc \in Holding /\ port[q].pc \in Holding
    BY DEF Holding
  <2>3. /\ port[p].phc \in Phcs /\ ref[port[p].phc] > 0 /\ id[port[p].phc] = IdOf(p)
        /\ port[q].phc \in Phcs /\ ref[port[q].phc] > 0 /\ id[port[q].phc] = IdOf(q)
        /\ IdOf(p) # None
    BY <2>1, <2>2, LastHolder DEF Sound, PortHasPhc, Has, IdOf
  <2>4. port[p].phc = port[q].phc => IdOf(p) # Unique
    BY <2>1, <2>2 DEF Sound, IdOK, Alone, Has
  <2>5. IdOf(p) = IdOf(q) /\ IdOf(p) # Unique => port[p].phc = port[q].phc
    BY <2>1, <2>3 DEF OnePerId
  <2> QED
    BY <2>3, <2>4, <2>5
<1> QED
  BY <1>1, IInvInit, IInvStep, PTL DEF Spec
=============================================================================
