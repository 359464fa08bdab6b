------------------------------ MODULE NsimPorts -----------------------------
(***************************************************************************)
(* The PF ports of all devices, netdevsim/netdev.c: the links between them *)
(* (link_device and unlink_device of netdevsim/bus.c) and the PHCs behind  *)
(* them.  nsim_init_netdevsim looks for a PHC with the logical clock id of *)
(* the port's device and takes a reference to it, or creates one; the last *)
(* port to go destroys it (the reference count of ptp/ptp_mock.c).         *)
(*                                                                         *)
(* Ports of one device come and go under its devlink lock.  Nothing keeps  *)
(* ports of different devices apart: new_device and del_device hold the    *)
(* bus list lock, but new_port, del_port and a reload do not, and the      *)
(* lookup of a PHC and the use of what it has found are separate steps.    *)
(* The history variables record the two ways in which that goes wrong.     *)
(***************************************************************************)
EXTENDS Naturals, Sequences, FiniteSets, SequencesExt

CONSTANTS
  Ports,      \* the PF ports
  DeviceOf,   \* the device of each port
  ClkId,      \* the logical clock id each device was created with
  Unique,     \* the logical clock id -1
  Phcs,       \* memory for PHCs
  None

ASSUME NsimPortsAssumption ==
  /\ IsFiniteSet(Ports)
  /\ \A p \in Ports : DeviceOf[p] \in DOMAIN ClkId /\ ClkId[DeviceOf[p]] # None
  /\ None \notin Phcs \cup Ports

VARIABLES
  ref,     \* phc->ref of each PHC, 0 also for one that is freed
  id,      \* phc->logical_clk_id, None for memory that is free
  class,   \* the PHCs registered with ptp_class, oldest first
  port,    \* what each port is doing, and the PHC it has found or holds
  peer,    \* ns->peer of each port
  stale,   \* history: a port has used a PHC that was on its way out, or gone
  doubled  \* history: a PHC was created next to one that ports with its id hold

history == <<stale, doubled>>
vars == <<ref, id, class, port, peer, history>>

Down == [pc |-> "down", phc |-> None]

IdOf(p) == ClkId[DeviceOf[p]]

Busy(p) == port[p].pc \notin {"down", "up"}

\* The devlink lock of p's device is free.
MayStart(p) == \A q \in Ports : Busy(q) => DeviceOf[q] # DeviceOf[p]

\* What a port does while it holds a reference to its PHC, and after it has given
\* back the last one.
Holding    == {"created", "undo", "init", "up", "release"}
Destroying == {"unregister", "free"}

Holders(phc) == {p \in Ports : port[p].phc = phc /\ port[p].pc \in Holding}
Owners(phc)  == {p \in Ports : port[p].phc = phc /\ port[p].pc \in Holding \cup Destroying}

InClass(phc) == \E k \in 1..Len(class) : class[k] = phc

\* ptp_clock_unregister takes the clock out of ptp_class.
Leave(phc) ==
  \/ \E k \in 1..Len(class) : class[k] = phc /\ class' = RemoveAt(class, k)
  \/ ~InClass(phc) /\ UNCHANGED class

-----------------------------------------------------------------------------
(* nsim_init_netdevsim. *)

\* class_find_device: the first registered PHC with the id.
Matches(p) == {k \in 1..Len(class) : id[class[k]] = IdOf(p)}

\* Mutant: an id of -1 is looked for like any other.
FindAnyId(p) ==
  /\ port[p].pc = "down" /\ MayStart(p)
  /\ port' = [port EXCEPT ![p] =
       IF Matches(p) # {}
       THEN [pc |-> "found", phc |-> class[CHOOSE k \in Matches(p) : \A j \in Matches(p) : k <= j]]
       ELSE [pc |-> "create", phc |-> None]]
  /\ UNCHANGED <<ref, id, class, peer, history>>

\* The reference to the found PHC's device is dropped before the PHC is used, so
\* that nothing keeps it until kref_get.
Find(p) ==
  /\ port[p].pc = "down" /\ MayStart(p)
  /\ port' = [port EXCEPT ![p] =
       IF IdOf(p) # Unique /\ Matches(p) # {}
       THEN [pc |-> "found", phc |-> class[CHOOSE k \in Matches(p) : \A j \in Matches(p) : k <= j]]
       ELSE [pc |-> "create", phc |-> None]]
  /\ UNCHANGED <<ref, id, class, peer, history>>

\* Mutant: the found PHC is used without a reference.
GetNoRef(p) ==
  /\ port[p].pc = "found"
  /\ port' = [port EXCEPT ![p].pc = "init"]
  /\ UNCHANGED <<ref, id, class, peer, history>>

\* kref_get, whatever has become of the PHC since it was found.
Get(p) ==
  /\ port[p].pc = "found"
  /\ ref' = [ref EXCEPT ![port[p].phc] = @ + 1]
  /\ port' = [port EXCEPT ![p].pc = "init"]
  /\ stale' = (stale \/ ref[port[p].phc] = 0 \/ id[port[p].phc] # IdOf(p) \/ ~InClass(port[p].phc))
  /\ UNCHANGED <<id, class, peer, doubled>>

\* mock_phc_create, up to ptp_clock_register.
Create(p) ==
  /\ port[p].pc = "create"
  /\ \E phc \in Phcs :
       /\ id[phc] = None
       /\ id' = [id EXCEPT ![phc] = IdOf(p)]
       /\ ref' = [ref EXCEPT ![phc] = 1]
       /\ class' = Append(class, phc)
       /\ port' = [port EXCEPT ![p] = [pc |-> "created", phc |-> phc]]
  /\ doubled' = (doubled \/ (IdOf(p) # Unique /\ \E g \in Phcs : id[g] = IdOf(p) /\ ref[g] > 0))
  /\ UNCHANGED <<peer, stale>>

CreateDone(p) ==
  /\ port[p].pc = "created"
  /\ port' = [port EXCEPT ![p].pc = "init"]
  /\ UNCHANGED <<ref, id, class, peer, history>>

\* The attribute cannot be made: the clock is unregistered again, and the PHC
\* freed, whether or not another port has found it meanwhile.
CreateUndo(p) ==
  /\ port[p].pc = "created"
  /\ Leave(port[p].phc)
  /\ port' = [port EXCEPT ![p].pc = "undo"]
  /\ stale' = (stale \/ ref[port[p].phc] # 1)
  /\ UNCHANGED <<ref, id, peer, doubled>>

\* kzalloc or ptp_clock_register fails.
CreateFails(p) ==
  /\ port[p].pc = "create"
  /\ port' = [port EXCEPT ![p] = Down]
  /\ UNCHANGED <<ref, id, class, peer, history>>

\* The rest of the initialisation, register_netdevice included.
InitDone(p) ==
  /\ port[p].pc = "init"
  /\ port' = [port EXCEPT ![p].pc = "up"]
  /\ UNCHANGED <<ref, id, class, peer, history>>

\* err_phc_destroy.
InitFails(p) ==
  /\ port[p].pc = "init"
  /\ port' = [port EXCEPT ![p].pc = "release"]
  /\ UNCHANGED <<ref, id, class, peer, history>>

-----------------------------------------------------------------------------
(* nsim_destroy and mock_phc_release. *)

\* Mutant: the peer keeps its pointer.
DestroyKeepsPeer(p) ==
  /\ port[p].pc = "up" /\ MayStart(p)
  /\ peer' = [peer EXCEPT ![p] = None]
  /\ port' = [port EXCEPT ![p].pc = "release"]
  /\ UNCHANGED <<ref, id, class, history>>

\* Under the rtnl lock the port leaves its peer and is unregistered.
Destroy(p) ==
  /\ port[p].pc = "up" /\ MayStart(p)
  /\ peer' = [q \in Ports |-> IF q \in {p, peer[p]} THEN None ELSE peer[q]]
  /\ port' = [port EXCEPT ![p].pc = "release"]
  /\ UNCHANGED <<ref, id, class, history>>

\* kref_put: the last reference starts mock_phc_destroy; one too many only warns.
Release(p) ==
  /\ port[p].pc = "release"
  /\ ref' = [ref EXCEPT ![port[p].phc] = IF @ = 0 THEN 0 ELSE @ - 1]
  /\ port' = [port EXCEPT ![p] = IF ref[port[p].phc] = 1 THEN [@ EXCEPT !.pc = "unregister"]
                                                         ELSE Down]
  /\ UNCHANGED <<id, class, peer, history>>

\* mock_phc_destroy unregisters the clock ...
DestroyUnregister(p) ==
  /\ port[p].pc = "unregister"
  /\ Leave(port[p].phc)
  /\ port' = [port EXCEPT ![p].pc = "free"]
  /\ UNCHANGED <<ref, id, peer, history>>

\* ... and then the PHC is freed.
DestroyFree(p) ==
  /\ port[p].pc \in {"free", "undo"}
  /\ id' = [id EXCEPT ![port[p].phc] = None]
  /\ ref' = [ref EXCEPT ![port[p].phc] = 0]
  /\ port' = [port EXCEPT ![p] = Down]
  /\ UNCHANGED <<class, peer, history>>

-----------------------------------------------------------------------------
(* link_device_store and unlink_device_store, under the rtnl lock. *)

Link(p, q) ==
  /\ port[p].pc = "up" /\ port[q].pc = "up" /\ p # q
  /\ peer[p] = None /\ peer[q] = None
  /\ peer' = [peer EXCEPT ![p] = q, ![q] = p]
  /\ UNCHANGED <<ref, id, class, port, history>>

Unlink(p) ==
  /\ port[p].pc = "up" /\ peer[p] # None
  /\ peer' = [peer EXCEPT ![p] = None, ![peer[p]] = None]
  /\ UNCHANGED <<ref, id, class, port, history>>

-----------------------------------------------------------------------------
Init ==
  /\ ref = [phc \in Phcs |-> 0]
  /\ id = [phc \in Phcs |-> None]
  /\ class = <<>>
  /\ port = [p \in Ports |-> Down]
  /\ peer = [p \in Ports |-> None]
  /\ stale = FALSE /\ doubled = FALSE

Next ==
  \E p \in Ports :
    \/ Find(p) \/ Get(p) \/ Create(p) \/ CreateDone(p) \/ CreateUndo(p) \/ CreateFails(p)
    \/ InitDone(p) \/ InitFails(p)
    \/ Destroy(p) \/ Release(p) \/ DestroyUnregister(p) \/ DestroyFree(p)
    \/ Unlink(p) \/ \E q \in Ports : Link(p, q)

Spec == Init /\ [][Next]_vars

-----------------------------------------------------------------------------
(* Properties. *)

\* A port that is up has a PHC that is allocated, registered and kept by a
\* reference: what nsim_get_ts_info and the port's destruction rely on ("We're
\* sharing a PTP clock, so we need to increment the reference count").  The count
\* is the number of ports that hold the PHC, on all paths of the initialisation,
\* and a PHC nobody holds goes away.  All that until a port takes a reference to a
\* PHC whose last port went between the lookup and kref_get, or whose creation is
\* undone.
UpHasPhc ==
  ~stale =>
    /\ \A p \in Ports : port[p].pc = "up" => id[port[p].phc] = IdOf(p) /\ InClass(port[p].phc)
    /\ \A phc \in Phcs :
         /\ ref[phc] = Cardinality(Holders(phc))
         /\ id[phc] # None => Owners(phc) # {}

\* "Both ports should share the same PHC": ports with one logical clock id do,
\* and those with different ids, or with the id -1, do not; also until two ports
\* have found no PHC with their id and each has created one.
SharedById ==
  ~stale /\ ~doubled =>
    \A p, q \in Ports :
      (p # q /\ port[p].pc = "up" /\ port[q].pc = "up") =>
        (port[p].phc = port[q].phc <=> IdOf(p) = IdOf(q) /\ IdOf(p) # Unique)

\* Links are mutual and join ports that are there: nsim_start_xmit hands a
\* packet to ns->peer without a further test (link_device_store,
\* unlink_device_store and nsim_destroy keep both pointers).
PeersMutual ==
  \A p \in Ports : peer[p] # None =>
    /\ peer[p] # p /\ peer[peer[p]] = p
    /\ port[p].pc = "up" /\ port[peer[p]].pc = "up"
=============================================================================
