---------------------------- MODULE DpllNetlink -----------------------------
(***************************************************************************)
(* The netlink side of the DPLL subsystem, dpll/dpll_netlink.c, on top of  *)
(* the objects of module DpllCore: dumps of devices and pins, requests     *)
(* that set a value of a pin on all its devices, and what a request for    *)
(* one device or pin gets hold of.                                         *)
(*                                                                         *)
(* A request runs under dpll_lock and is one step; one with several        *)
(* attributes is several such steps without others between them.  A dump   *)
(* takes the lock once for every message it fills.                         *)
(***************************************************************************)
EXTENDS DpllCore

CONSTANTS
  ObjId,      \* the ids of devices and of pins, in the two xarrays
  Settable,   \* the pins whose values are set
  Values,     \* frequencies or phase adjustments that are supported
  Default,    \* the value a pin starts with
  Fits        \* how many objects a message of a dump holds at least

ASSUME DpllNetlinkAssumption ==
  /\ ObjId \in [Devices \cup AllPins -> Nat] /\ Devices \cap AllPins = {}
  /\ IsFiniteSet(Devices) /\ IsFiniteSet(Children)
  /\ Settable \subseteq Pins /\ Default \in Values /\ Fits \in Nat

VARIABLES
  dump,    \* a dump under way, or the outcome of the last one
  values,  \* the value each device has for a settable pin
  broken   \* history: a value could not be rolled back

nlVars == <<dump, values, broken>>

ById(S) == CHOOSE x \in S : \A y \in S : ObjId[x] <= ObjId[y]

-----------------------------------------------------------------------------
(* What a request finds. *)

\* dpll_pin_available: marked, and on a marked device or parent.
Available(p) ==
  /\ p \in pinMark
  /\ \/ \E q \in Pins : parent_refs[p][q].cnt > 0 /\ q \in pinMark
     \/ \E d \in DevicesOf(p) : d \in devMark

\* What a dump goes over.
Listed(kind) == CASE kind = "device" -> devMark
                  [] kind = "pin"    -> {p \in AllPins : Available(p)}
                  [] OTHER           -> {}

\* The owner whose ops and priv are used: the first to have registered.
OpsOwner(ref) == ref.regs[1].owner

\* dpll_priv, for a call about a pin on device d.
PrivOwner(d) == devRegs[d][1]

-----------------------------------------------------------------------------
(* Dumps. *)

NoDump == [kind |-> "none", idx |-> 0, sent |-> {}, stayed |-> {}, missed |-> {}, twice |-> {}]

DumpStart(kind) ==
  /\ dump.kind = "none"
  /\ ~broken /\ \A p \in Settable, d \in Devices : values[p][d] = Default  \* bound: dumps and sets apart
  /\ dump' = [NoDump EXCEPT !.kind = kind, !.stayed = Listed(kind)]
  /\ UNCHANGED <<vars, values, broken>>

\* Mutant: the object that did not fit is skipped.
ResumeAfter(x) == ObjId[x] + 1

\* ctx->idx of the next message: the object that did not fit.
Resume(x) == ObjId[x]

\* One message.  Objects are added in the order of their ids until one does not
\* fit.  A message that is full before the first object ends the dump: skb->len
\* is 0.
DumpMessage ==
  /\ dump.kind # "none"
  /\ LET todo == {x \in Listed(dump.kind) : ObjId[x] >= dump.idx} IN
       \E n \in 0..Cardinality(todo) :
         LET part == {x \in todo : Cardinality({y \in todo : ObjId[y] < ObjId[x]}) < n}
             rest == todo \ part
             sent == dump.sent \cup part
         IN /\ rest # {} => n >= Fits
            /\ dump' = IF rest = {} \/ n = 0
                       THEN [NoDump EXCEPT !.missed = dump.stayed \ sent,
                                           !.twice = dump.twice \cup (dump.sent \cap part)]
                       ELSE [dump EXCEPT !.idx = Resume(ById(rest)), !.sent = sent,
                                         !.twice = @ \cup (dump.sent \cap part)]
  /\ UNCHANGED <<vars, values, broken>>

\* A callback of a driver fails: the dump ends with its error.
DumpFails ==
  /\ dump.kind # "none" /\ Listed(dump.kind) # {}
  /\ dump' = NoDump
  /\ UNCHANGED <<vars, values, broken>>

-----------------------------------------------------------------------------
(* Values set on all devices of a pin: dpll_pin_freq_set and, in the same  *)
(* way, dpll_pin_phase_adj_set.                                            *)

\* Mutant: a failed set is not undone.
RollbackForgotten(val, done, old) == val

\* The devices before the one that failed get the first device's old value.
Rollback(val, done, old) == [d \in Devices |-> IF d \in done THEN old ELSE val[d]]

SetOnAll(p, v) ==
  LET ds    == DevicesOf(p)
      old   == values[p][ById(ds)]
      Until(f) == {d \in ds : ObjId[d] < ObjId[f]}
      With(S)  == [d \in Devices |-> IF d \in S THEN v ELSE values[p][d]]
  IN
  /\ dump.kind = "none" /\ ~broken  \* bound: dumps and sets apart, no set after a failed rollback
  /\ Available(p) /\ ds # {} /\ v # old
  /\ \/ /\ values' = [values EXCEPT ![p] = With(ds)]
        /\ UNCHANGED broken
     \/ \E failed \in ds : \E kept \in SUBSET Until(failed) :
          /\ values' = [values EXCEPT ![p] = Rollback(With(Until(failed)), Until(failed) \ kept, old)]
          /\ broken' = (broken \/ kept # {})
  /\ UNCHANGED <<vars, dump>>

-----------------------------------------------------------------------------
(* The owners' calls go on between requests and between the messages of a  *)
(* dump.  A pin has the value it has when it gets another device.          *)

CoreStep ==
  /\ Next
  /\ dump' = [dump EXCEPT !.stayed = @ \cap (Listed("device") \cup Listed("pin"))']
  /\ values' = [p \in Settable |-> [d \in Devices |->
                  IF dpll_refs'[p][d].cnt = 0 THEN Default
                  ELSE IF d \in DevicesOf(p) \/ DevicesOf(p) = {} THEN values[p][d]
                  ELSE values[p][ById(DevicesOf(p))]]]
  /\ UNCHANGED broken

NlInit ==
  /\ Init
  /\ dump = NoDump
  /\ values = [p \in Settable |-> [d \in Devices |-> Default]]
  /\ broken = FALSE

NlNext ==
  \/ CoreStep
  \/ \E kind \in {"device", "pin"} : DumpStart(kind)
  \/ DumpMessage \/ DumpFails
  \/ \E p \in Settable, v \in Values : SetOnAll(p, v)

NlSpec == NlInit /\ [][NlNext]_<<vars, nlVars>>

-----------------------------------------------------------------------------
(* Properties. *)

\* A dump that ends without an error has reported every device, or every
\* available pin, that was there from its first to its last message, and none
\* twice, whatever came and went between the messages (dpll_nl_pin_get_dumpit,
\* dpll_nl_device_get_dumpit).
DumpExact == dump.missed = {} /\ dump.twice = {}

\* The devices of a pin that agree on its value go on agreeing through sets that
\* succeed, fail at any device and are rolled back, and through registrations in
\* between, as long as no rollback fails: the early return for a value the first
\* device has already, and the one old value of the rollback, rely on it.
DevicesAgree ==
  ~broken => \A p \in Settable : \A d, e \in DevicesOf(p) : values[p][d] = values[p][e]

\* Whatever a request for an available pin calls is there: the pin has a first
\* device; each of its references to devices and parents has a registration of an
\* owner that has not withdrawn it; each of its devices, marked or not, has an
\* owner whose private data is passed along; and a parent is on the pin's first
\* device, so that its own private data is found (dpll_cmd_pin_get_one,
\* dpll_msg_add_pin_parents, dpll_pin_state_set, dpll_pin_on_pin_state_set).
CallsReachOwners ==
  \A p \in AllPins : Available(p) =>
    /\ DevicesOf(p) # {}
    /\ \A d \in DevicesOf(p) :
         /\ dpll_refs[p][d].regs # <<>> /\ p \in own[OpsOwner(dpll_refs[p][d])].pin
         /\ devRegs[d] # <<>> /\ d \in own[PrivOwner(d)].devReg
    /\ \A q \in Pins : parent_refs[p][q].cnt > 0 =>
         /\ parent_refs[p][q].regs # <<>>
         /\ <<q, p>> \in own[OpsOwner(parent_refs[p][q])].onPin
         /\ pin_refs[ById(DevicesOf(p))][q].cnt > 0
=============================================================================
