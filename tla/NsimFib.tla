------------------------------- MODULE NsimFib ------------------------------
(***************************************************************************)
(* The route offload of a device, netdevsim/fib.c: the notifier that       *)
(* accounts for a route and queues an event, the work that carries the     *)
(* events out on the table of offloaded routes, the flush work, and        *)
(* creation, with the dump of the kernel's routes, and destruction.        *)
(*                                                                         *)
(* The kernel's routing tables are external: the route of a prefix is a    *)
(* set, one fib_info for IPv4, for IPv6 one fib6_info per nexthop, which   *)
(* are siblings.  What changes a route calls the registered notifier.      *)
(***************************************************************************)
EXTENDS Integers, Sequences, FiniteSets

CONSTANTS
  Prefixes4, Prefixes6, \* keys of routes
  Infos4,     \* fib_info of IPv4 routes
  Infos6,     \* fib6_info of IPv6 routes
  None,
  FibMax,     \* the size of the FIB resource of either family
  MaxPaths,   \* bound: nexthops added to a route at a time
  MaxQueue,   \* bound: events queued and not yet carried out
  MaxRetries, \* FIB_DUMP_MAX_RETRIES
  MaxFailed   \* bound: kinds of failure that happen in one lifetime of the device

ASSUME NsimFibAssumption ==
  /\ Prefixes4 \cap Prefixes6 = {} /\ Infos4 \cap Infos6 = {}
  /\ \A S \in SUBSET (Infos4 \cup Infos6) : S # None
  /\ IsFiniteSet(Prefixes4 \cup Prefixes6) /\ IsFiniteSet(Infos4 \cup Infos6)
  /\ FibMax \in Nat /\ MaxRetries \in Nat \ {0} /\ MaxFailed \in Nat

VARIABLES
  kernel,   \* the kernel's routes, {} for none
  hwflag,   \* the offload flag of each, "none", "trap" or "failed"
  phase,    \* where creation and destruction are
  dump,     \* [todo, changed, tries]: register_fib_notifier
  num,      \* ipv4.fib.num and ipv6.fib.num
  queue,    \* fib_event_queue
  ev,       \* fib_event_work: [pc, pending, batch]
  flush,    \* fib_flush_work: [pc, pending]
  table,    \* fib_rt_ht and fib_rt_list: None, or the nexthops of the entry
  failed    \* history: the kinds of failure since creation: "new route", "replacement",
            \* "dump", "append" (of an offload), "insertion" (into fib_rt_ht), "delete",
            \* and what the accounting misses: "sibling" (deleted), "veto"

kernelVars == <<kernel, hwflag>>
fibVars    == <<kernelVars, phase, dump, num, queue, ev, flush, table, failed>>

Registered == phase \in {"check", "live"}

EventWorkDone == ev.pc = "idle" /\ ~ev.pending

FlushWorkDone == flush.pc = "idle" /\ ~flush.pending

\* The bounds on events and failures.
Outstanding == Len(queue) + Len(ev.batch)

MayFail(f) == Cardinality(failed \cup {f}) <= MaxFailed

Prefixes == Prefixes4 \cup Prefixes6

Families == {"ipv4", "ipv6"}

Family(p) == IF p \in Prefixes4 THEN "ipv4" ELSE "ipv6"

PrefixesOf(f) == {p \in Prefixes : Family(p) = f}

InfosOf(p) == IF p \in Prefixes4 THEN Infos4 ELSE Infos6

\* nsim_fib_account: atomic64_add_unless, whose guard is the caller's, and
\* atomic64_dec_if_positive.
Account(p) == [num EXCEPT ![Family(p)] = @ + 1]

Unaccount(p, n) == [num EXCEPT ![Family(p)] = IF @ > n THEN @ - n ELSE 0]

\* fib_alias_hw_flags_set finds an IPv4 route by prefix and fib_info; the flags
\* of IPv6 are in the fib6_info, which matter while it is the kernel's.
FlagSet(h, p, S, f) ==
  [h EXCEPT ![p] = [i \in InfosOf(p) |-> IF i \in S \cap kernel[p] THEN f ELSE h[p][i]]]

\* fib_seq, which matters while it is compared.
Changed == dump' = [dump EXCEPT !.changed = phase \in {"dump", "check"}]

-----------------------------------------------------------------------------
(* nsim_fib_event_nb, called by the kernel when a route changes. *)

\* Mutant: a running work is taken to see the event.
ScheduleEventIfIdle(e) ==
  /\ queue' = Append(queue, e)
  /\ ev' = [ev EXCEPT !.pending = @ \/ ev.pc = "idle"]

\* list_add_tail and schedule_work.
ScheduleEvent(e) ==
  /\ queue' = Append(queue, e)
  /\ ev' = [ev EXCEPT !.pending = TRUE]

\* nsim_fib6_event_init takes the route and its siblings along.
Event(kind, p, S) == [kind |-> kind, prefix |-> p, infos |-> S]

\* A fib6_info is allocated for each nexthop, and held by events and entries.
Fresh(p) ==
  LET events == queue \o ev.batch IN
  Infos6 \ (kernel[p] \cup (IF table[p] = None THEN {} ELSE table[p])
            \cup UNION {events[n].infos : n \in {m \in DOMAIN events : events[m].prefix = p}})

Additions(p) == {S \in SUBSET Fresh(p) : Cardinality(S) \in 1..MaxPaths}

Routes(p) == IF p \in Prefixes4 THEN {{i} : i \in Infos4 \ kernel[p]} ELSE Additions(p)

\* The kernel's route of p becomes S; flags stay with what stays.
KernelSet(p, S) ==
  /\ kernel' = [kernel EXCEPT ![p] = S]
  /\ hwflag' = [hwflag EXCEPT ![p] = [i \in InfosOf(p) |-> IF i \in kernel[p] \cap S THEN @[i] ELSE "none"]]
  /\ Changed

\* The bound on the events, for what the notifier hears of.
Notifiable == Registered => Outstanding < MaxQueue

\* FIB_EVENT_ENTRY_REPLACE; at the limit the route is refused and not installed.
RouteReplace(p) ==
  /\ Notifiable /\ (Registered => num[Family(p)] # FibMax)
  /\ \E S \in Routes(p) :
       /\ KernelSet(p, S)
       /\ IF Registered
            THEN num' = Account(p) /\ ScheduleEvent(Event("replace", p, S))
            ELSE UNCHANGED <<num, queue, ev>>
  /\ UNCHANGED <<phase, flush, table, failed>>

\* FIB_EVENT_ENTRY_APPEND, which is not accounted for: the entry is.
RouteAppend(p) ==
  /\ Notifiable /\ p \in Prefixes6 /\ kernel[p] # {}
  /\ \E S \in Additions(p) :
       /\ KernelSet(p, kernel[p] \cup S)
       /\ IF Registered THEN ScheduleEvent(Event("append", p, S)) ELSE UNCHANGED <<queue, ev>>
  /\ UNCHANGED <<phase, num, flush, table, failed>>

\* "Multipath routes are first added to the FIB trie and only then notified."  At
\* the limit, or without memory for the event, the kernel deletes them again, one by
\* one: notifications for routes that were not accounted for.  What they were to
\* replace is gone, what they were to be appended to is not.  Shown for two.
RouteVeto(p) ==
  /\ Registered /\ MayFail("veto") /\ Outstanding + 2 <= MaxQueue
  /\ p \in Prefixes6
  /\ KernelSet(p, {}) \/ (kernel[p] # {} /\ KernelSet(p, kernel[p]))
  /\ \E i, j \in Fresh(p) :
       /\ i # j
       /\ queue' = queue \o <<Event("del", p, {i}), Event("del", p, {j})>>
       /\ ev' = [ev EXCEPT !.pending = TRUE]
  /\ num' = Unaccount(p, 2)
  /\ failed' = failed \cup {"veto"}
  /\ UNCHANGED <<phase, flush, table>>

\* The kernel deletes a route or, of IPv6, one of several siblings.
Deletable(p, S) ==
  /\ S # {} /\ S \subseteq kernel[p]
  /\ S = kernel[p] \/ Cardinality(S) = 1

\* FIB_EVENT_ENTRY_DEL, accounted for also when siblings are left.
RouteDel(p, S) ==
  /\ Notifiable /\ Deletable(p, S)
  /\ KernelSet(p, kernel[p] \ S)
  /\ IF Registered
       THEN /\ num' = Unaccount(p, 1) /\ ScheduleEvent(Event("del", p, S))
            /\ \/ S = kernel[p] /\ UNCHANGED failed
               \/ S # kernel[p] /\ MayFail("sibling") /\ failed' = failed \cup {"sibling"}
       ELSE UNCHANGED <<num, queue, ev, failed>>
  /\ UNCHANGED <<phase, flush, table>>

\* Mutant: nothing makes up for the event that was lost.
RouteDelFailsSilently(p, S) ==
  /\ Registered /\ MayFail("delete") /\ Deletable(p, S)
  /\ KernelSet(p, kernel[p] \ S)
  /\ failed' = failed \cup {"delete"}
  /\ UNCHANGED <<phase, num, queue, ev, flush, table>>

\* The deletion is refused or there is no memory for the event: the route goes
\* all the same, and the flush work is scheduled.
RouteDelFails(p, S) ==
  /\ Registered /\ MayFail("delete") /\ Deletable(p, S)
  /\ KernelSet(p, kernel[p] \ S)
  /\ flush' = [flush EXCEPT !.pending = TRUE]
  /\ failed' = failed \cup {"delete"}
  /\ UNCHANGED <<phase, num, queue, ev, table>>

-----------------------------------------------------------------------------
(* nsim_fib_event_work. *)

WorkSplice ==
  /\ ev.pc = "idle" /\ ev.pending
  /\ ev' = [pc |-> "spliced", pending |-> FALSE, batch |-> queue]
  /\ queue' = <<>>
  /\ flush' = [flush EXCEPT !.pc = IF @ = "wait pending" THEN "wait running" ELSE @]
  /\ UNCHANGED <<kernelVars, phase, dump, num, table, failed>>

WorkLock ==
  /\ ev.pc = "spliced"
  /\ ev' = [ev EXCEPT !.pc = "locked"]
  /\ UNCHANGED <<kernelVars, phase, dump, num, queue, flush, table, failed>>

Taking(kind) == ev.pc = "locked" /\ ev.batch # <<>> /\ Head(ev.batch).kind = kind

NextEvent == ev' = [ev EXCEPT !.batch = Tail(@)]

\* nsim_fib4_rt_add and nsim_fib6_rt_add: "Simulate hardware programming latency"
\* is no step.
WorkAdd ==
  LET e == Head(ev.batch) IN
  /\ Taking("replace") /\ table[e.prefix] = None
  /\ table' = [table EXCEPT ![e.prefix] = e.infos]
  /\ hwflag' = FlagSet(hwflag, e.prefix, e.infos, "trap")
  /\ NextEvent
  /\ UNCHANGED <<kernel, phase, dump, num, queue, flush, failed>>

\* The new route is marked, then the mark of the old one is taken away, which for
\* IPv4 may be the same.
ReplaceEntry(e) ==
  /\ table' = [table EXCEPT ![e.prefix] = e.infos]
  /\ hwflag' = FlagSet(FlagSet(hwflag, e.prefix, e.infos, "trap"), e.prefix, table[e.prefix], "none")

\* Mutant: the accounting of the notification is kept.
WorkReplaceCounted ==
  /\ Taking("replace") /\ table[Head(ev.batch).prefix] # None
  /\ ReplaceEntry(Head(ev.batch))
  /\ NextEvent
  /\ UNCHANGED <<kernel, phase, dump, num, queue, flush, failed>>

\* nsim_fib4_rt_replace, nsim_fib6_rt_replace.
WorkReplace ==
  /\ Taking("replace") /\ table[Head(ev.batch).prefix] # None
  /\ num' = Unaccount(Head(ev.batch).prefix, 1)
  /\ ReplaceEntry(Head(ev.batch))
  /\ NextEvent
  /\ UNCHANGED <<kernel, phase, dump, queue, flush, failed>>

\* nsim_fib4_rt_insert and nsim_fib6_rt_insert fail alike; which failure this is.
InsertFailures(new) ==
  {IF phase \in {"dump", "check", "inconsistent"} THEN "dump"
   ELSE IF new THEN "new route" ELSE "replacement", "insertion"}

\* fail_route_offload, no memory, or the hash table refuses the route: only the
\* last undoes the accounting.
WorkInsertFails ==
  LET e == Head(ev.batch) IN
  /\ Taking("replace")
  /\ \E f \in InsertFailures(table[e.prefix] = None) :
       /\ MayFail(f)
       /\ num' = IF f = "insertion" THEN Unaccount(e.prefix, 1) ELSE num
       /\ failed' = failed \cup {f}
  /\ hwflag' = FlagSet(hwflag, e.prefix, e.infos, "failed")
  /\ NextEvent
  /\ UNCHANGED <<kernel, phase, dump, queue, flush, table>>

\* nsim_fib6_rt_append.
WorkAppend ==
  LET e == Head(ev.batch) IN
  /\ Taking("append") /\ table[e.prefix] # None
  /\ table' = [table EXCEPT ![e.prefix] = @ \cup e.infos]
  /\ hwflag' = FlagSet(hwflag, e.prefix, e.infos, "trap")
  /\ NextEvent
  /\ UNCHANGED <<kernel, phase, dump, num, queue, flush, failed>>

\* There is no entry, or it fails as an insertion does: what it added is taken back.
WorkAppendFails ==
  LET e == Head(ev.batch) IN
  /\ Taking("append")
  /\ \/ table[e.prefix] = None /\ UNCHANGED failed
     \/ table[e.prefix] # None /\ MayFail("append") /\ failed' = failed \cup {"append"}
  /\ hwflag' = FlagSet(hwflag, e.prefix, e.infos, "failed")
  /\ NextEvent
  /\ UNCHANGED <<kernel, phase, dump, num, queue, flush, table>>

\* nsim_fib4_rt_remove looks for the prefix only.
WorkDel4 ==
  LET e == Head(ev.batch) IN
  /\ Taking("del") /\ e.prefix \in Prefixes4
  /\ table' = [table EXCEPT ![e.prefix] = None]
  /\ NextEvent
  /\ UNCHANGED <<kernelVars, phase, dump, num, queue, flush, failed>>

\* nsim_fib6_rt_remove: "If not all the nexthops are deleted, then only reduce the
\* nexthop group."  It tells by their number.
WorkDel6 ==
  LET e == Head(ev.batch)
      t == table[e.prefix]
      reduced == t # None /\ Cardinality(e.infos) # Cardinality(t)
  IN
  /\ Taking("del") /\ e.prefix \in Prefixes6
  /\ table' = [table EXCEPT ![e.prefix] = IF reduced THEN t \ e.infos ELSE None]
  /\ NextEvent
  /\ UNCHANGED <<kernelVars, phase, dump, num, queue, flush, failed>>

WorkEnd ==
  /\ ev.pc = "locked" /\ ev.batch = <<>>
  /\ ev' = [ev EXCEPT !.pc = "idle"]
  /\ flush' = [flush EXCEPT !.pc = IF @ = "wait running" THEN "ready" ELSE @]
  /\ UNCHANGED <<kernelVars, phase, dump, num, queue, table, failed>>

-----------------------------------------------------------------------------
(* nsim_fib_rt_free for every route of the table. *)

FreeTable ==
  LET entries(f) == Cardinality({p \in PrefixesOf(f) : table[p] # None}) IN
  /\ hwflag' = [p \in Prefixes |-> [i \in InfosOf(p) |->
                 IF table[p] # None /\ i \in table[p] THEN "none" ELSE hwflag[p][i]]]
  /\ num' = [f \in Families |-> IF num[f] > entries(f) THEN num[f] - entries(f) ELSE 0]
  /\ table' = [p \in Prefixes |-> None]

\* nsim_fib_flush_work begins with flush_work, which waits for the event work
\* that is pending now, or else running.
FlushBegin ==
  /\ flush.pc = "idle" /\ flush.pending
  /\ flush' = [pending |-> FALSE,
               pc |-> CASE ev.pending -> "wait pending"
                        [] ~ev.pending /\ ev.pc # "idle" -> "wait running"
                        [] OTHER -> "ready"]
  /\ UNCHANGED <<kernelVars, phase, dump, num, queue, ev, table, failed>>

\* Under fib_lock.
FlushTable ==
  /\ flush.pc = "ready" /\ ev.pc # "locked"
  /\ FreeTable
  /\ flush' = [flush EXCEPT !.pc = "idle"]
  /\ UNCHANGED <<kernel, phase, dump, queue, ev, failed>>

-----------------------------------------------------------------------------
(* nsim_fib_create: register_fib_notifier dumps the kernel's routes and    *)
(* tries again when they have changed since it began.                      *)

\* The locals of register_fib_notifier when it is not running.
NoDump == [todo |-> {}, changed |-> FALSE, tries |-> 0]

CreateBegin ==
  /\ phase = "gone"
  /\ phase' = "dump"
  /\ dump' = [todo |-> {p \in Prefixes : kernel[p] # {}}, changed |-> FALSE, tries |-> 1]
  /\ num' = [f \in Families |-> 0] /\ failed' = {}
  /\ UNCHANGED <<kernelVars, queue, ev, flush, table>>

\* The dump meets p, which may have gone or changed.
DumpEntry(p) ==
  /\ phase = "dump" /\ p \in dump.todo
  /\ \/ kernel[p] = {} /\ dump' = [dump EXCEPT !.todo = @ \ {p}] /\ UNCHANGED <<phase, num, queue, ev>>
     \/ /\ kernel[p] # {} /\ num[Family(p)] = FibMax
        /\ phase' = "cancel" /\ dump' = NoDump
        /\ UNCHANGED <<num, queue, ev>>
     \/ /\ kernel[p] # {} /\ num[Family(p)] # FibMax
        /\ dump' = [dump EXCEPT !.todo = @ \ {p}]
        /\ num' = Account(p) /\ ScheduleEvent(Event("replace", p, kernel[p]))
        /\ UNCHANGED phase
  /\ UNCHANGED <<kernelVars, flush, table, failed>>

\* The notifier is registered before the dump is known to be consistent.
DumpRegister ==
  /\ phase = "dump" /\ dump.todo = {}
  /\ phase' = "check"
  /\ UNCHANGED <<kernelVars, dump, num, queue, ev, flush, table, failed>>

DumpCheck ==
  /\ phase = "check"
  /\ \/ dump.changed /\ phase' = "inconsistent" /\ UNCHANGED dump
     \/ ~dump.changed /\ phase' = "live" /\ dump' = NoDump
  /\ UNCHANGED <<kernelVars, num, queue, ev, flush, table, failed>>

\* nsim_fib_dump_inconsistent, with the notifier unregistered again.
DumpInconsistent ==
  /\ phase = "inconsistent" /\ EventWorkDone
  /\ FreeTable
  /\ IF dump.tries < MaxRetries
       THEN /\ phase' = "dump"
            /\ dump' = [todo |-> {p \in Prefixes : kernel[p] # {}}, changed |-> FALSE, tries |-> dump.tries + 1]
       ELSE phase' = "cancel" /\ dump' = NoDump
  /\ UNCHANGED <<kernel, queue, ev, flush, failed>>

-----------------------------------------------------------------------------
(* nsim_fib_destroy, and the error path of nsim_fib_create from "cancel" on. *)

DestroyUnregister ==
  /\ phase = "live"
  /\ phase' = "cancel"
  /\ UNCHANGED <<kernelVars, dump, num, queue, ev, flush, table, failed>>

\* cancel_work_sync waits for a flush that runs.
DestroyCancel ==
  /\ phase = "cancel" /\ flush.pc = "idle"
  /\ flush' = [flush EXCEPT !.pending = FALSE]
  /\ phase' = "drain"
  /\ UNCHANGED <<kernelVars, dump, num, queue, ev, table, failed>>

\* After flush_work the tables are destroyed.
DestroyFree ==
  /\ phase = "drain" /\ EventWorkDone
  /\ FreeTable
  /\ phase' = "gone"
  /\ UNCHANGED <<kernel, dump, queue, ev, flush, failed>>

-----------------------------------------------------------------------------
FibInit ==
  /\ kernel = [p \in Prefixes |-> {}] /\ hwflag = [p \in Prefixes |-> [i \in InfosOf(p) |-> "none"]]
  /\ phase = "gone" /\ dump = NoDump
  /\ num = [f \in Families |-> 0] /\ queue = <<>> /\ ev = [pc |-> "idle", pending |-> FALSE, batch |-> <<>>]
  /\ flush = [pc |-> "idle", pending |-> FALSE] /\ table = [p \in Prefixes |-> None]
  /\ failed = {}

FibNext ==
  \/ \E p \in Prefixes : RouteReplace(p) \/ RouteAppend(p) \/ RouteVeto(p) \/ DumpEntry(p)
  \/ \E p \in Prefixes : \E S \in SUBSET kernel[p] : RouteDel(p, S) \/ RouteDelFails(p, S)
  \/ WorkSplice \/ WorkLock \/ WorkAdd \/ WorkReplace \/ WorkInsertFails
  \/ WorkAppend \/ WorkAppendFails \/ WorkDel4 \/ WorkDel6 \/ WorkEnd
  \/ FlushBegin \/ FlushTable
  \/ CreateBegin \/ DumpRegister \/ DumpCheck \/ DumpInconsistent
  \/ DestroyUnregister \/ DestroyCancel \/ DestroyFree

FibSpec == FibInit /\ [][FibNext]_fibVars

-----------------------------------------------------------------------------
(* Properties. *)

\* A device in use with no event or work outstanding.
Settled == phase = "live" /\ queue = <<>> /\ EventWorkDone /\ FlushWorkDone

\* The occupancy shown to the user is the number of the kernel's routes, a route
\* with several nexthops being one ("We consider a multipath IPv6 route as one
\* entry"), although it is counted before the event is carried out and a replacement
\* gives it back, as long as nothing has failed and no single sibling was deleted.
\* A replacement for which offload failed or memory was short may leave it too large
\* but never too small, so the limit is kept.  Destruction leaves no event, work or route: the warnings about
\* fib_event_queue and fib_rt_list never fire.
OccupancyExact ==
  LET Routed(f) == Cardinality({p \in PrefixesOf(f) : kernel[p] # {}}) IN
  /\ Settled => \A f \in Families :
       /\ failed = {} => num[f] = Routed(f)
       /\ failed \cap {"delete", "insertion", "sibling", "veto", "append"} = {} => num[f] >= Routed(f)
  /\ phase = "gone" => /\ queue = <<>> /\ EventWorkDone /\ FlushWorkDone
                       /\ \A p \in Prefixes : table[p] = None

\* When all events are carried out the table has the kernel's routes: no entry that
\* is gone, no nexthop that is gone or superseded, also after a dump that was
\* inconsistent, a sibling that was deleted or a deletion that failed, and without
\* such a failure all nexthops that are not marked as failed; and a nexthop is marked
\* as trapped exactly when it is in the table.  Only the failure of a replacement or
\* of an append, or a veto, leaves something else there.
TableFollowsKernel ==
  (Settled /\ failed \cap {"replacement", "insertion", "append", "veto"} = {}) => \A p \in Prefixes :
    /\ table[p] # None => table[p] # {} /\ table[p] \subseteq kernel[p]
    /\ \A i \in kernel[p] :
         /\ hwflag[p][i] = "trap" <=> (table[p] # None /\ i \in table[p])
         /\ "delete" \notin failed => hwflag[p][i] # "none"

\* An event in the queue always has a run of the work to come: one that is added
\* while the work has taken its batch and is still at it is not stranded.
EventsScheduled == queue # <<>> => ev.pending
=============================================================================
