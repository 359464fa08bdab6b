----------------------------- MODULE NsimNexthops ---------------------------
(***************************************************************************)
(* The nexthop offload of a device, the second half of netdevsim/fib.c:    *)
(* nexthops and groups are accounted for against the nexthops resource     *)
(* when the kernel's notifier announces them, and may be refused.          *)
(*                                                                         *)
(* The kernel calls the notifier under the rtnl lock.  It does not make a  *)
(* new nexthop or a replacement that is refused, but a group that loses a  *)
(* member is reduced whether or not the notifier agrees: the kernel only   *)
(* logs the refusal.  A nexthop is the number of entries it needs: 1 for a *)
(* single one, the sum of the weights of a group, the buckets of a         *)
(* resilient group.  Once there a resilient group changes bucket by        *)
(* bucket, and a refusal of that (fail_res_nexthop_group_replace,          *)
(* fail_nexthop_bucket_replace) changes nothing that is modelled here.     *)
(***************************************************************************)
EXTENDS Naturals, FiniteSets, FiniteSetsExt

CONSTANTS
  Nhids,      \* nexthop ids
  Sizes,      \* the entries a nexthop may need
  Resilient,  \* the ids of resilient groups
  NhMax       \* the size of the nexthops resource

ASSUME NsimNexthopsAssumption ==
  /\ Sizes \subseteq Nat \ {0} /\ Resilient \subseteq Nhids /\ NhMax \in Nat
  /\ IsFiniteSet(Nhids)

VARIABLES
  nhKernel,  \* the kernel's nexthops: the entries of each, 0 for none
  nhStale,   \* history: those the kernel has reduced against a refusal
  nhTrap,    \* those marked as trapped
  nhUp,      \* the notifier is registered
  nhTable,   \* nexthop_ht
  nhNum      \* nexthops.num

nhVars == <<nhKernel, nhStale, nhTrap, nhUp, nhTable, nhNum>>

\* nsim_nexthop_account takes entries one at a time until they run out.
Taken(occ) == IF occ <= NhMax - nhNum THEN occ ELSE NhMax - nhNum

\* Entries given back; a WARN_ON keeps the count from wrapping.
NhUnaccount(num, occ) == IF occ > num THEN num ELSE num - occ

-----------------------------------------------------------------------------
(* nsim_nexthop_event_nb. *)

\* nsim_nexthop_insert, for an id that is new or replaced: the old entries are
\* given back once the new ones are taken.
Insert(id, occ) ==
  /\ Taken(occ) = occ
  /\ nhTable' = [nhTable EXCEPT ![id] = occ]
  /\ nhNum' = NhUnaccount(nhNum + Taken(occ), nhTable[id])
  /\ nhTrap' = nhTrap \cup {id} /\ nhStale' = nhStale \ {id}

\* Mutant: the entries the nexthop needs are given back, not those taken.
NoSpaceGivesAll(occ) ==
  /\ Taken(occ) < occ
  /\ nhNum' = NhUnaccount(nhNum + Taken(occ), occ)
  /\ UNCHANGED <<nhTable, nhTrap>>

\* "Exceeded number of supported nexthops": those taken are given back.
NoSpace(occ) ==
  /\ Taken(occ) < occ
  /\ nhNum' = NhUnaccount(nhNum + Taken(occ), Taken(occ))
  /\ UNCHANGED <<nhTable, nhTrap>>

\* The hash table is out of memory.
InsertFails(occ) ==
  /\ Taken(occ) = occ
  /\ nhNum' = NhUnaccount(nhNum + Taken(occ), occ)
  /\ UNCHANGED <<nhTable, nhTrap>>

\* NEXTHOP_EVENT_REPLACE for a new nexthop or a replacement.  The buckets of a
\* resilient group that is there stay as many.
Announced(id) == id \in Resilient => nhKernel[id] = 0

NhReplace(id, occ) ==
  /\ Announced(id)
  /\ IF nhUp THEN Insert(id, occ) ELSE UNCHANGED <<nhTable, nhNum, nhTrap, nhStale>>
  /\ nhKernel' = [nhKernel EXCEPT ![id] = occ]
  /\ UNCHANGED nhUp

NhRefused(id, occ) ==
  /\ nhUp /\ Announced(id)
  /\ NoSpace(occ) \/ InsertFails(occ)
  /\ UNCHANGED <<nhKernel, nhStale, nhUp>>

\* NEXTHOP_EVENT_REPLACE for a group that has lost a member, and has one left
\* (remove_nh_grp_entry): a refusal does not keep the kernel from it.
NhReduce(id, occ) ==
  /\ id \notin Resilient /\ occ < nhKernel[id]
  /\ \/ nhUp /\ Insert(id, occ)
     \/ nhUp /\ (NoSpace(occ) \/ InsertFails(occ)) /\ nhStale' = nhStale \cup {id}
     \/ ~nhUp /\ UNCHANGED <<nhTable, nhNum, nhTrap, nhStale>>
  /\ nhKernel' = [nhKernel EXCEPT ![id] = occ]
  /\ UNCHANGED nhUp

\* NEXTHOP_EVENT_DEL.
NhDelete(id) ==
  /\ nhKernel[id] # 0
  /\ IF nhUp THEN /\ nhTable' = [nhTable EXCEPT ![id] = 0]
                  /\ nhNum' = NhUnaccount(nhNum, nhTable[id])
             ELSE UNCHANGED <<nhTable, nhNum>>
  /\ nhKernel' = [nhKernel EXCEPT ![id] = 0]
  /\ nhTrap' = nhTrap \ {id} /\ nhStale' = nhStale \ {id}
  /\ UNCHANGED nhUp

-----------------------------------------------------------------------------
(* nsim_fib_create and nsim_fib_destroy. *)

SumOf(f) == MapThenSumSet(LAMBDA id : f[id], Nhids)

\* register_nexthop_notifier announces all nexthops; if they do not fit, the
\* creation fails and what was announced is freed again.
NhCreate ==
  /\ ~nhUp /\ SumOf(nhKernel) <= NhMax
  /\ nhUp' = TRUE
  /\ nhTable' = nhKernel /\ nhNum' = SumOf(nhKernel)
  /\ nhTrap' = {id \in Nhids : nhKernel[id] # 0}
  /\ UNCHANGED <<nhKernel, nhStale>>

\* nsim_nexthop_free for every nexthop.
NhDestroy ==
  /\ nhUp
  /\ nhUp' = FALSE
  /\ nhNum' = NhUnaccount(nhNum, SumOf(nhTable))
  /\ nhTable' = [id \in Nhids |-> 0] /\ nhTrap' = nhTrap \ {id \in Nhids : nhTable[id] # 0}
  /\ nhStale' = {}
  /\ UNCHANGED nhKernel

-----------------------------------------------------------------------------
NhStart ==
  /\ nhKernel = [id \in Nhids |-> 0] /\ nhTable = [id \in Nhids |-> 0]
  /\ nhTrap = {} /\ nhStale = {} /\ nhNum = 0 /\ nhUp = FALSE

NhNext ==
  \/ \E id \in Nhids : NhDelete(id)
  \/ \E id \in Nhids, occ \in Sizes : NhReplace(id, occ) \/ NhRefused(id, occ) \/ NhReduce(id, occ)

-----------------------------------------------------------------------------
(* Properties. *)

\* The occupancy of the nexthops resource is that of the table, and within its
\* size, after any sequence of changes that were made or refused; the table has
\* exactly the kernel's nexthops, each with the entries it needs, or, after a
\* reduction that was refused, more; and exactly those are marked
\* (nsim_nexthop_replace takes the new entries before it gives back the old ones).
NexthopsExact ==
  /\ nhNum = SumOf(nhTable) /\ nhNum <= NhMax
  /\ nhTrap = {id \in Nhids : nhTable[id] # 0}
  /\ \A id \in Nhids :
       IF nhUp
       THEN /\ nhTable[id] >= nhKernel[id]
            /\ nhTable[id] # nhKernel[id] => id \in nhStale /\ nhKernel[id] # 0
       ELSE nhTable[id] = 0
=============================================================================
