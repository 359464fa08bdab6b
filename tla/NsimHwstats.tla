----------------------------- MODULE NsimHwstats ----------------------------
(***************************************************************************)
(* The L3 hardware statistics of a device, netdevsim/hwstats.c: a list of  *)
(* netdevs that "hardware" counts for, which the user changes through      *)
(* debugfs, the notifier through which the networking core turns counting  *)
(* on and off and collects the counts, and the work that counts.           *)
(*                                                                         *)
(* What the core and debugfs do under the rtnl lock excludes each other;   *)
(* fail_next_enable and the work take only hwsdev_list_lock, so they fall  *)
(* between the two halves of enable_ifindex.  The core and the netdevs are *)
(* external.  A count stands for the four counters of a netdev.            *)
(***************************************************************************)
EXTENDS Naturals, FiniteSets

CONSTANTS
  Netdevs,    \* the netdevs of the device's network namespace
  NoNetdev,   \* no netdev, and no entry
  MaxCount    \* bound: counts of one netdev since its statistics were turned on

\* struct nsim_dev_hwstats_netdev; the netdev itself is the index of hws.
Hwsdev == [enabled : BOOLEAN, fail_enable : BOOLEAN, stats : Nat]

ASSUME NsimHwstatsAssumption == NoNetdev \notin Netdevs \cup Hwsdev /\ MaxCount \in Nat

VARIABLES
  hwPhase,  \* progress of nsim_dev_hwstats_init and _exit
  netdevs,  \* the registered netdevs
  xstats,   \* those whose L3 statistics the core has turned on
  total,    \* what the core has collected for each
  hws,      \* l3_list: the entry of each netdev, or NoNetdev
  adding,   \* the netdev that enable_ifindex has listed and not yet enabled
  work,     \* traffic_dw: "none", "queued" or "running"
  counted,  \* history: runs of the work while a netdev was to be counted
  silent    \* history: netdevs whose enabling failed without anybody being told

coreVars == <<netdevs, xstats, total>>
hwVars   == <<hwPhase, coreVars, hws, adding, work, counted, silent>>

Rtnl == adding = NoNetdev

\* Mutant: the files are removed last.
FilesThereLong == hwPhase # "down"

\* The debugfs files are there until debugfs_remove_recursive has returned.
FilesThere == hwPhase \in {"live", "cancelled"}

\* The notifier is called until it is unregistered.
Hears == hwPhase \in {"live", "cancelled", "files gone"}

Listed(n) == hws[n] # NoNetdev

Pending(n) == IF Listed(n) THEN hws[n].stats ELSE 0

-----------------------------------------------------------------------------
(* debugfs: enable_ifindex, disable_ifindex and fail_next_enable. *)

\* The entry is listed and the list unlocked, with the rtnl lock held.
EnableIfindex(n) ==
  /\ FilesThere /\ Rtnl
  /\ n \in netdevs /\ ~Listed(n)
  /\ hws' = [hws EXCEPT ![n] = [enabled |-> FALSE, fail_enable |-> FALSE, stats |-> 0]]
  /\ adding' = n
  /\ UNCHANGED <<hwPhase, coreVars, work, counted, silent>>

\* nsim_dev_hwsdev_enable.
HwsdevEnable(h) == IF h.fail_enable THEN [h EXCEPT !.fail_enable = FALSE]
                                    ELSE [h EXCEPT !.enabled = TRUE]

\* Counting starts at once if the core has it on; an error goes nowhere.
EnableIfindexEnd ==
  /\ adding # NoNetdev
  /\ IF adding \in xstats
       THEN /\ hws' = [hws EXCEPT ![adding] = HwsdevEnable(@)]
            /\ silent' = IF hws[adding].fail_enable THEN silent \cup {adding} ELSE silent
       ELSE UNCHANGED <<hws, silent>>
  /\ adding' = NoNetdev
  /\ UNCHANGED <<hwPhase, coreVars, work, counted>>

\* Mutant: what is not yet collected is lost with the entry.
DisableIfindexNoDelta(n) ==
  /\ FilesThere /\ Rtnl /\ Listed(n)
  /\ hws' = [hws EXCEPT ![n] = NoNetdev]
  /\ silent' = silent \ {n}
  /\ UNCHANGED <<hwPhase, coreVars, adding, work, counted>>

\* The counts are pushed to the core before the entry goes.
DisableIfindex(n) ==
  /\ FilesThere /\ Rtnl /\ Listed(n)
  /\ total' = IF n \in xstats THEN [total EXCEPT ![n] = @ + hws[n].stats] ELSE total
  /\ hws' = [hws EXCEPT ![n] = NoNetdev]
  /\ silent' = silent \ {n}
  /\ UNCHANGED <<hwPhase, netdevs, xstats, adding, work, counted>>

\* Without the rtnl lock.
FailIfindex(n) ==
  /\ FilesThere /\ Listed(n)
  /\ hws' = [hws EXCEPT ![n].fail_enable = TRUE]
  /\ UNCHANGED <<hwPhase, coreVars, adding, work, counted, silent>>

-----------------------------------------------------------------------------
(* nsim_dev_netdevice_event, called by the core under the rtnl lock. *)

\* NETDEV_OFFLOAD_XSTATS_ENABLE: an error leaves the statistics off.
XstatsEnable(n) ==
  /\ Rtnl /\ n \in netdevs \ xstats
  /\ IF Hears /\ Listed(n)
       THEN /\ hws' = [hws EXCEPT ![n] = HwsdevEnable(@)]
            /\ xstats' = IF hws[n].fail_enable THEN xstats ELSE xstats \cup {n}
       ELSE xstats' = xstats \cup {n} /\ UNCHANGED hws
  /\ UNCHANGED <<hwPhase, netdevs, total, adding, work, counted, silent>>

\* NETDEV_OFFLOAD_XSTATS_DISABLE, after which the core forgets what it had.
XstatsDisable(n) ==
  /\ Rtnl /\ n \in xstats
  /\ hws' = IF Hears /\ Listed(n) THEN [hws EXCEPT ![n].enabled = FALSE, ![n].stats = 0] ELSE hws
  /\ xstats' = xstats \ {n} /\ silent' = silent \ {n}
  /\ total' = [total EXCEPT ![n] = 0] /\ counted' = [counted EXCEPT ![n] = 0]
  /\ UNCHANGED <<hwPhase, netdevs, adding, work>>

\* NETDEV_OFFLOAD_XSTATS_REPORT_USED, and if it is used REPORT_DELTA.
ReportDelta(n) ==
  /\ Rtnl /\ n \in xstats
  /\ Hears /\ Listed(n) /\ hws[n].enabled
  /\ total' = [total EXCEPT ![n] = @ + hws[n].stats]
  /\ hws' = [hws EXCEPT ![n].stats = 0]
  /\ UNCHANGED <<hwPhase, netdevs, xstats, adding, work, counted, silent>>

\* The netdev goes, its statistics first, and NETDEV_UNREGISTER is sent.
NetdevUnregister(n) ==
  /\ Rtnl /\ n \in netdevs
  /\ netdevs' = netdevs \ {n} /\ xstats' = xstats \ {n} /\ silent' = silent \ {n}
  /\ total' = [total EXCEPT ![n] = 0] /\ counted' = [counted EXCEPT ![n] = 0]
  /\ hws' = IF Hears THEN [hws EXCEPT ![n] = NoNetdev] ELSE hws
  /\ UNCHANGED <<hwPhase, adding, work>>

NetdevRegister(n) ==
  /\ Rtnl /\ n \notin netdevs
  /\ netdevs' = netdevs \cup {n}
  /\ UNCHANGED <<hwPhase, xstats, total, hws, adding, work, counted, silent>>

-----------------------------------------------------------------------------
(* nsim_dev_hwstats_traffic_work. *)

\* What the hardware is to count for, whatever the entry says.
ToCount(n) == Listed(n) /\ n \in xstats /\ n # adding /\ n \notin silent

\* Under the list lock.
WorkBump ==
  /\ work = "queued"
  /\ \A n \in Netdevs : ToCount(n) => counted[n] < MaxCount
  /\ hws' = [n \in Netdevs |-> IF Listed(n) /\ hws[n].enabled
                               THEN [hws[n] EXCEPT !.stats = @ + 1] ELSE hws[n]]
  /\ counted' = [n \in Netdevs |-> IF ToCount(n) THEN counted[n] + 1 ELSE counted[n]]
  /\ work' = "running"
  /\ UNCHANGED <<hwPhase, coreVars, adding, silent>>

WorkRequeue ==
  /\ work = "running"
  /\ work' = "queued"
  /\ UNCHANGED <<hwPhase, coreVars, hws, adding, counted, silent>>

-----------------------------------------------------------------------------
(* nsim_dev_hwstats_init and nsim_dev_hwstats_exit. *)

HwInit ==
  /\ hwPhase = "down" /\ Rtnl
  /\ hwPhase' = "live" /\ work' = "queued"
  /\ hws' = [n \in Netdevs |-> NoNetdev]
  /\ UNCHANGED <<coreVars, adding, counted, silent>>

\* cancel_delayed_work_sync.
ExitCancel ==
  /\ hwPhase = "live" /\ work = "queued"
  /\ hwPhase' = "cancelled" /\ work' = "none"
  /\ UNCHANGED <<coreVars, hws, adding, counted, silent>>

\* debugfs_remove_recursive waits for writers.
ExitFiles ==
  /\ hwPhase = "cancelled" /\ Rtnl
  /\ hwPhase' = "files gone"
  /\ UNCHANGED <<coreVars, hws, adding, work, counted, silent>>

\* Unregistering the notifier sends it NETDEV_UNREGISTER for every netdev: what
\* was not yet collected is lost.
ExitNotifier ==
  /\ hwPhase = "files gone" /\ Rtnl
  /\ hwPhase' = "deaf"
  /\ hws' = [n \in Netdevs |-> IF n \in netdevs THEN NoNetdev ELSE hws[n]]
  /\ silent' = {} /\ counted' = total
  /\ UNCHANGED <<coreVars, adding, work>>

\* nsim_dev_hwsdev_list_wipe.
ExitWipe ==
  /\ hwPhase = "deaf"
  /\ hwPhase' = "down"
  /\ hws' = [n \in Netdevs |-> NoNetdev]
  /\ UNCHANGED <<coreVars, adding, work, counted, silent>>

-----------------------------------------------------------------------------
HwStart ==
  /\ hwPhase = "down" /\ netdevs = {} /\ xstats = {}
  /\ total = [n \in Netdevs |-> 0] /\ counted = [n \in Netdevs |-> 0]
  /\ hws = [n \in Netdevs |-> NoNetdev]
  /\ adding = NoNetdev /\ work = "none" /\ silent = {}

HwNext ==
  \/ \E n \in Netdevs :
       \/ EnableIfindex(n) \/ DisableIfindex(n) \/ FailIfindex(n)
       \/ XstatsEnable(n) \/ XstatsDisable(n) \/ ReportDelta(n)
       \/ NetdevUnregister(n) \/ NetdevRegister(n)
  \/ EnableIfindexEnd \/ WorkBump \/ WorkRequeue
  \/ ExitCancel \/ ExitFiles \/ ExitNotifier \/ ExitWipe

-----------------------------------------------------------------------------
(* Properties. *)

\* What the core has collected and what is still to be collected make up every
\* run of the work, each once, since the statistics of a netdev were turned on,
\* however often it was taken off the list and put back meanwhile; and nothing is
\* left over from before (nsim_dev_hwsdev_report_delta, _disable,
\* nsim_dev_hwstats_disable_ifindex).  Netdevs whose enabling failed unseen are
\* not counted for.
StatsExact ==
  \A n \in Netdevs : IF n \in xstats THEN total[n] + Pending(n) = counted[n]
                                     ELSE Pending(n) = 0

\* The list holds a reference to a netdev only while the netdev is registered and
\* the device is there, or unregistering the netdev would wait for ever; and the
\* work has stopped before the list is freed (nsim_dev_hwstats_exit).
HeldIsThere ==
  /\ \A n \in Netdevs : Listed(n) => n \in netdevs /\ hwPhase # "down"
  /\ hwPhase = "down" => work = "none"
=============================================================================
