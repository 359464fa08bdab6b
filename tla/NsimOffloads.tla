---------------------------- MODULE NsimOffloads ----------------------------
(***************************************************************************)
(* The nexthop offload and the hardware statistics of one device, which    *)
(* nsim_dev_reload_create and nsim_drv_probe set up in this order, and     *)
(* nsim_dev_reload_destroy tears down in the opposite one (netdevsim/dev.c).*)
(***************************************************************************)
EXTENDS NsimHwstats, NsimNexthops

vars == <<hwVars, nhVars>>

\* nsim_fib_create.
DevFibCreate == NhCreate /\ UNCHANGED hwVars

\* nsim_dev_hwstats_init.
DevHwstatsInit == nhUp /\ HwInit /\ UNCHANGED nhVars

\* nsim_fib_destroy, once the statistics are down or have failed to come up.
DevFibDestroy == hwPhase = "down" /\ NhDestroy /\ UNCHANGED hwVars

Init == HwStart /\ NhStart

Next ==
  \/ DevFibCreate \/ DevHwstatsInit \/ DevFibDestroy
  \/ HwNext /\ UNCHANGED nhVars
  \/ NhNext /\ UNCHANGED hwVars

Spec == Init /\ [][Next]_vars
=============================================================================
