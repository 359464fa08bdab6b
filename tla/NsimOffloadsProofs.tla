------------------------- MODULE NsimOffloadsProofs -------------------------
(***************************************************************************)
(* The proofs about what netdevsim offloads: the hardware statistics of    *)
(* hwstats.c, the nexthop accounting of fib.c (both from NsimOffloads) and *)
(* its route offload (NsimFib).  They hold for any number of netdevs,      *)
(* nexthops, prefixes and events that are outstanding.                     *)
(*                                                                         *)
(*  - hardware statistics: EnabledInv ties an entry's flag to what the     *)
(*    work is to count, ListInv says who may be on the list when;          *)
(*  - nexthops: the occupancy is a sum over a finite set, which is moved   *)
(*    by what one nexthop weighs (a minimal set for which it is not would  *)
(*    leave a smaller one);                                                *)
(*  - routes: the events that are outstanding, those of the work's batch   *)
(*    and then those of the queue, are a sequence (Total, At).  A history  *)
(*    says what a route was before and after each of them: it ends with    *)
(*    the kernel's route and begins with the entry of the table (Trail).   *)
(*    What is counted is a bill (Bill): a route in the end, and each event *)
(*    whose replacement is still to be given back.                         *)
(***************************************************************************)
EXTENDS NsimOffloads, NsimFib, FiniteSetTheorems, SequenceTheorems,
        WellFoundedInduction, TLAPS

-----------------------------------------------------------------------------
(* The hardware statistics. *)

\* The types of the statistics.
HwTypeOK ==
  /\ hwPhase \in {"down", "live", "cancelled", "files gone", "deaf"}
  /\ netdevs \subseteq Netdevs /\ xstats \subseteq netdevs /\ silent \subseteq xstats
  /\ total \in [Netdevs -> Nat] /\ counted \in [Netdevs -> Nat]
  /\ hws \in [Netdevs -> Hwsdev \cup {NoNetdev}]
  /\ adding \in Netdevs \cup {NoNetdev}
  /\ work \in {"none", "queued", "running"}

\* Who is on the list, and when: only while the notifier hears of a netdev that
\* goes, and in the middle of enable_ifindex only while its file is there.
ListInv ==
  /\ \A n \in Netdevs : Listed(n) => n \in netdevs /\ Hears
  /\ \A n \in silent : Listed(n) /\ n # adding
  /\ adding # NoNetdev => FilesThere /\ Listed(adding)
  /\ hwPhase # "live" => work = "none"

\* An entry is enabled exactly when the work is to count for it.
EnabledInv == \A n \in Netdevs : Listed(n) => (hws[n].enabled <=> ToCount(n))

\* Statistics start from nothing: the core has none for a netdev for which they
\* are off, and there are none in an entry that is not enabled yet.
ZeroInv ==
  \A n \in Netdevs : /\ n \notin xstats => total[n] = 0 /\ counted[n] = 0
                     /\ n = adding => hws[n].stats = 0

\* The inductive invariant of the statistics.
HwInv == HwTypeOK /\ ListInv /\ EnabledInv /\ ZeroInv /\ StatsExact

\* The entries a step may make of an entry.
LEMMA Entries ==
  ASSUME NEW h \in Hwsdev
  PROVE  /\ h.enabled \in BOOLEAN /\ h.fail_enable \in BOOLEAN /\ h.stats \in Nat
         /\ h # NoNetdev
BY NsimHwstatsAssumption DEF NsimHwstatsAssumption, Hwsdev

\* An entry as enable_ifindex lists it.
LEMMA NewEntry ==
  LET h == [enabled |-> FALSE, fail_enable |-> FALSE, stats |-> 0]
  IN  h \in Hwsdev /\ h.stats = 0 /\ ~h.enabled
BY DEF Hwsdev

\* nsim_dev_hwsdev_enable fails or enables.
LEMMA EnableEntry ==
  ASSUME NEW h \in Hwsdev
  PROVE  /\ HwsdevEnable(h) \in Hwsdev /\ HwsdevEnable(h).stats = h.stats
         /\ HwsdevEnable(h).enabled <=> (h.enabled \/ ~h.fail_enable)
BY Entries DEF Hwsdev, HwsdevEnable

\* A request to fail leaves the counts alone.
LEMMA FailEntry ==
  ASSUME NEW h \in Hwsdev
  PROVE  LET g == [h EXCEPT !.fail_enable = TRUE]
         IN  g \in Hwsdev /\ g.stats = h.stats /\ (g.enabled <=> h.enabled)
BY Entries DEF Hwsdev

\* Counts that are collected.
LEMMA ClearEntry ==
  ASSUME NEW h \in Hwsdev
  PROVE  LET g == [h EXCEPT !.stats = 0]
         IN  g \in Hwsdev /\ g.stats = 0 /\ (g.enabled <=> h.enabled)
BY Entries DEF Hwsdev

\* nsim_dev_hwsdev_disable.
LEMMA DisableEntry ==
  ASSUME NEW h \in Hwsdev
  PROVE  LET g == [h EXCEPT !.enabled = FALSE, !.stats = 0]
         IN  g \in Hwsdev /\ g.stats = 0 /\ ~g.enabled
BY Entries DEF Hwsdev

\* What the work does to an entry.
LEMMA BumpEntry ==
  ASSUME NEW h \in Hwsdev
  PROVE  LET g == [h EXCEPT !.stats = @ + 1]
         IN  g \in Hwsdev /\ g.stats = h.stats + 1 /\ (g.enabled <=> h.enabled)
BY Entries DEF Hwsdev

\* One entry of the list is replaced.
LEMMA OneEntry ==
  ASSUME HwTypeOK, NEW m \in Netdevs, NEW x \in Hwsdev \cup {NoNetdev},
         hws' = [hws EXCEPT ![m] = x]
  PROVE  /\ hws' \in [Netdevs -> Hwsdev \cup {NoNetdev}]
         /\ hws'[m] = x /\ \A n \in Netdevs \ {m} : hws'[n] = hws[n]
BY DEF HwTypeOK

\* An entry that is listed is one.
LEMMA ListedIs ==
  ASSUME HwTypeOK, NEW m \in Netdevs
  PROVE  Listed(m) <=> hws[m] \in Hwsdev
BY NsimHwstatsAssumption DEF NsimHwstatsAssumption, HwTypeOK, Listed

\* enable_ifindex lists an entry that is not enabled.
LEMMA HwEnableIfindex ==
  ASSUME HwInv, NEW m \in Netdevs, EnableIfindex(m)
  PROVE  HwInv'
<1>0. HwTypeOK /\ ListInv /\ EnabledInv /\ ZeroInv /\ StatsExact
  BY DEF HwInv
<1>z. \A n \in Netdevs : Listed(n) => hws[n] \in Hwsdev /\ hws[n].stats \in Nat
  BY <1>0, ListedIs, Entries
<1>a. /\ adding = NoNetdev /\ m \in netdevs /\ ~Listed(m) /\ FilesThere
      /\ hwPhase' = hwPhase /\ netdevs' = netdevs /\ xstats' = xstats /\ silent' = silent
      /\ total' = total /\ counted' = counted /\ adding' = m /\ work' = work
  BY <1>0, <1>z DEF HwTypeOK, Rtnl, EnableIfindex, coreVars, FilesThere
<1> DEFINE x == [enabled |-> FALSE, fail_enable |-> FALSE, stats |-> 0]
<1>b. hws' = [hws EXCEPT ![m] = x]
  BY <1>0, <1>a DEF HwTypeOK, Listed, EnableIfindex
<1>c. x \in Hwsdev /\ ~x.enabled /\ x.stats = 0
  BY <1>0, <1>a, <1>z, NewEntry, Entries, NsimHwstatsAssumption DEF NsimHwstatsAssumption, HwTypeOK, ListInv, Listed
<1> HIDE DEF x
<1>d. x \in Hwsdev \cup {NoNetdev} /\ m \in Netdevs
  BY <1>0, <1>a, <1>c DEF HwTypeOK
<1>e. /\ hws' \in [Netdevs -> Hwsdev \cup {NoNetdev}]
      /\ hws'[m] = x /\ \A n \in Netdevs \ {m} : hws'[n] = hws[n]
  BY <1>0, <1>b, <1>d, OneEntry
<1>f. x # NoNetdev => x \in Hwsdev
  BY <1>d
<1>g. x \in Hwsdev => x # NoNetdev
  BY Entries
<1>1. HwTypeOK'
  BY <1>0, <1>a, <1>c, <1>e, <1>f, <1>g DEF HwTypeOK, ListInv, Listed
<1>2. ListInv'
  BY <1>0, <1>a, <1>c, <1>e, <1>f, <1>g, NsimHwstatsAssumption
     DEF NsimHwstatsAssumption, HwTypeOK, ListInv, Listed, Hears, FilesThere
<1>3. EnabledInv'
  BY <1>0, <1>a, <1>c, <1>e, <1>f, <1>g, NsimHwstatsAssumption
     DEF NsimHwstatsAssumption, HwTypeOK, ListInv, EnabledInv, Listed, ToCount
<1>4. ZeroInv'
  BY <1>0, <1>a, <1>c, <1>e, <1>f, <1>g, NsimHwstatsAssumption
     DEF NsimHwstatsAssumption, HwTypeOK, ListInv, EnabledInv, ZeroInv, Listed, ToCount
<1>5. ASSUME NEW n \in Netdevs
      PROVE  (IF n \in xstats THEN total[n] + Pending(n) = counted[n] ELSE Pending(n) = 0)'
  <2>1. total[n] \in Nat /\ counted[n] \in Nat /\ (Listed(n) => hws[n].stats \in Nat)
    BY <1>0, <1>z DEF HwTypeOK
  <2>2. IF n \in xstats THEN total[n] + Pending(n) = counted[n] ELSE Pending(n) = 0
    BY <1>0 DEF StatsExact
  <2>3. n \notin xstats => total[n] = 0 /\ counted[n] = 0
    BY <1>0 DEF ZeroInv
  <2>4. Listed(n) => (hws[n].enabled <=> ToCount(n))
    BY <1>0 DEF EnabledInv
  <2> QED
    BY <2>1, <2>2, <2>3, <2>4, <1>a, <1>c, <1>e, <1>f, <1>g DEF Listed, Pending
<1>6. StatsExact'
  BY <1>5 DEF StatsExact
<1> QED
  BY <1>1, <1>2, <1>3, <1>4, <1>6 DEF HwInv

\* disable_ifindex hands the counts over.
LEMMA HwDisableIfindex ==
  ASSUME HwInv, NEW m \in Netdevs, DisableIfindex(m)
  PROVE  HwInv'
<1>0. HwTypeOK /\ ListInv /\ EnabledInv /\ ZeroInv /\ StatsExact
  BY DEF HwInv
<1>z. \A n \in Netdevs : Listed(n) => hws[n] \in Hwsdev /\ hws[n].stats \in Nat
  BY <1>0, ListedIs, Entries
<1>y. Listed(m) /\ hws[m].stats \in Nat /\ total[m] \in Nat
  BY <1>0, <1>z DEF DisableIfindex, HwTypeOK
<1>a. /\ adding = NoNetdev /\ Listed(m)
      /\ hwPhase' = hwPhase /\ netdevs' = netdevs /\ xstats' = xstats /\ silent' = silent \ {m}
      /\ counted' = counted /\ adding' = adding /\ work' = work
      /\ total' \in [Netdevs -> Nat] /\ \A n \in Netdevs \ {m} : total'[n] = total[n]
      /\ total'[m] = IF m \in xstats THEN total[m] + hws[m].stats ELSE total[m]
  <2>1. total \in [Netdevs -> Nat]
    BY <1>0 DEF HwTypeOK
  <2>2. total[m] + hws[m].stats \in Nat
    BY <1>y
  <2> QED
    BY <1>0, <1>y, <2>1, <2>2 DEF Rtnl, DisableIfindex, coreVars
<1> DEFINE x == NoNetdev
<1>b. hws' = [hws EXCEPT ![m] = x]
  BY <1>0, <1>a DEF HwTypeOK, Listed, DisableIfindex
<1>c. x = NoNetdev
  BY <1>0, <1>a, <1>z, Entries, NsimHwstatsAssumption DEF NsimHwstatsAssumption, HwTypeOK, ListInv, Listed
<1> HIDE DEF x
<1>d. x \in Hwsdev \cup {NoNetdev} /\ m \in Netdevs
  BY <1>0, <1>a, <1>c DEF HwTypeOK
<1>e. /\ hws' \in [Netdevs -> Hwsdev \cup {NoNetdev}]
      /\ hws'[m] = x /\ \A n \in Netdevs \ {m} : hws'[n] = hws[n]
  BY <1>0, <1>b, <1>d, OneEntry
<1>f. x # NoNetdev => x \in Hwsdev
  BY <1>d
<1>g. x \in Hwsdev => x # NoNetdev
  BY Entries
<1>1. HwTypeOK'
  BY <1>0, <1>a, <1>c, <1>e, <1>f, <1>g DEF HwTypeOK, ListInv, Listed
<1>2. ListInv'
  BY <1>0, <1>a, <1>c, <1>e, <1>f, <1>g, NsimHwstatsAssumption
     DEF NsimHwstatsAssumption, HwTypeOK, ListInv, Listed, Hears, FilesThere
<1>3. EnabledInv'
  BY <1>0, <1>a, <1>c, <1>e, <1>f, <1>g, NsimHwstatsAssumption
     DEF NsimHwstatsAssumption, HwTypeOK, ListInv, EnabledInv, Listed, ToCount
<1>4. ZeroInv'
  BY <1>0, <1>a, <1>c, <1>e, <1>f, <1>g, NsimHwstatsAssumption
     DEF NsimHwstatsAssumption, HwTypeOK, ListInv, EnabledInv, ZeroInv, Listed, ToCount
<1>5. ASSUME NEW n \in Netdevs
      PROVE  (IF n \in xstats THEN total[n] + Pending(n) = counted[n] ELSE Pending(n) = 0)'
  <2>1. total[n] \in Nat /\ counted[n] \in Nat /\ (Listed(n) => hws[n].stats \in Nat)
    BY <1>0, <1>z DEF HwTypeOK
  <2>2. IF n \in xstats THEN total[n] + Pending(n) = counted[n] ELSE Pending(n) = 0
    BY <1>0 DEF StatsExact
  <2>3. n \notin xstats => total[n] = 0 /\ counted[n] = 0
    BY <1>0 DEF ZeroInv
  <2>4. Listed(n) => (hws[n].enabled <=> ToCount(n))
    BY <1>0 DEF EnabledInv
  <2> QED
    BY <2>1, <2>2, <2>3, <2>4, <1>a, <1>c, <1>e, <1>f, <1>g DEF Listed, Pending
<1>6. StatsExact'
  BY <1>5 DEF StatsExact
<1> QED
  BY <1>1, <1>2, <1>3, <1>4, <1>6 DEF HwInv

\* fail_next_enable may come at any time, between the halves of enable_ifindex too.
LEMMA HwFailIfindex ==
  ASSUME HwInv, NEW m \in Netdevs, FailIfindex(m)
  PROVE  HwInv'
<1>0. HwTypeOK /\ ListInv /\ EnabledInv /\ ZeroInv /\ StatsExact
  BY DEF HwInv
<1>z. \A n \in Netdevs : Listed(n) => hws[n] \in Hwsdev /\ hws[n].stats \in Nat
  BY <1>0, ListedIs, Entries
<1>a. /\ Listed(m)
      /\ hwPhase' = hwPhase /\ netdevs' = netdevs /\ xstats' = xstats /\ silent' = silent
      /\ total' = total /\ counted' = counted /\ adding' = adding /\ work' = work
  BY <1>0, <1>z DEF HwTypeOK, Rtnl, FailIfindex, coreVars
<1> DEFINE x == [hws[m] EXCEPT !.fail_enable = TRUE]
<1>b. hws' = [hws EXCEPT ![m] = x]
  BY <1>0, <1>a DEF HwTypeOK, Listed, FailIfindex
<1>c. x \in Hwsdev /\ (x.enabled <=> hws[m].enabled) /\ x.stats = hws[m].stats
  BY <1>0, <1>a, <1>z, FailEntry, Entries, NsimHwstatsAssumption DEF NsimHwstatsAssumption, HwTypeOK, ListInv, Listed
<1> HIDE DEF x
<1>d. x \in Hwsdev \cup {NoNetdev} /\ m \in Netdevs
  BY <1>0, <1>a, <1>c DEF HwTypeOK
<1>e. /\ hws' \in [Netdevs -> Hwsdev \cup {NoNetdev}]
      /\ hws'[m] = x /\ \A n \in Netdevs \ {m} : hws'[n] = hws[n]
  BY <1>0, <1>b, <1>d, OneEntry
<1>f. x # NoNetdev => x \in Hwsdev
  BY <1>d
<1>g. x \in Hwsdev => x # NoNetdev
  BY Entries
<1>1. HwTypeOK'
  BY <1>0, <1>a, <1>c, <1>e, <1>f, <1>g DEF HwTypeOK, ListInv, Listed
<1>2. ListInv'
  BY <1>0, <1>a, <1>c, <1>e, <1>f, <1>g, NsimHwstatsAssumption
     DEF NsimHwstatsAssumption, HwTypeOK, ListInv, Listed, Hears, FilesThere
<1>3. EnabledInv'
  BY <1>0, <1>a, <1>c, <1>e, <1>f, <1>g, NsimHwstatsAssumption
     DEF NsimHwstatsAssumption, HwTypeOK, ListInv, EnabledInv, Listed, ToCount
<1>4. ZeroInv'
  BY <1>0, <1>a, <1>c, <1>e, <1>f, <1>g, NsimHwstatsAssumption
     DEF NsimHwstatsAssumption, HwTypeOK, ListInv, EnabledInv, ZeroInv, Listed, ToCount
<1>5. ASSUME NEW n \in Netdevs
      PROVE  (IF n \in xstats THEN total[n] + Pending(n) = counted[n] ELSE Pending(n) = 0)'
  <2>1. total[n] \in Nat /\ counted[n] \in Nat /\ (Listed(n) => hws[n].stats \in Nat)
    BY <1>0, <1>z DEF HwTypeOK
  <2>2. IF n \in xstats THEN total[n] + Pending(n) = counted[n] ELSE Pending(n) = 0
    BY <1>0 DEF StatsExact
  <2>3. n \notin xstats => total[n] = 0 /\ counted[n] = 0
    BY <1>0 DEF ZeroInv
  <2>4. Listed(n) => (hws[n].enabled <=> ToCount(n))
    BY <1>0 DEF EnabledInv
  <2> QED
    BY <2>1, <2>2, <2>3, <2>4, <1>a, <1>c, <1>e, <1>f, <1>g DEF Listed, Pending
<1>6. StatsExact'
  BY <1>5 DEF StatsExact
<1> QED
  BY <1>1, <1>2, <1>3, <1>4, <1>6 DEF HwInv

\* The core turns the statistics on.
LEMMA HwXstatsEnable ==
  ASSUME HwInv, NEW m \in Netdevs, XstatsEnable(m)
  PROVE  HwInv'
<1>0. HwTypeOK /\ ListInv /\ EnabledInv /\ ZeroInv /\ StatsExact
  BY DEF HwInv
<1>z. \A n \in Netdevs : Listed(n) => hws[n] \in Hwsdev /\ hws[n].stats \in Nat
  BY <1>0, ListedIs, Entries
<1>a. /\ adding = NoNetdev /\ m \in netdevs \ xstats
      /\ hwPhase' = hwPhase /\ netdevs' = netdevs /\ silent' = silent
      /\ total' = total /\ counted' = counted /\ adding' = adding /\ work' = work
      /\ xstats' = xstats \/ xstats' = xstats \cup {m}
  BY <1>0, <1>z DEF HwTypeOK, Rtnl, XstatsEnable, coreVars
<1> DEFINE x == IF Hears /\ Listed(m) THEN HwsdevEnable(hws[m]) ELSE hws[m]
<1>b. hws' = [hws EXCEPT ![m] = x]
  BY <1>0, <1>a DEF HwTypeOK, Listed, XstatsEnable
<1>c. IF Listed(m) THEN x \in Hwsdev /\ x.stats = hws[m].stats /\ (x.enabled <=> m \in xstats') ELSE x = NoNetdev
  BY <1>0, <1>a, <1>z, EnableEntry, Entries, NsimHwstatsAssumption
     DEF NsimHwstatsAssumption, HwTypeOK, ListInv, Listed, XstatsEnable, EnabledInv, ToCount
<1> HIDE DEF x
<1>d. x \in Hwsdev \cup {NoNetdev} /\ m \in Netdevs
  BY <1>0, <1>a, <1>c DEF HwTypeOK
<1>e. /\ hws' \in [Netdevs -> Hwsdev \cup {NoNetdev}]
      /\ hws'[m] = x /\ \A n \in Netdevs \ {m} : hws'[n] = hws[n]
  BY <1>0, <1>b, <1>d, OneEntry
<1>f. x # NoNetdev => x \in Hwsdev
  BY <1>d
<1>g. x \in Hwsdev => x # NoNetdev
  BY Entries
<1>1. HwTypeOK'
  BY <1>0, <1>a, <1>c, <1>e, <1>f, <1>g DEF HwTypeOK, ListInv, Listed
<1>2. ListInv'
  BY <1>0, <1>a, <1>c, <1>e, <1>f, <1>g, NsimHwstatsAssumption
     DEF NsimHwstatsAssumption, HwTypeOK, ListInv, Listed, Hears, FilesThere
<1>3. EnabledInv'
  BY <1>0, <1>a, <1>c, <1>e, <1>f, <1>g, NsimHwstatsAssumption
     DEF NsimHwstatsAssumption, HwTypeOK, ListInv, EnabledInv, Listed, ToCount
<1>4. ZeroInv'
  BY <1>0, <1>a, <1>c, <1>e, <1>f, <1>g, NsimHwstatsAssumption
     DEF NsimHwstatsAssumption, HwTypeOK, ListInv, EnabledInv, ZeroInv, Listed, ToCount
<1>5. ASSUME NEW n \in Netdevs
      PROVE  (IF n \in xstats THEN total[n] + Pending(n) = counted[n] ELSE Pending(n) = 0)'
  <2>1. total[n] \in Nat /\ counted[n] \in Nat /\ (Listed(n) => hws[n].stats \in Nat)
    BY <1>0, <1>z DEF HwTypeOK
  <2>2. IF n \in xstats THEN total[n] + Pending(n) = counted[n] ELSE Pending(n) = 0
    BY <1>0 DEF StatsExact
  <2>3. n \notin xstats => total[n] = 0 /\ counted[n] = 0
    BY <1>0 DEF ZeroInv
  <2>4. Listed(n) => (hws[n].enabled <=> ToCount(n))
    BY <1>0 DEF EnabledInv
  <2> QED
    BY <2>1, <2>2, <2>3, <2>4, <1>a, <1>c, <1>e, <1>f, <1>g DEF Listed, Pending
<1>6. StatsExact'
  BY <1>5 DEF StatsExact
<1> QED
  BY <1>1, <1>2, <1>3, <1>4, <1>6 DEF HwInv

\* The core turns them off and forgets the counts.
LEMMA HwXstatsDisable ==
  ASSUME HwInv, NEW m \in Netdevs, XstatsDisable(m)
  PROVE  HwInv'
<1>0. HwTypeOK /\ ListInv /\ EnabledInv /\ ZeroInv /\ StatsExact
  BY DEF HwInv
<1>z. \A n \in Netdevs : Listed(n) => hws[n] \in Hwsdev /\ hws[n].stats \in Nat
  BY <1>0, ListedIs, Entries
<1>a. /\ adding = NoNetdev /\ m \in xstats
      /\ hwPhase' = hwPhase /\ netdevs' = netdevs /\ xstats' = xstats \ {m} /\ silent' = silent \ {m}
      /\ adding' = adding /\ work' = work
      /\ total' \in [Netdevs -> Nat] /\ \A n \in Netdevs \ {m} : total'[n] = total[n]
      /\ counted' \in [Netdevs -> Nat] /\ \A n \in Netdevs \ {m} : counted'[n] = counted[n]
      /\ total'[m] = 0 /\ counted'[m] = 0
  BY <1>0, <1>z DEF HwTypeOK, Rtnl, XstatsDisable, coreVars
<1> DEFINE x == IF Hears /\ Listed(m) THEN [hws[m] EXCEPT !.enabled = FALSE, !.stats = 0] ELSE hws[m]
<1>b. hws' = [hws EXCEPT ![m] = x]
  BY <1>0, <1>a DEF HwTypeOK, Listed, XstatsDisable
<1>c. IF Listed(m) THEN x \in Hwsdev /\ x.stats = 0 /\ ~x.enabled ELSE x = NoNetdev
  BY <1>0, <1>a, <1>z, DisableEntry, Entries, NsimHwstatsAssumption
     DEF NsimHwstatsAssumption, HwTypeOK, ListInv, Listed
<1> HIDE DEF x
<1>d. x \in Hwsdev \cup {NoNetdev} /\ m \in Netdevs
  BY <1>0, <1>a, <1>c DEF HwTypeOK
<1>e. /\ hws' \in [Netdevs -> Hwsdev \cup {NoNetdev}]
      /\ hws'[m] = x /\ \A n \in Netdevs \ {m} : hws'[n] = hws[n]
  BY <1>0, <1>b, <1>d, OneEntry
<1>f. x # NoNetdev => x \in Hwsdev
  BY <1>d
<1>g. x \in Hwsdev => x # NoNetdev
  BY Entries
<1>1. HwTypeOK'
  BY <1>0, <1>a, <1>c, <1>e, <1>f, <1>g DEF HwTypeOK, ListInv, Listed
<1>2. ListInv'
  BY <1>0, <1>a, <1>c, <1>e, <1>f, <1>g, NsimHwstatsAssumption
     DEF NsimHwstatsAssumption, HwTypeOK, ListInv, Listed, Hears, FilesThere
<1>3. EnabledInv'
  BY <1>0, <1>a, <1>c, <1>e, <1>f, <1>g, NsimHwstatsAssumption
     DEF NsimHwstatsAssumption, HwTypeOK, ListInv, EnabledInv, Listed, ToCount
<1>4. ZeroInv'
  BY <1>0, <1>a, <1>c, <1>e, <1>f, <1>g, NsimHwstatsAssumption
     DEF NsimHwstatsAssumption, HwTypeOK, ListInv, EnabledInv, ZeroInv, Listed, ToCount
<1>5. ASSUME NEW n \in Netdevs
      PROVE  (IF n \in xstats THEN total[n] + Pending(n) = counted[n] ELSE Pending(n) = 0)'
  <2>1. total[n] \in Nat /\ counted[n] \in Nat /\ (Listed(n) => hws[n].stats \in Nat)
    BY <1>0, <1>z DEF HwTypeOK
  <2>2. IF n \in xstats THEN total[n] + Pending(n) = counted[n] ELSE Pending(n) = 0
    BY <1>0 DEF StatsExact
  <2>3. n \notin xstats => total[n] = 0 /\ counted[n] = 0
    BY <1>0 DEF ZeroInv
  <2>4. Listed(n) => (hws[n].enabled <=> ToCount(n))
    BY <1>0 DEF EnabledInv
  <2> QED
    BY <2>1, <2>2, <2>3, <2>4, <1>a, <1>c, <1>e, <1>f, <1>g DEF Listed, Pending
<1>6. StatsExact'
  BY <1>5 DEF StatsExact
<1> QED
  BY <1>1, <1>2, <1>3, <1>4, <1>6 DEF HwInv

\* The core collects the counts.
LEMMA HwReportDelta ==
  ASSUME HwInv, NEW m \in Netdevs, ReportDelta(m)
  PROVE  HwInv'
<1>0. HwTypeOK /\ ListInv /\ EnabledInv /\ ZeroInv /\ StatsExact
  BY DEF HwInv
<1>z. \A n \in Netdevs : Listed(n) => hws[n] \in Hwsdev /\ hws[n].stats \in Nat
  BY <1>0, ListedIs, Entries
<1>y. Listed(m) /\ hws[m].stats \in Nat /\ total[m] \in Nat
  BY <1>0, <1>z DEF ReportDelta, HwTypeOK
<1>a. /\ adding = NoNetdev /\ m \in xstats /\ Listed(m)
      /\ hwPhase' = hwPhase /\ netdevs' = netdevs /\ xstats' = xstats /\ silent' = silent
      /\ counted' = counted /\ adding' = adding /\ work' = work
      /\ total' \in [Netdevs -> Nat] /\ \A n \in Netdevs \ {m} : total'[n] = total[n]
      /\ total'[m] = total[m] + hws[m].stats
  <2>1. total \in [Netdevs -> Nat]
    BY <1>0 DEF HwTypeOK
  <2>2. total[m] + hws[m].stats \in Nat
    BY <1>y
  <2> QED
    BY <1>0, <1>y, <2>1, <2>2 DEF Rtnl, ReportDelta, coreVars
<1> DEFINE x == [hws[m] EXCEPT !.stats = 0]
<1>b. hws' = [hws EXCEPT ![m] = x]
  BY <1>0, <1>a DEF HwTypeOK, Listed, ReportDelta
<1>c. x \in Hwsdev /\ (x.enabled <=> hws[m].enabled) /\ x.stats = 0
  BY <1>0, <1>a, <1>z, ClearEntry, Entries, NsimHwstatsAssumption DEF NsimHwstatsAssumption, HwTypeOK, ListInv, Listed
<1> HIDE DEF x
<1>d. x \in Hwsdev \cup {NoNetdev} /\ m \in Netdevs
  BY <1>0, <1>a, <1>c DEF HwTypeOK
<1>e. /\ hws' \in [Netdevs -> Hwsdev \cup {NoNetdev}]
      /\ hws'[m] = x /\ \A n \in Netdevs \ {m} : hws'[n] = hws[n]
  BY <1>0, <1>b, <1>d, OneEntry
<1>f. x # NoNetdev => x \in Hwsdev
  BY <1>d
<1>g. x \in Hwsdev => x # NoNetdev
  BY Entries
<1>1. HwTypeOK'
  BY <1>0, <1>a, <1>c, <1>e, <1>f, <1>g DEF HwTypeOK, ListInv, Listed
<1>2. ListInv'
  BY <1>0, <1>a, <1>c, <1>e, <1>f, <1>g, NsimHwstatsAssumption
     DEF NsimHwstatsAssumption, HwTypeOK, ListInv, Listed, Hears, FilesThere
<1>3. EnabledInv'
  BY <1>0, <1>a, <1>c, <1>e, <1>f, <1>g, NsimHwstatsAssumption
     DEF NsimHwstatsAssumption, HwTypeOK, ListInv, EnabledInv, Listed, ToCount
<1>4. ZeroInv'
  BY <1>0, <1>a, <1>c, <1>e, <1>f, <1>g, NsimHwstatsAssumption
     DEF NsimHwstatsAssumption, HwTypeOK, ListInv, EnabledInv, ZeroInv, Listed, ToCount
<1>5. ASSUME NEW n \in Netdevs
      PROVE  (IF n \in xstats THEN total[n] + Pending(n) = counted[n] ELSE Pending(n) = 0)'
  <2>1. total[n] \in Nat /\ counted[n] \in Nat /\ (Listed(n) => hws[n].stats \in Nat)
    BY <1>0, <1>z DEF HwTypeOK
  <2>2. IF n \in xstats THEN total[n] + Pending(n) = counted[n] ELSE Pending(n) = 0
    BY <1>0 DEF StatsExact
  <2>3. n \notin xstats => total[n] = 0 /\ counted[n] = 0
    BY <1>0 DEF ZeroInv
  <2>4. Listed(n) => (hws[n].enabled <=> ToCount(n))
    BY <1>0 DEF EnabledInv
  <2> QED
    BY <2>1, <2>2, <2>3, <2>4, <1>a, <1>c, <1>e, <1>f, <1>g DEF Listed, Pending
<1>6. StatsExact'
  BY <1>5 DEF StatsExact
<1> QED
  BY <1>1, <1>2, <1>3, <1>4, <1>6 DEF HwInv

\* A netdev goes, and its entry.
LEMMA HwNetdevUnregister ==
  ASSUME HwInv, NEW m \in Netdevs, NetdevUnregister(m)
  PROVE  HwInv'
<1>0. HwTypeOK /\ ListInv /\ EnabledInv /\ ZeroInv /\ StatsExact
  BY DEF HwInv
<1>z. \A n \in Netdevs : Listed(n) => hws[n] \in Hwsdev /\ hws[n].stats \in Nat
  BY <1>0, ListedIs, Entries
<1>a. /\ adding = NoNetdev /\ m \in netdevs
      /\ hwPhase' = hwPhase /\ netdevs' = netdevs \ {m} /\ xstats' = xstats \ {m} /\ silent' = silent \ {m}
      /\ adding' = adding /\ work' = work
      /\ total' \in [Netdevs -> Nat] /\ \A n \in Netdevs \ {m} : total'[n] = total[n]
      /\ counted' \in [Netdevs -> Nat] /\ \A n \in Netdevs \ {m} : counted'[n] = counted[n]
      /\ total'[m] = 0 /\ counted'[m] = 0
  BY <1>0, <1>z DEF HwTypeOK, Rtnl, NetdevUnregister, coreVars
<1> DEFINE x == IF Hears THEN NoNetdev ELSE hws[m]
<1>b. hws' = [hws EXCEPT ![m] = x]
  BY <1>0, <1>a DEF HwTypeOK, Listed, NetdevUnregister
<1>c. x = NoNetdev
  BY <1>0, <1>a, <1>z, Entries, NsimHwstatsAssumption DEF NsimHwstatsAssumption, HwTypeOK, ListInv, Listed
<1> HIDE DEF x
<1>d. x \in Hwsdev \cup {NoNetdev} /\ m \in Netdevs
  BY <1>0, <1>a, <1>c DEF HwTypeOK
<1>e. /\ hws' \in [Netdevs -> Hwsdev \cup {NoNetdev}]
      /\ hws'[m] = x /\ \A n \in Netdevs \ {m} : hws'[n] = hws[n]
  BY <1>0, <1>b, <1>d, OneEntry
<1>f. x # NoNetdev => x \in Hwsdev
  BY <1>d
<1>g. x \in Hwsdev => x # NoNetdev
  BY Entries
<1>1. HwTypeOK'
  BY <1>0, <1>a, <1>c, <1>e, <1>f, <1>g DEF HwTypeOK, ListInv, Listed
<1>2. ListInv'
  BY <1>0, <1>a, <1>c, <1>e, <1>f, <1>g, NsimHwstatsAssumption
     DEF NsimHwstatsAssumption, HwTypeOK, ListInv, Listed, Hears, FilesThere
<1>3. EnabledInv'
  BY <1>0, <1>a, <1>c, <1>e, <1>f, <1>g, NsimHwstatsAssumption
     DEF NsimHwstatsAssumption, HwTypeOK, ListInv, EnabledInv, Listed, ToCount
<1>4. ZeroInv'
  BY <1>0, <1>a, <1>c, <1>e, <1>f, <1>g, NsimHwstatsAssumption
     DEF NsimHwstatsAssumption, HwTypeOK, ListInv, EnabledInv, ZeroInv, Listed, ToCount
<1>5. ASSUME NEW n \in Netdevs
      PROVE  (IF n \in xstats THEN total[n] + Pending(n) = counted[n] ELSE Pending(n) = 0)'
  <2>1. total[n] \in Nat /\ counted[n] \in Nat /\ (Listed(n) => hws[n].stats \in Nat)
    BY <1>0, <1>z DEF HwTypeOK
  <2>2. IF n \in xstats THEN total[n] + Pending(n) = counted[n] ELSE Pending(n) = 0
    BY <1>0 DEF StatsExact
  <2>3. n \notin xstats => total[n] = 0 /\ counted[n] = 0
    BY <1>0 DEF ZeroInv
  <2>4. Listed(n) => (hws[n].enabled <=> ToCount(n))
    BY <1>0 DEF EnabledInv
  <2> QED
    BY <2>1, <2>2, <2>3, <2>4, <1>a, <1>c, <1>e, <1>f, <1>g DEF Listed, Pending
<1>6. StatsExact'
  BY <1>5 DEF StatsExact
<1> QED
  BY <1>1, <1>2, <1>3, <1>4, <1>6 DEF HwInv

\* A netdev comes.
LEMMA HwNetdevRegister ==
  ASSUME HwInv, NEW m \in Netdevs, NetdevRegister(m)
  PROVE  HwInv'
<1>0. HwTypeOK /\ ListInv /\ EnabledInv /\ ZeroInv /\ StatsExact
  BY DEF HwInv
<1>z. \A n \in Netdevs : Listed(n) => hws[n] \in Hwsdev /\ hws[n].stats \in Nat
  BY <1>0, ListedIs, Entries
<1>a. /\ adding = NoNetdev /\ m \notin netdevs
      /\ hwPhase' = hwPhase /\ netdevs' = netdevs \cup {m} /\ xstats' = xstats /\ silent' = silent
      /\ total' = total /\ counted' = counted /\ adding' = adding /\ work' = work
  BY <1>0, <1>z DEF HwTypeOK, Rtnl, NetdevRegister, coreVars
<1>b0. hws' = hws
  BY <1>0, <1>a DEF HwTypeOK, ListInv, Listed, NetdevRegister
<1>1. HwTypeOK'
  BY <1>0, <1>a, <1>b0 DEF HwTypeOK, ListInv, Listed
<1>2. ListInv'
  BY <1>0, <1>a, <1>b0, NsimHwstatsAssumption DEF NsimHwstatsAssumption, HwTypeOK, ListInv, Listed, Hears, FilesThere
<1>3. EnabledInv'
  BY <1>0, <1>a, <1>b0, NsimHwstatsAssumption
     DEF NsimHwstatsAssumption, HwTypeOK, ListInv, EnabledInv, Listed, ToCount
<1>4. ZeroInv'
  BY <1>0, <1>a, <1>b0, NsimHwstatsAssumption
     DEF NsimHwstatsAssumption, HwTypeOK, ListInv, EnabledInv, ZeroInv, Listed, ToCount
<1>5. ASSUME NEW n \in Netdevs
      PROVE  (IF n \in xstats THEN total[n] + Pending(n) = counted[n] ELSE Pending(n) = 0)'
  <2>1. total[n] \in Nat /\ counted[n] \in Nat /\ (Listed(n) => hws[n].stats \in Nat)
    BY <1>0, <1>z DEF HwTypeOK
  <2>2. IF n \in xstats THEN total[n] + Pending(n) = counted[n] ELSE Pending(n) = 0
    BY <1>0 DEF StatsExact
  <2>3. n \notin xstats => total[n] = 0 /\ counted[n] = 0
    BY <1>0 DEF ZeroInv
  <2>4. Listed(n) => (hws[n].enabled <=> ToCount(n))
    BY <1>0 DEF EnabledInv
  <2> QED
    BY <2>1, <2>2, <2>3, <2>4, <1>a, <1>b0 DEF Listed, Pending
<1>6. StatsExact'
  BY <1>5 DEF StatsExact
<1> QED
  BY <1>1, <1>2, <1>3, <1>4, <1>6 DEF HwInv

\* The second half of enable_ifindex.
LEMMA HwEnableIfindexEnd ==
  ASSUME HwInv, EnableIfindexEnd
  PROVE  HwInv'
<1>0. HwTypeOK /\ ListInv /\ EnabledInv /\ ZeroInv /\ StatsExact
  BY DEF HwInv
<1>z. \A n \in Netdevs : Listed(n) => hws[n] \in Hwsdev /\ hws[n].stats \in Nat
  BY <1>0, ListedIs, Entries
<1>a. /\ adding # NoNetdev
      /\ hwPhase' = hwPhase /\ netdevs' = netdevs /\ xstats' = xstats
      /\ total' = total /\ counted' = counted /\ adding' = NoNetdev /\ work' = work
  BY <1>0, <1>z DEF HwTypeOK, Rtnl, EnableIfindexEnd, coreVars
<1> DEFINE x == IF adding \in xstats THEN HwsdevEnable(hws[adding]) ELSE hws[adding]
<1>b. hws' = [hws EXCEPT ![adding] = x]
  BY <1>0, <1>a DEF HwTypeOK, Listed, EnableIfindexEnd
<1>c. x \in Hwsdev /\ x.stats = hws[adding].stats /\ (x.enabled <=> (adding \in xstats /\ ~hws[adding].fail_enable))
  BY <1>0, <1>a, <1>z, EnableEntry, Entries, NsimHwstatsAssumption
     DEF NsimHwstatsAssumption, HwTypeOK, ListInv, Listed, EnabledInv, ToCount
<1> HIDE DEF x
<1>d. x \in Hwsdev \cup {NoNetdev} /\ adding \in Netdevs
  BY <1>0, <1>a, <1>c DEF HwTypeOK
<1>e. /\ hws' \in [Netdevs -> Hwsdev \cup {NoNetdev}]
      /\ hws'[adding] = x /\ \A n \in Netdevs \ {adding} : hws'[n] = hws[n]
  BY <1>0, <1>b, <1>d, OneEntry
<1>f. silent' = IF adding \in xstats /\ hws[adding].fail_enable THEN silent \cup {adding} ELSE silent
  BY DEF EnableIfindexEnd
<1>g. x # NoNetdev
  BY <1>c, Entries
<1>1. HwTypeOK'
  BY <1>0, <1>a, <1>c, <1>e, <1>f, <1>g DEF HwTypeOK, ListInv, Listed
<1>2. ListInv'
  BY <1>0, <1>a, <1>c, <1>e, <1>f, <1>g, NsimHwstatsAssumption
     DEF NsimHwstatsAssumption, HwTypeOK, ListInv, Listed, Hears, FilesThere
<1>3. EnabledInv'
  BY <1>0, <1>a, <1>c, <1>e, <1>f, <1>g, NsimHwstatsAssumption
     DEF NsimHwstatsAssumption, HwTypeOK, ListInv, EnabledInv, Listed, ToCount
<1>4. ZeroInv'
  BY <1>0, <1>a, <1>c, <1>e, <1>f, <1>g, NsimHwstatsAssumption
     DEF NsimHwstatsAssumption, HwTypeOK, ListInv, EnabledInv, ZeroInv, Listed, ToCount
<1>5. ASSUME NEW n \in Netdevs
      PROVE  (IF n \in xstats THEN total[n] + Pending(n) = counted[n] ELSE Pending(n) = 0)'
  <2>1. total[n] \in Nat /\ counted[n] \in Nat /\ (Listed(n) => hws[n].stats \in Nat)
    BY <1>0, <1>z DEF HwTypeOK
  <2>2. IF n \in xstats THEN total[n] + Pending(n) = counted[n] ELSE Pending(n) = 0
    BY <1>0 DEF StatsExact
  <2>3. n \notin xstats => total[n] = 0 /\ counted[n] = 0
    BY <1>0 DEF ZeroInv
  <2>4. Listed(n) => (hws[n].enabled <=> ToCount(n))
    BY <1>0 DEF EnabledInv
  <2>5. Listed(adding) /\ hws[adding].stats = 0
    BY <1>0, <1>a DEF HwTypeOK, ListInv, ZeroInv
  <2>6. Pending(n)' = Pending(n)
    BY <2>5, <1>c, <1>e, <1>g DEF Listed, Pending
  <2> QED
    BY <2>2, <2>6, <1>a
<1>6. StatsExact'
  BY <1>5 DEF StatsExact
<1> QED
  BY <1>1, <1>2, <1>3, <1>4, <1>6 DEF HwInv

\* The work counts for the entries that are enabled.
LEMMA HwWorkBump ==
  ASSUME HwInv, WorkBump
  PROVE  HwInv'
<1>0. HwTypeOK /\ ListInv /\ EnabledInv /\ ZeroInv /\ StatsExact
  BY DEF HwInv
<1>z. \A n \in Netdevs : Listed(n) => hws[n] \in Hwsdev /\ hws[n].stats \in Nat
  BY <1>0, ListedIs, Entries
<1>a. /\ hwPhase' = hwPhase /\ netdevs' = netdevs /\ xstats' = xstats /\ silent' = silent
      /\ total' = total /\ adding' = adding /\ work # "none" /\ work' = "running"
      /\ counted' \in [Netdevs -> Nat] /\ \A n \in Netdevs : counted'[n] = IF ToCount(n) THEN counted[n] + 1 ELSE counted[n]
  <2>1. ASSUME NEW n \in Netdevs PROVE counted[n] \in Nat /\ counted[n] + 1 \in Nat
    <3>1. counted[n] \in Nat
      BY <1>0 DEF HwTypeOK
    <3> QED
      BY <3>1
  <2> QED
    BY <2>1 DEF WorkBump, coreVars
<1>b. ASSUME NEW n \in Netdevs PROVE
        /\ hws'[n] \in Hwsdev \cup {NoNetdev} /\ (Listed(n)' <=> Listed(n))
        /\ Listed(n) => /\ hws'[n].enabled <=> hws[n].enabled
                        /\ hws'[n].stats = IF hws[n].enabled THEN hws[n].stats + 1 ELSE hws[n].stats
  <2>1. hws'[n] = IF Listed(n) /\ hws[n].enabled THEN [hws[n] EXCEPT !.stats = @ + 1] ELSE hws[n]
    BY DEF WorkBump
  <2>2. CASE Listed(n) /\ hws[n].enabled
    <3>1. hws'[n] = [hws[n] EXCEPT !.stats = @ + 1] /\ hws[n] \in Hwsdev
      BY <2>1, <2>2, <1>z
    <3>2. hws'[n] \in Hwsdev /\ hws'[n].stats = hws[n].stats + 1 /\ (hws'[n].enabled <=> hws[n].enabled)
      BY <3>1, BumpEntry
    <3> QED
      BY <3>2, <2>2, Entries DEF Listed
  <2>3. CASE ~(Listed(n) /\ hws[n].enabled)
    BY <2>1, <2>3, <1>0 DEF HwTypeOK, Listed
  <2> QED
    BY <2>2, <2>3
<1>c. hws' \in [Netdevs -> Hwsdev \cup {NoNetdev}]
  BY <1>b DEF WorkBump
<1>1. HwTypeOK'
  BY <1>0, <1>a, <1>b, <1>c DEF HwTypeOK, ListInv, Listed
<1>2. ListInv'
  BY <1>0, <1>a, <1>b, <1>c, NsimHwstatsAssumption
     DEF NsimHwstatsAssumption, HwTypeOK, ListInv, Listed, Hears, FilesThere
<1>3. EnabledInv'
  BY <1>0, <1>a, <1>b, <1>c, NsimHwstatsAssumption
     DEF NsimHwstatsAssumption, HwTypeOK, ListInv, EnabledInv, Listed, ToCount
<1>4. ZeroInv'
  <2> SUFFICES ASSUME NEW n \in Netdevs
               PROVE  (/\ n \notin xstats => total[n] = 0 /\ counted[n] = 0
                       /\ n = adding => hws[n].stats = 0)'
    BY DEF ZeroInv
  <2>1. n \notin xstats \/ n = adding => ~ToCount(n)
    BY DEF ToCount
  <2>2. n = adding => Listed(n) /\ ~hws[n].enabled
    BY <1>0, <2>1, NsimHwstatsAssumption DEF NsimHwstatsAssumption, ListInv, EnabledInv
  <2>3. n \notin xstats => total[n] = 0 /\ counted[n] = 0
    BY <1>0 DEF ZeroInv
  <2>4. n = adding => hws[n].stats = 0
    BY <1>0 DEF ZeroInv
  <2> QED
    BY <1>a, <1>b, <2>1, <2>2, <2>3, <2>4
<1>5. ASSUME NEW n \in Netdevs
      PROVE  (IF n \in xstats THEN total[n] + Pending(n) = counted[n] ELSE Pending(n) = 0)'
  <2>1. total[n] \in Nat /\ counted[n] \in Nat /\ (Listed(n) => hws[n].stats \in Nat)
    BY <1>0, <1>z DEF HwTypeOK
  <2>2. IF n \in xstats THEN total[n] + Pending(n) = counted[n] ELSE Pending(n) = 0
    BY <1>0 DEF StatsExact
  <2>3. n \notin xstats => total[n] = 0 /\ counted[n] = 0
    BY <1>0 DEF ZeroInv
  <2>4. Listed(n) => (hws[n].enabled <=> ToCount(n))
    BY <1>0 DEF EnabledInv
  <2>5. CASE ToCount(n)
    <3>1. Listed(n) /\ hws[n].enabled /\ n \in xstats
      BY <2>4, <2>5 DEF ToCount
    <3>2. Pending(n)' = Pending(n) + 1
      BY <3>1, <1>b DEF Pending
    <3>3. counted'[n] = counted[n] + 1 /\ total'[n] = total[n] /\ n \in xstats'
      BY <1>a, <2>5, <3>1
    <3>4. Pending(n) \in Nat /\ total[n] + Pending(n) = counted[n]
      BY <2>1, <2>2, <3>1 DEF Pending
    <3>5. total[n] + (Pending(n) + 1) = counted[n] + 1
      BY <2>1, <3>4
    <3> QED
      BY <3>2, <3>3, <3>5
  <2>6. CASE ~ToCount(n)
    <3>1. Pending(n)' = Pending(n)
      BY <2>4, <2>6, <1>b DEF Pending
    <3> QED
      BY <3>1, <2>2, <2>6, <1>a
  <2> QED
    BY <2>5, <2>6
<1>6. StatsExact'
  BY <1>5 DEF StatsExact
<1> QED
  BY <1>1, <1>2, <1>3, <1>4, <1>6 DEF HwInv

\* The work is queued again.
LEMMA HwWorkRequeue ==
  ASSUME HwInv, WorkRequeue
  PROVE  HwInv'
<1>0. HwTypeOK /\ ListInv /\ EnabledInv /\ ZeroInv /\ StatsExact
  BY DEF HwInv
<1>1. HwTypeOK'
  BY <1>0 DEF HwTypeOK, ListInv, WorkRequeue, Rtnl, FilesThere, Hears, Listed, ToCount, Pending, coreVars
<1>2. ListInv'
  BY <1>0 DEF HwTypeOK, ListInv, WorkRequeue, Rtnl, FilesThere, Hears, Listed, ToCount, Pending, coreVars
<1>3. EnabledInv'
  BY <1>0 DEF HwTypeOK, ListInv, EnabledInv, WorkRequeue, Rtnl, FilesThere, Hears, Listed, ToCount, Pending, coreVars
<1>4. ZeroInv'
  BY <1>0, NsimHwstatsAssumption
     DEF NsimHwstatsAssumption, HwTypeOK, ListInv, ZeroInv, WorkRequeue, Rtnl, FilesThere, Hears, Listed,
         ToCount, Pending, coreVars
<1>5. StatsExact'
  BY <1>0
     DEF HwTypeOK, ListInv, EnabledInv, ZeroInv, StatsExact, WorkRequeue, Rtnl, FilesThere, Hears, Listed,
         ToCount, Pending, coreVars
<1> QED
  BY <1>1, <1>2, <1>3, <1>4, <1>5 DEF HwInv

\* The work has stopped.
LEMMA HwExitCancel ==
  ASSUME HwInv, ExitCancel
  PROVE  HwInv'
<1>0. HwTypeOK /\ ListInv /\ EnabledInv /\ ZeroInv /\ StatsExact
  BY DEF HwInv
<1>1. HwTypeOK'
  BY <1>0 DEF HwTypeOK, ListInv, ExitCancel, Rtnl, FilesThere, Hears, Listed, ToCount, Pending, coreVars
<1>2. ListInv'
  BY <1>0 DEF HwTypeOK, ListInv, ExitCancel, Rtnl, FilesThere, Hears, Listed, ToCount, Pending, coreVars
<1>3. EnabledInv'
  BY <1>0 DEF HwTypeOK, ListInv, EnabledInv, ExitCancel, Rtnl, FilesThere, Hears, Listed, ToCount, Pending, coreVars
<1>4. ZeroInv'
  BY <1>0, NsimHwstatsAssumption
     DEF NsimHwstatsAssumption, HwTypeOK, ListInv, ZeroInv, ExitCancel, Rtnl, FilesThere, Hears, Listed,
         ToCount, Pending, coreVars
<1>5. StatsExact'
  BY <1>0
     DEF HwTypeOK, ListInv, EnabledInv, ZeroInv, StatsExact, ExitCancel, Rtnl, FilesThere, Hears, Listed,
         ToCount, Pending, coreVars
<1> QED
  BY <1>1, <1>2, <1>3, <1>4, <1>5 DEF HwInv

\* The debugfs files are gone.
LEMMA HwExitFiles ==
  ASSUME HwInv, ExitFiles
  PROVE  HwInv'
<1>0. HwTypeOK /\ ListInv /\ EnabledInv /\ ZeroInv /\ StatsExact
  BY DEF HwInv
<1>1. HwTypeOK'
  BY <1>0 DEF HwTypeOK, ListInv, ExitFiles, Rtnl, FilesThere, Hears, Listed, ToCount, Pending, coreVars
<1>2. ListInv'
  BY <1>0 DEF HwTypeOK, ListInv, ExitFiles, Rtnl, FilesThere, Hears, Listed, ToCount, Pending, coreVars
<1>3. EnabledInv'
  BY <1>0 DEF HwTypeOK, ListInv, EnabledInv, ExitFiles, Rtnl, FilesThere, Hears, Listed, ToCount, Pending, coreVars
<1>4. ZeroInv'
  BY <1>0, NsimHwstatsAssumption
     DEF NsimHwstatsAssumption, HwTypeOK, ListInv, ZeroInv, ExitFiles, Rtnl, FilesThere, Hears, Listed,
         ToCount, Pending, coreVars
<1>5. StatsExact'
  BY <1>0
     DEF HwTypeOK, ListInv, EnabledInv, ZeroInv, StatsExact, ExitFiles, Rtnl, FilesThere, Hears, Listed,
         ToCount, Pending, coreVars
<1> QED
  BY <1>1, <1>2, <1>3, <1>4, <1>5 DEF HwInv

\* The notifier is unregistered, and the list is empty.
LEMMA HwExitNotifier ==
  ASSUME HwInv, ExitNotifier
  PROVE  HwInv'
<1>0. HwTypeOK /\ ListInv /\ EnabledInv /\ ZeroInv /\ StatsExact
  BY DEF HwInv
<1>z. \A n \in Netdevs : Listed(n) => hws[n] \in Hwsdev /\ hws[n].stats \in Nat
  BY <1>0, ListedIs, Entries
<1>a. /\ hwPhase = "files gone" /\ adding = NoNetdev
      /\ hwPhase' = "deaf" /\ netdevs' = netdevs /\ xstats' = xstats /\ silent' = {}
      /\ total' = total /\ counted' = total /\ adding' = adding /\ work' = work
  BY <1>0, <1>z DEF HwTypeOK, Rtnl, ExitNotifier, coreVars
<1>b0. hws' \in [Netdevs -> Hwsdev \cup {NoNetdev}]
  BY <1>0, <1>a DEF HwTypeOK, ListInv, Listed, ExitNotifier
<1>b1. \A n \in Netdevs : ~Listed(n)'
  BY <1>0, <1>a DEF HwTypeOK, ListInv, Listed, ExitNotifier
<1>1. HwTypeOK'
  BY <1>0, <1>a, <1>b0, <1>b1 DEF HwTypeOK, ListInv, Listed
<1>2. ListInv'
  BY <1>0, <1>a, <1>b0, <1>b1, NsimHwstatsAssumption
     DEF NsimHwstatsAssumption, HwTypeOK, ListInv, Listed, Hears, FilesThere
<1>3. EnabledInv'
  BY <1>0, <1>a, <1>b0, <1>b1, NsimHwstatsAssumption
     DEF NsimHwstatsAssumption, HwTypeOK, ListInv, EnabledInv, Listed, ToCount
<1>4. ZeroInv'
  BY <1>0, <1>a, <1>b0, <1>b1, NsimHwstatsAssumption
     DEF NsimHwstatsAssumption, HwTypeOK, ListInv, EnabledInv, ZeroInv, Listed, ToCount
<1>5. ASSUME NEW n \in Netdevs
      PROVE  (IF n \in xstats THEN total[n] + Pending(n) = counted[n] ELSE Pending(n) = 0)'
  <2>1. total[n] \in Nat /\ counted[n] \in Nat /\ (Listed(n) => hws[n].stats \in Nat)
    BY <1>0, <1>z DEF HwTypeOK
  <2>2. IF n \in xstats THEN total[n] + Pending(n) = counted[n] ELSE Pending(n) = 0
    BY <1>0 DEF StatsExact
  <2>3. n \notin xstats => total[n] = 0 /\ counted[n] = 0
    BY <1>0 DEF ZeroInv
  <2>4. Listed(n) => (hws[n].enabled <=> ToCount(n))
    BY <1>0 DEF EnabledInv
  <2>5. Pending(n)' = 0
    BY <1>b1 DEF Pending
  <2>6. total[n] + 0 = total[n]
    BY <2>1
  <2> QED
    BY <2>5, <2>6, <1>a
<1>6. StatsExact'
  BY <1>5 DEF StatsExact
<1> QED
  BY <1>1, <1>2, <1>3, <1>4, <1>6 DEF HwInv

\* The list is freed.
LEMMA HwExitWipe ==
  ASSUME HwInv, ExitWipe
  PROVE  HwInv'
<1>0. HwTypeOK /\ ListInv /\ EnabledInv /\ ZeroInv /\ StatsExact
  BY DEF HwInv
<1>1. HwTypeOK'
  BY <1>0 DEF HwTypeOK, ListInv, ExitWipe, Rtnl, FilesThere, Hears, Listed, ToCount, Pending, coreVars
<1>2. ListInv'
  BY <1>0 DEF HwTypeOK, ListInv, ExitWipe, Rtnl, FilesThere, Hears, Listed, ToCount, Pending, coreVars
<1>3. EnabledInv'
  BY <1>0 DEF HwTypeOK, ListInv, EnabledInv, ExitWipe, Rtnl, FilesThere, Hears, Listed, ToCount, Pending, coreVars
<1>4. ZeroInv'
  BY <1>0, NsimHwstatsAssumption
     DEF NsimHwstatsAssumption, HwTypeOK, ListInv, ZeroInv, ExitWipe, Rtnl, FilesThere, Hears, Listed,
         ToCount, Pending, coreVars
<1>5. StatsExact'
  BY <1>0
     DEF HwTypeOK, ListInv, EnabledInv, ZeroInv, StatsExact, ExitWipe, Rtnl, FilesThere, Hears, Listed,
         ToCount, Pending, coreVars
<1> QED
  BY <1>1, <1>2, <1>3, <1>4, <1>5 DEF HwInv

\* The list is made.
LEMMA HwHwInit ==
  ASSUME HwInv, HwInit
  PROVE  HwInv'
<1>0. HwTypeOK /\ ListInv /\ EnabledInv /\ ZeroInv /\ StatsExact
  BY DEF HwInv
<1>1. HwTypeOK'
  BY <1>0 DEF HwTypeOK, ListInv, HwInit, Rtnl, FilesThere, Hears, Listed, ToCount, Pending, coreVars
<1>2. ListInv'
  BY <1>0 DEF HwTypeOK, ListInv, HwInit, Rtnl, FilesThere, Hears, Listed, ToCount, Pending, coreVars
<1>3. EnabledInv'
  BY <1>0 DEF HwTypeOK, ListInv, EnabledInv, HwInit, Rtnl, FilesThere, Hears, Listed, ToCount, Pending, coreVars
<1>4. ZeroInv'
  BY <1>0, NsimHwstatsAssumption
     DEF NsimHwstatsAssumption, HwTypeOK, ListInv, ZeroInv, HwInit, Rtnl, FilesThere, Hears, Listed, ToCount,
         Pending, coreVars
<1>5. StatsExact'
  BY <1>0
     DEF HwTypeOK, ListInv, EnabledInv, ZeroInv, StatsExact, HwInit, Rtnl, FilesThere, Hears, Listed,
         ToCount, Pending, coreVars
<1> QED
  BY <1>1, <1>2, <1>3, <1>4, <1>5 DEF HwInv

\* The invariant of the statistics holds at the start and is kept by every step.
LEMMA HwAlways == Spec => []HwInv
<1>1. Init => HwInv
  BY NsimHwstatsAssumption DEF NsimHwstatsAssumption, Init, HwStart, HwInv, HwTypeOK, ListInv, EnabledInv,
     ZeroInv, StatsExact, Listed, Pending, ToCount, FilesThere, Hears
<1>2. HwInv /\ [Next]_vars => HwInv'
  <2> SUFFICES ASSUME HwInv, [Next]_vars PROVE HwInv'
    OBVIOUS
  <2>1. CASE UNCHANGED hwVars
    BY <2>1 DEF hwVars, coreVars, HwInv, HwTypeOK, ListInv, EnabledInv, ZeroInv, StatsExact, Listed,
       Pending, ToCount, FilesThere, Hears
  <2>2. CASE HwInit
    BY <2>2, HwHwInit
  <2>3. CASE HwNext
    <3>1. ASSUME NEW m \in Netdevs,
                 \/ EnableIfindex(m) \/ DisableIfindex(m) \/ FailIfindex(m)
                 \/ XstatsEnable(m) \/ XstatsDisable(m) \/ ReportDelta(m)
                 \/ NetdevUnregister(m) \/ NetdevRegister(m)
          PROVE  HwInv'
      BY <3>1, HwEnableIfindex, HwDisableIfindex, HwFailIfindex, HwXstatsEnable, HwXstatsDisable,
         HwReportDelta, HwNetdevUnregister, HwNetdevRegister
    <3>2. ASSUME \/ EnableIfindexEnd \/ WorkBump \/ WorkRequeue
                 \/ ExitCancel \/ ExitFiles \/ ExitNotifier \/ ExitWipe
          PROVE  HwInv'
      BY <3>2, HwEnableIfindexEnd, HwWorkBump, HwWorkRequeue, HwExitCancel, HwExitFiles,
         HwExitNotifier, HwExitWipe
    <3> QED
      BY <2>3, <3>1, <3>2 DEF HwNext
  <2> QED
    BY <2>1, <2>2, <2>3 DEF Next, vars, DevFibCreate, DevHwstatsInit, DevFibDestroy
<1> QED
  BY <1>1, <1>2, PTL DEF Spec

\* For any number of netdevs, and fail_next_enable and the work at any time between
\* the halves of enable_ifindex: what the core has collected and what it has still
\* to collect make up every run of the work since the statistics were turned on.
THEOREM EveryRunCounted == Spec => []StatsExact
<1>1. HwInv => StatsExact
  BY DEF HwInv
<1> QED
  BY <1>1, HwAlways, PTL

\* For any number of netdevs: the list holds only netdevs that are registered, of a
\* device that is there, and the work has stopped when the list is freed.
THEOREM ReferencesGoInTime == Spec => []HeldIsThere
<1>1. HwInv => HeldIsThere
  BY DEF HwInv, HwTypeOK, ListInv, HeldIsThere, Hears
<1> QED
  BY <1>1, HwAlways, PTL

-----------------------------------------------------------------------------
(* The sum over the nexthops, which MapThenSumSet computes one by one. *)

\* Some element.
AnyOf(s) == CHOOSE x \in s : TRUE

\* g has the sum of f over every set of nexthops, S being those it is about.
TallyOn(g, f, S) ==
  g = [s \in S |-> IF s = {} THEN 0 ELSE f[AnyOf(s)] + g[s \ {AnyOf(s)}]]

\* The sum of f over every set of nexthops.
Tally(f) == CHOOSE g : TallyOn(g, f, SUBSET Nhids)

\* What the sum stands for.
LEMMA SumIsTally == \A f : SumOf(f) = Tally(f)[Nhids]
BY DEF SumOf, MapThenSumSet, MapThenFoldSet, Tally, TallyOn, AnyOf

\* An element is picked from a set that has one.
LEMMA AnyOfIs ==
  ASSUME NEW s, s # {}
  PROVE  AnyOf(s) \in s
BY DEF AnyOf

\* A set of natural numbers that is not empty has a least element.
LEMMA LeastNatural ==
  ASSUME NEW T \in SUBSET Nat, T # {}
  PROVE  \E x \in T : \A y \in T : x <= y
<1> DEFINE R == OpToRel(<, Nat)
<1>1. IsWellFoundedOn(R, Nat)
  BY NatLessThanWellFounded
<1>2. \A x, y \in Nat : <<y, x>> \in R <=> y < x
  BY DEF OpToRel
<1> HIDE DEF R
<1>3. PICK x \in T : \A y \in T : ~ (<<y, x>> \in R)
  BY <1>1, WFMin
<1>4. \A y \in T : y \in Nat
  OBVIOUS
<1>5. \A y \in T : ~(y < x)
  BY <1>2, <1>3, <1>4, Zenon
<1>6. \A y \in T : x <= y
  BY <1>4, <1>5
<1> QED
  BY <1>6

\* Picking one leaves a set with one less.
LEMMA OneLess ==
  ASSUME NEW s \in SUBSET Nhids, s # {}
  PROVE  /\ AnyOf(s) \in s /\ s \ {AnyOf(s)} \in SUBSET Nhids
         /\ Cardinality(s) \in Nat /\ Cardinality(s \ {AnyOf(s)}) = Cardinality(s) - 1
         /\ Cardinality(s) >= 1
<1>1. AnyOf(s) \in s
  BY AnyOfIs
<1>2. IsFiniteSet(s)
  BY NsimNexthopsAssumption, FS_Subset DEF NsimNexthopsAssumption
<1>3. Cardinality(s) \in Nat /\ Cardinality(s \ {AnyOf(s)}) = Cardinality(s) - 1
  BY <1>1, <1>2, FS_CardinalityType, FS_RemoveElement
<1>4. Cardinality(s) # 0
  BY <1>2, FS_EmptySet
<1> QED
  BY <1>1, <1>3, <1>4

\* A set of sets of nexthops that is not empty has one that is smallest.
LEMMA SmallestSet ==
  ASSUME NEW B \in SUBSET (SUBSET Nhids), B # {}
  PROVE  \E s \in B : \A t \in B : Cardinality(s) <= Cardinality(t)
<1> DEFINE T == {Cardinality(s) : s \in B}
<1>1. ASSUME NEW s \in B PROVE Cardinality(s) \in Nat
  BY NsimNexthopsAssumption, FS_Subset, FS_CardinalityType DEF NsimNexthopsAssumption
<1>2. T \in SUBSET Nat /\ T # {}
  BY <1>1
<1>3. PICK x \in T : \A y \in T : x <= y
  BY <1>2, LeastNatural
<1> QED
  BY <1>3

\* A set of sets of nexthops holds all if it holds every set when it holds the same
\* without the element picked.
LEMMA SetInduction ==
  ASSUME NEW G \in SUBSET (SUBSET Nhids),
         \A s \in SUBSET Nhids : s = {} \/ s \ {AnyOf(s)} \in G => s \in G
  PROVE  G = SUBSET Nhids
<1> SUFFICES ASSUME G # SUBSET Nhids PROVE FALSE
  OBVIOUS
<1> DEFINE B == (SUBSET Nhids) \ G
<1>1. PICK s \in B : \A t \in B : Cardinality(s) <= Cardinality(t)
  BY SmallestSet
<1>2. s # {} /\ s \ {AnyOf(s)} \notin G
  BY <1>1
<1>3. s \ {AnyOf(s)} \in B
  BY <1>2, OneLess
<1>4. Cardinality(s) \in Nat /\ Cardinality(s \ {AnyOf(s)}) = Cardinality(s) - 1
  BY <1>1, <1>2, OneLess
<1>5. Cardinality(s) <= Cardinality(s \ {AnyOf(s)})
  BY <1>1, <1>3
<1> QED
  BY <1>4, <1>5

\* The sums up to a size.
LEMMA TallyUpTo ==
  ASSUME NEW f, NEW n \in Nat
  PROVE  \E g : TallyOn(g, f, {s \in SUBSET Nhids : Cardinality(s) <= n})
<1> DEFINE Upto(k) == {s \in SUBSET Nhids : Cardinality(s) <= k}
           B == {k \in Nat : ~ \E g : TallyOn(g, f, Upto(k))}
<1> SUFFICES ASSUME B # {} PROVE FALSE
  OBVIOUS
<1>1. PICK k \in B : \A j \in B : k <= j
  BY LeastNatural
<1>2. k \in Nat
  OBVIOUS
<1>3. PICK g0 : k = 0 \/ TallyOn(g0, f, Upto(k - 1))
  <2>1. CASE k = 0
    BY <2>1
  <2>2. CASE k # 0
    <3>1. k - 1 \in Nat /\ ~(k <= k - 1)
      BY <2>2, <1>2
    <3>2. k - 1 \notin B
      BY <3>1, <1>1
    <3> QED
      BY <3>1, <3>2
  <2> QED
    BY <2>1, <2>2
<1> DEFINE g == [s \in Upto(k) |-> IF s = {} THEN 0 ELSE f[AnyOf(s)] + g0[s \ {AnyOf(s)}]]
<1>4. ASSUME NEW s \in Upto(k), s # {}
      PROVE  g[s \ {AnyOf(s)}] = g0[s \ {AnyOf(s)}]
  <2> DEFINE t == s \ {AnyOf(s)}
  <2>1. t \in SUBSET Nhids /\ Cardinality(t) = Cardinality(s) - 1 /\ Cardinality(s) \in Nat /\ Cardinality(s) >= 1
    BY <1>4, OneLess
  <2>2. Cardinality(s) <= k
    BY <1>4
  <2>3. k # 0 /\ Cardinality(t) <= k - 1 /\ Cardinality(t) <= k
    BY <2>1, <2>2, <1>2
  <2>4. t \in Upto(k - 1) /\ t \in Upto(k)
    BY <2>1, <2>3
  <2> HIDE DEF t, Upto
  <2>5. g[t] = IF t = {} THEN 0 ELSE f[AnyOf(t)] + g0[t \ {AnyOf(t)}]
    BY <2>4
  <2>6. TallyOn(g0, f, Upto(k - 1))
    BY <1>3, <2>3
  <2>7. g0[t] = IF t = {} THEN 0 ELSE f[AnyOf(t)] + g0[t \ {AnyOf(t)}]
    BY <2>4, <2>6 DEF TallyOn
  <2>8. g[t] = g0[t]
    BY <2>5, <2>7
  <2> QED
    BY <2>8 DEF t
<1> HIDE DEF Upto
<1>5. g = [s \in Upto(k) |-> IF s = {} THEN 0 ELSE f[AnyOf(s)] + g[s \ {AnyOf(s)}]]
  BY <1>4
<1>6. TallyOn(g, f, Upto(k))
  BY <1>5 DEF TallyOn
<1> QED
  BY <1>1, <1>6

\* There are such sums, so the one that is chosen is one.
LEMMA TallyIs ==
  ASSUME NEW f
  PROVE  TallyOn(Tally(f), f, SUBSET Nhids)
<1> DEFINE n == Cardinality(Nhids)
<1>1. n \in Nat /\ \A s \in SUBSET Nhids : Cardinality(s) <= n
  BY NsimNexthopsAssumption, FS_Subset, FS_CardinalityType DEF NsimNexthopsAssumption
<1>2. {s \in SUBSET Nhids : Cardinality(s) <= n} = SUBSET Nhids
  BY <1>1
<1>3. \E g : TallyOn(g, f, SUBSET Nhids)
  <2> HIDE DEF n
  <2> QED
    BY <1>1, <1>2, TallyUpTo
<1> QED
  BY <1>3 DEF Tally

\* The sum over a set, from that over the set without the element picked.
LEMMA TallyStep ==
  ASSUME NEW f, NEW s \in SUBSET Nhids
  PROVE  Tally(f)[s] = IF s = {} THEN 0 ELSE f[AnyOf(s)] + Tally(f)[s \ {AnyOf(s)}]
<1> DEFINE g == Tally(f)
<1>1. TallyOn(g, f, SUBSET Nhids)
  BY TallyIs
<1> HIDE DEF g
<1>2. g[s] = IF s = {} THEN 0 ELSE f[AnyOf(s)] + g[s \ {AnyOf(s)}]
  BY <1>1 DEF TallyOn
<1> QED
  BY <1>2 DEF g

\* A sum of natural numbers is one.
LEMMA TallyNat ==
  ASSUME NEW f \in [Nhids -> Nat], NEW s \in SUBSET Nhids
  PROVE  Tally(f)[s] \in Nat
<1> DEFINE G == {t \in SUBSET Nhids : Tally(f)[t] \in Nat}
<1>1. ASSUME NEW t \in SUBSET Nhids, t = {} \/ t \ {AnyOf(t)} \in G PROVE t \in G
  <2>1. CASE t = {}
    <3>1. Tally(f)[t] = 0
      BY <2>1, TallyStep
    <3> QED
      BY <3>1
  <2>2. CASE t # {}
    <3>1. f[AnyOf(t)] \in Nat /\ Tally(f)[t \ {AnyOf(t)}] \in Nat
      BY <1>1, <2>2, OneLess
    <3>2. Tally(f)[t] = f[AnyOf(t)] + Tally(f)[t \ {AnyOf(t)}]
      BY <2>2, TallyStep
    <3> QED
      BY <3>1, <3>2
  <2> QED
    BY <2>1, <2>2
<1>2. G = SUBSET Nhids
  BY <1>1, SetInduction
<1> QED
  BY <1>2

\* The sum of nothing is 0.
LEMMA TallyZero ==
  ASSUME NEW f \in [Nhids -> {0}], NEW s \in SUBSET Nhids
  PROVE  Tally(f)[s] = 0
<1> DEFINE G == {t \in SUBSET Nhids : Tally(f)[t] = 0}
<1>1. ASSUME NEW t \in SUBSET Nhids, t = {} \/ t \ {AnyOf(t)} \in G PROVE t \in G
  <2>1. CASE t = {}
    BY <2>1, TallyStep
  <2>2. CASE t # {}
    <3>1. f[AnyOf(t)] = 0 /\ Tally(f)[t \ {AnyOf(t)}] = 0
      BY <1>1, <2>2, OneLess
    <3>2. Tally(f)[t] = f[AnyOf(t)] + Tally(f)[t \ {AnyOf(t)}]
      BY <2>2, TallyStep
    <3> QED
      BY <3>1, <3>2
  <2> QED
    BY <2>1, <2>2
<1>2. G = SUBSET Nhids
  BY <1>1, SetInduction
<1> QED
  BY <1>2

\* The sum after one nexthop has changed.
LEMMA TallyChange ==
  ASSUME NEW f \in [Nhids -> Nat], NEW id \in Nhids, NEW v \in Nat, NEW s \in SUBSET Nhids
  PROVE  Tally([f EXCEPT ![id] = v])[s] = IF id \in s THEN Tally(f)[s] - f[id] + v ELSE Tally(f)[s]
<1> DEFINE h == [f EXCEPT ![id] = v]
           G == {t \in SUBSET Nhids : Tally(h)[t] = IF id \in t THEN Tally(f)[t] - f[id] + v ELSE Tally(f)[t]}
<1>0. f[id] \in Nat /\ h[id] = v /\ \A x \in Nhids \ {id} : h[x] = f[x]
  OBVIOUS
<1> HIDE DEF h
<1>1. ASSUME NEW t \in SUBSET Nhids, t = {} \/ t \ {AnyOf(t)} \in G PROVE t \in G
  <2>1. CASE t = {}
    <3>1. Tally(h)[t] = 0 /\ Tally(f)[t] = 0
      BY <2>1, TallyStep
    <3> QED
      BY <2>1, <3>1
  <2>2. CASE t # {}
    <3> DEFINE x == AnyOf(t)
               r == t \ {x}
    <3>1. x \in t /\ x \in Nhids /\ r \in SUBSET Nhids
      BY <2>2, OneLess
    <3>2. Tally(h)[t] = h[x] + Tally(h)[r] /\ Tally(f)[t] = f[x] + Tally(f)[r]
      BY <2>2, TallyStep
    <3>3. Tally(h)[r] = IF id \in r THEN Tally(f)[r] - f[id] + v ELSE Tally(f)[r]
      BY <1>1, <2>2
    <3>4. Tally(f)[r] \in Nat /\ f[x] \in Nat
      BY <3>1, TallyNat
    <3>5. (id \in r) <=> (id \in t /\ id # x)
      OBVIOUS
    <3> DEFINE a == Tally(f)[r]
    <3> HIDE DEF x, r, a
    <3>6. CASE id = x
      <4>1. Tally(h)[t] = v + a /\ Tally(f)[t] = f[id] + a
        BY <3>2, <3>3, <3>5, <3>6, <1>0 DEF a
      <4>2. v + a = (f[id] + a) - f[id] + v
        BY <1>0, <3>4 DEF a
      <4> QED
        BY <3>1, <3>6, <4>1, <4>2
    <3>7. CASE id # x /\ id \in t
      <4>1. Tally(h)[t] = f[x] + (a - f[id] + v) /\ Tally(f)[t] = f[x] + a
        BY <3>1, <3>2, <3>3, <3>5, <3>7, <1>0 DEF a
      <4>2. f[x] + (a - f[id] + v) = (f[x] + a) - f[id] + v
        BY <1>0, <3>4 DEF a
      <4> QED
        BY <3>7, <4>1, <4>2
    <3>8. CASE id \notin t
      <4>1. Tally(h)[t] = f[x] + a /\ Tally(f)[t] = f[x] + a
        BY <3>1, <3>2, <3>3, <3>5, <3>8, <1>0 DEF a
      <4> QED
        BY <3>8, <4>1
    <3> QED
      BY <3>6, <3>7, <3>8
  <2> QED
    BY <2>1, <2>2
<1>2. G \in SUBSET (SUBSET Nhids)
  OBVIOUS
<1>3. s \in G
  <2> HIDE DEF G
  <2> QED
    BY <1>1, <1>2, SetInduction
<1> QED
  BY <1>3 DEF h

\* SumOf adds up: it is a natural number, nothing for no entries, and follows a
\* change of one nexthop, whose entries it includes.
LEMMA SumOfIs ==
  ASSUME NEW f \in [Nhids -> Nat]
  PROVE  /\ SumOf(f) \in Nat
         /\ SumOf([id \in Nhids |-> 0]) = 0
         /\ \A id \in Nhids : f[id] <= SumOf(f)
         /\ \A id \in Nhids, v \in Nat : SumOf([f EXCEPT ![id] = v]) = SumOf(f) - f[id] + v
<1>1. SumOf(f) \in Nat
  BY SumIsTally, TallyNat
<1>2. SumOf([id \in Nhids |-> 0]) = 0
  BY SumIsTally, TallyZero
<1>3. ASSUME NEW id \in Nhids, NEW v \in Nat
      PROVE  SumOf([f EXCEPT ![id] = v]) = SumOf(f) - f[id] + v
  BY SumIsTally, TallyChange
<1>4. ASSUME NEW id \in Nhids PROVE f[id] <= SumOf(f)
  <2>1. SumOf([f EXCEPT ![id] = 0]) = SumOf(f) - f[id] + 0
    BY <1>3
  <2>2. [f EXCEPT ![id] = 0] \in [Nhids -> Nat]
    OBVIOUS
  <2>3. SumOf([f EXCEPT ![id] = 0]) \in Nat
    BY <2>2, SumIsTally, TallyNat
  <2>4. f[id] \in Nat
    OBVIOUS
  <2> QED
    BY <1>1, <2>1, <2>3, <2>4
<1> QED
  BY <1>1, <1>2, <1>3, <1>4

-----------------------------------------------------------------------------
(* The nexthops. *)

\* The types of the nexthops.
NhTypeOK ==
  /\ nhKernel \in [Nhids -> Nat] /\ nhTable \in [Nhids -> Nat]
  /\ nhNum \in Nat /\ nhUp \in BOOLEAN /\ nhTrap \subseteq Nhids

\* Their inductive invariant.
NhInv == NhTypeOK /\ NexthopsExact

\* What the numbers are: the entries of a nexthop are among those accounted for.
LEMMA NhNumbers ==
  ASSUME NhInv
  PROVE  /\ nhNum \in Nat /\ NhMax \in Nat /\ nhNum <= NhMax
         /\ \A id \in Nhids : nhTable[id] \in Nat /\ nhTable[id] <= nhNum
         /\ \A occ \in Sizes : occ \in Nat /\ occ # 0
         /\ \A occ \in Nat : Taken(occ) \in Nat /\ Taken(occ) <= occ /\ nhNum + Taken(occ) <= NhMax
BY SumOfIs, NsimNexthopsAssumption DEF NsimNexthopsAssumption, NhInv, NhTypeOK, NexthopsExact, Taken

\* An entry that is accepted replaces the old one, and the count follows.
LEMMA InsertKeeps ==
  ASSUME NhInv, NEW id \in Nhids, NEW occ \in Sizes, Insert(id, occ)
  PROVE  /\ nhTable' \in [Nhids -> Nat] /\ nhNum' \in Nat /\ nhTrap' \subseteq Nhids
         /\ nhNum' = SumOf(nhTable') /\ nhNum' <= NhMax
         /\ nhTrap' = {x \in Nhids : nhTable'[x] # 0}
         /\ nhTable'[id] = occ /\ nhStale' = nhStale \ {id}
         /\ \A x \in Nhids \ {id} : nhTable'[x] = nhTable[x]
<1>0. occ \in Nat /\ occ # 0 /\ nhNum \in Nat /\ NhMax \in Nat
  BY NhNumbers
<1>1. /\ Taken(occ) = occ /\ nhTable' = [nhTable EXCEPT ![id] = occ]
      /\ nhNum' = NhUnaccount(nhNum + occ, nhTable[id]) /\ nhTrap' = nhTrap \cup {id}
      /\ nhStale' = nhStale \ {id}
  BY DEF Insert
<1>2. nhNum + occ <= NhMax /\ nhTable[id] \in Nat /\ nhTable[id] <= nhNum
  BY <1>0, <1>1, NhNumbers
<1>3. nhNum' = nhNum - nhTable[id] + occ
  BY <1>0, <1>1, <1>2 DEF NhUnaccount
<1>4. nhNum' = SumOf(nhTable')
  BY <1>0, <1>1, <1>3, SumOfIs DEF NhInv, NhTypeOK, NexthopsExact
<1>5. nhTrap' = {x \in Nhids : nhTable'[x] # 0}
  BY <1>0, <1>1 DEF NhInv, NhTypeOK, NexthopsExact
<1>6. nhNum' \in Nat /\ nhNum' <= NhMax
  BY <1>0, <1>2, <1>3
<1> QED
  BY <1>0, <1>1, <1>4, <1>5, <1>6 DEF NhInv, NhTypeOK

\* An entry that is refused, for want of room or of memory, leaves none taken.
LEMMA RefusedKeeps ==
  ASSUME NhInv, NEW occ \in Sizes, NoSpace(occ) \/ InsertFails(occ)
  PROVE  UNCHANGED <<nhTable, nhNum, nhTrap>>
<1>0. occ \in Nat /\ nhNum \in Nat /\ Taken(occ) \in Nat
  BY NhNumbers
<1>1. nhNum' = NhUnaccount(nhNum + Taken(occ), Taken(occ)) /\ UNCHANGED <<nhTable, nhTrap>>
  BY DEF NoSpace, InsertFails
<1> QED
  BY <1>0, <1>1 DEF NhUnaccount

\* A nexthop that is made or replaced has its entry from then on.
LEMMA NhKeepsReplace ==
  ASSUME NhInv, NEW id \in Nhids, NEW occ \in Sizes, NhReplace(id, occ)
  PROVE  NhInv'
<1>0. occ \in Nat /\ nhKernel' = [nhKernel EXCEPT ![id] = occ] /\ nhUp' = nhUp
  BY NhNumbers DEF NhReplace
<1>1. CASE nhUp
  <2>1. Insert(id, occ)
    BY <1>1 DEF NhReplace
  <2> QED
    BY <1>0, <1>1, <2>1, InsertKeeps DEF NhInv, NhTypeOK, NexthopsExact
<1>2. CASE ~nhUp
  BY <1>0, <1>2 DEF NhReplace, NhInv, NhTypeOK, NexthopsExact
<1> QED
  BY <1>1, <1>2

\* A refusal the kernel heeds changes nothing.
LEMMA NhKeepsRefused ==
  ASSUME NhInv, NEW id \in Nhids, NEW occ \in Sizes, NhRefused(id, occ)
  PROVE  NhInv'
BY RefusedKeeps DEF NhRefused, NhInv, NhTypeOK, NexthopsExact

\* A group the kernel reduces has its entry follow, or keeps more than it needs.
LEMMA NhKeepsReduce ==
  ASSUME NhInv, NEW id \in Nhids, NEW occ \in Sizes, NhReduce(id, occ)
  PROVE  NhInv'
<1>0. /\ occ \in Nat /\ occ # 0 /\ occ < nhKernel[id]
      /\ nhKernel' = [nhKernel EXCEPT ![id] = occ] /\ nhUp' = nhUp
  BY NhNumbers DEF NhReduce
<1>1. CASE nhUp /\ Insert(id, occ)
  BY <1>0, <1>1, InsertKeeps DEF NhInv, NhTypeOK, NexthopsExact
<1>2. CASE nhUp /\ (NoSpace(occ) \/ InsertFails(occ)) /\ nhStale' = nhStale \cup {id}
  <2>1. nhTable' = nhTable /\ nhNum' = nhNum /\ nhTrap' = nhTrap
    BY <1>2, RefusedKeeps
  <2>2. \A x \in Nhids : nhKernel'[x] <= nhKernel[x] /\ nhKernel'[x] \in Nat
    BY <1>0 DEF NhInv, NhTypeOK
  <2>3. \A x \in Nhids : nhTable[x] \in Nat /\ nhKernel[x] \in Nat /\ nhTable[x] >= nhKernel[x]
    BY <1>2 DEF NhInv, NhTypeOK, NexthopsExact
  <2>4. \A x \in Nhids : nhTable[x] >= nhKernel'[x]
    BY <2>2, <2>3
  <2> QED
    BY <1>0, <1>2, <2>1, <2>4 DEF NhInv, NhTypeOK, NexthopsExact
<1>3. CASE ~nhUp /\ UNCHANGED <<nhTable, nhNum, nhTrap, nhStale>>
  BY <1>0, <1>3 DEF NhInv, NhTypeOK, NexthopsExact
<1> QED
  BY <1>1, <1>2, <1>3 DEF NhReduce

\* A nexthop that goes gives its entries back.
LEMMA NhKeepsDelete ==
  ASSUME NhInv, NEW id \in Nhids, NhDelete(id)
  PROVE  NhInv'
<1>0. nhNum \in Nat /\ NhMax \in Nat /\ nhNum <= NhMax /\ nhTable[id] \in Nat /\ nhTable[id] <= nhNum
  BY NhNumbers
<1>1. CASE nhUp
  <2>1. /\ nhTable' = [nhTable EXCEPT ![id] = 0]
        /\ nhNum' = NhUnaccount(nhNum, nhTable[id]) /\ nhTrap' = nhTrap \ {id}
        /\ nhKernel' = [nhKernel EXCEPT ![id] = 0] /\ nhUp' /\ nhStale' = nhStale \ {id}
    BY <1>1 DEF NhDelete
  <2>2. nhNum' = nhNum - nhTable[id] + 0
    BY <2>1, <1>0 DEF NhUnaccount
  <2>3. nhNum = SumOf(nhTable)
    BY DEF NhInv, NexthopsExact
  <2>4. nhNum' = SumOf(nhTable')
    BY <2>1, <2>2, <2>3, <1>0, SumOfIs DEF NhInv, NhTypeOK
  <2>5. nhTrap' = {x \in Nhids : nhTable'[x] # 0}
    BY <2>1 DEF NhInv, NhTypeOK, NexthopsExact
  <2>6. nhNum' \in Nat /\ nhNum' <= NhMax
    BY <2>2, <1>0
  <2>7. NhTypeOK'
    BY <2>1, <2>6, <1>0 DEF NhInv, NhTypeOK
  <2> QED
    BY <1>1, <2>1, <2>4, <2>5, <2>6, <2>7 DEF NhInv, NhTypeOK, NexthopsExact
<1>2. CASE ~nhUp
  BY <1>0, <1>2 DEF NhDelete, NhInv, NhTypeOK, NexthopsExact
<1> QED
  BY <1>1, <1>2

\* Creation accounts for all nexthops that are there.
LEMMA NhKeepsCreate ==
  ASSUME NhInv, NhCreate
  PROVE  NhInv'
<1>1. SumOf(nhKernel) \in Nat
  BY SumOfIs DEF NhInv, NhTypeOK
<1> QED
  BY <1>1 DEF NhCreate, NhInv, NhTypeOK, NexthopsExact

\* Destruction gives everything back.
LEMMA NhKeepsDestroy ==
  ASSUME NhInv, NhDestroy
  PROVE  NhInv'
<1>1. nhNum \in Nat /\ nhNum = SumOf(nhTable) /\ NhMax \in Nat
  BY NhNumbers DEF NhInv, NexthopsExact
<1>2. nhNum' = 0
  BY <1>1 DEF NhDestroy, NhUnaccount
<1>3. SumOf(nhTable') = 0
  BY SumOfIs DEF NhDestroy, NhInv, NhTypeOK
<1>4. nhTable' = [id \in Nhids |-> 0] /\ nhTrap' = {} /\ nhUp' = FALSE /\ nhKernel' = nhKernel
  BY DEF NhDestroy, NhInv, NhTypeOK, NexthopsExact
<1>5. NhTypeOK'
  BY <1>2, <1>4 DEF NhInv, NhTypeOK
<1>6. nhTrap' = {id \in Nhids : nhTable'[id] # 0}
  BY <1>4
<1> QED
  BY <1>1, <1>2, <1>3, <1>4, <1>5, <1>6 DEF NhInv, NexthopsExact

\* For any nexthops, of any sizes, and any size of the resource: the occupancy is
\* that of the table and within the size, and the table is the kernel's, after any
\* changes that were made, refused half way or failed; only a group the kernel has
\* reduced against a refusal keeps more than it needs (nsim_nexthop_replace).
THEOREM NexthopsAccounted == Spec => []NexthopsExact
<1>1. Init => NhInv
  <2> SUFFICES ASSUME Init PROVE NhInv
    OBVIOUS
  <2>1. SumOf(nhTable) = 0
    BY SumOfIs DEF Init, NhStart
  <2>2. nhTable = [id \in Nhids |-> 0] /\ nhKernel = nhTable /\ nhTrap = {} /\ nhNum = 0 /\ nhUp = FALSE
    BY DEF Init, NhStart
  <2>3. NhTypeOK
    BY <2>2 DEF NhTypeOK
  <2>4. nhTrap = {id \in Nhids : nhTable[id] # 0}
    BY <2>2
  <2> QED
    BY <2>1, <2>2, <2>3, <2>4, NsimNexthopsAssumption DEF NsimNexthopsAssumption, NhInv, NexthopsExact
<1>2. NhInv /\ [Next]_vars => NhInv'
  <2> SUFFICES ASSUME NhInv, [Next]_vars PROVE NhInv'
    OBVIOUS
  <2>1. CASE UNCHANGED nhVars
    BY <2>1 DEF nhVars, NhInv, NhTypeOK, NexthopsExact
  <2>2. CASE NhCreate
    BY <2>2, NhKeepsCreate
  <2>3. CASE NhDestroy
    BY <2>3, NhKeepsDestroy
  <2>5. ASSUME NEW id \in Nhids, NhDelete(id) PROVE NhInv'
    BY <2>5, NhKeepsDelete
  <2>6. ASSUME NEW id \in Nhids, NEW occ \in Sizes,
               NhReplace(id, occ) \/ NhRefused(id, occ) \/ NhReduce(id, occ)
        PROVE  NhInv'
    BY <2>6, NhKeepsReplace, NhKeepsRefused, NhKeepsReduce
  <2> QED
    BY <2>1, <2>2, <2>3, <2>5, <2>6
       DEF Next, NhNext, vars, DevFibCreate, DevHwstatsInit, DevFibDestroy
<1>3. NhInv => NexthopsExact
  BY DEF NhInv
<1> QED
  BY <1>1, <1>2, <1>3, PTL DEF Spec

-----------------------------------------------------------------------------
(* The routes: what the invariants are made of. *)

\* The kinds of event.
Kinds == {"replace", "append", "del"}

\* The offload flags.
Flags == {"none", "trap", "failed"}

\* The nexthops of either family.
Infos == Infos4 \cup Infos6

\* The kinds of failure.
Failures == {"new route", "replacement", "dump", "append", "insertion", "delete", "sibling", "veto"}

\* The events the notifier makes: nexthops of the prefix, at least one.
Events ==
  {e \in [kind : Kinds, prefix : Prefixes, infos : SUBSET Infos] :
     e.infos # {} /\ e.infos \subseteq InfosOf(e.prefix)}

\* The locals of register_fib_notifier.
DumpType == [todo : SUBSET Prefixes, changed : BOOLEAN, tries : Nat]

\* The event work.
EvType == [pc : {"idle", "spliced", "locked"}, pending : BOOLEAN, batch : Seq(Events)]

\* The flush work.
FlushType == [pc : {"idle", "wait pending", "wait running", "ready"}, pending : BOOLEAN]

\* The types of the routes: of IPv4 one fib_info at most.
FibTypeOK ==
  /\ kernel \in [Prefixes -> SUBSET Infos] /\ \A p \in Prefixes : kernel[p] \subseteq InfosOf(p)
  /\ \A p \in Prefixes4 : \A i, j \in kernel[p] : i = j
  /\ DOMAIN hwflag = Prefixes /\ \A p \in Prefixes : hwflag[p] \in [InfosOf(p) -> Flags]
  /\ phase \in {"gone", "dump", "check", "live", "inconsistent", "cancel", "drain"}
  /\ dump \in DumpType
  /\ num \in [Families -> Nat]
  /\ queue \in Seq(Events)
  /\ ev \in EvType
  /\ flush \in FlushType
  /\ table \in [Prefixes -> (SUBSET Infos) \cup {None}]
  /\ \A p \in Prefixes : table[p] # None => table[p] \subseteq InfosOf(p)
  /\ failed \subseteq Failures

\* The works: an event in the queue has a run to come, an idle work has no batch,
\* and the flush waits for a run that comes or is under way; it is only ever asked
\* for by a deletion that failed.
WorkInv ==
  /\ EventsScheduled
  /\ ev.pc = "idle" => ev.batch = <<>>
  /\ flush.pc = "wait pending" => ev.pending
  /\ flush.pending \/ flush.pc # "idle" => "delete" \in failed

\* The device: what is left to be dumped, and that nothing is left when it is gone.
PhaseInv ==
  /\ phase # "dump" => dump.todo = {}
  /\ phase \in {"drain", "gone"} => FlushWorkDone
  /\ phase = "gone" => queue = <<>> /\ EventWorkDone /\ \A p \in Prefixes : table[p] = None

\* The number of events that are outstanding.
Total == Len(ev.batch) + Len(queue)

\* The k-th of them.
At(k) == IF k <= Len(ev.batch) THEN ev.batch[k] ELSE queue[k - Len(ev.batch)]

\* The notifier has heard of every change.
Told == phase = "live" \/ (phase \in {"dump", "check"} /\ ~dump.changed)

\* Nothing has been said of p.
Untouched(p) == table[p] = None /\ \A k \in 1..Total : At(k).prefix # p

\* The events of a dump come first, one for a prefix that has no entry yet.
DumpInv ==
  phase \in {"dump", "check"} /\ ~dump.changed =>
    /\ \A p \in dump.todo : Untouched(p)
    /\ \A k \in 1..Total :
         /\ At(k).kind = "replace" /\ table[At(k).prefix] = None
         /\ \A j \in 1..Total : j # k => At(j).prefix # At(k).prefix

\* What an event makes of the route A of p, and the routes to which it may happen.
Step(p, e, A) ==
  IF e.prefix # p THEN A
  ELSE IF e.kind = "replace" THEN e.infos
  ELSE IF e.kind = "append" THEN A \cup e.infos
  ELSE A \ e.infos

\* The routes to which an event may happen.
Fits(p, e, A) ==
  e.prefix = p =>
    /\ e.kind = "replace" => e.infos \cap A = {}
    /\ e.kind = "append"  => e.infos \cap A = {} /\ A # {}
    /\ e.kind = "del"     => e.infos \subseteq A /\ (p \in Prefixes4 => e.infos = A)

\* K is the route of p before and after each of the events: since the c-th it has
\* changed in no other way, and before only lost nexthops.
Path(p, K, c) ==
  /\ K \in [0..Total -> SUBSET InfosOf(p)] /\ c \in 0..Total
  /\ \A k \in 1..Total : /\ Fits(p, At(k), K[k - 1])
                         /\ K[k] \subseteq Step(p, At(k), K[k - 1])
                         /\ k > c => K[k] = Step(p, At(k), K[k - 1])

\* A nexthop of p that none of the events brings.
There(K, i) == \A k \in 0..Total : i \in K[k]

\* A nexthop in the entry.
InTable(p, i) == table[p] # None /\ i \in table[p]

\* The flag of a nexthop that stays is right, as far as it can be before a flush.
Marks(p, K) ==
  /\ table[p] # None => K[0] \subseteq table[p]
  /\ \A i \in InfosOf(p) : There(K, i) =>
       /\ hwflag[p][i] = "trap" => InTable(p, i)
       /\ "delete" \notin failed => hwflag[p][i] # "none"

\* The entry is the route, and what is in it is marked.
Exact(p, K) ==
  /\ table[p] # None => table[p] = K[0] /\ table[p] # {}
  /\ \A i \in InfosOf(p) : There(K, i) /\ InTable(p, i) => hwflag[p][i] = "trap"

\* A flush will come after the c-th event.
Covered(c) ==
  \/ flush.pending
  \/ flush.pc = "wait pending"
  \/ flush.pc = "wait running" /\ c <= Len(ev.batch)
  \/ flush.pc = "ready" /\ c = 0

\* K and c are a history of p which the table and the flags agree with.
Trail(p, K, c) == Path(p, K, c) /\ Marks(p, K) /\ ((c = 0 /\ Exact(p, K)) \/ Covered(c))

\* There is one that ends with the route.
Tracked(p) == \E K, c : Trail(p, K, c) /\ K[Total] = kernel[p]

\* None of the failures after which the table may differ.
Clean == failed \cap {"replacement", "insertion", "append", "veto"} = {}

\* Of every prefix that the dump has met.
TrackInv == Told /\ Clean => \A p \in Prefixes : p \notin dump.todo => Tracked(p)

-----------------------------------------------------------------------------
(* Types, and what the parts of an action do. *)

\* No set of nexthops is None.
LEMMA NotNone ==
  ASSUME NEW S \in SUBSET Infos
  PROVE  S # None
BY NsimFibAssumption DEF NsimFibAssumption, Infos

\* The nexthops of a prefix.
LEMMA InfosType ==
  ASSUME NEW p \in Prefixes
  PROVE  InfosOf(p) \subseteq Infos /\ Family(p) \in Families
BY DEF InfosOf, Infos, Family, Families

\* An event that is issued is one.
LEMMA EventIs ==
  ASSUME NEW kind \in Kinds, NEW p \in Prefixes, NEW S \in SUBSET InfosOf(p), S # {}
  PROVE  /\ Event(kind, p, S) \in Events
         /\ Event(kind, p, S).kind = kind /\ Event(kind, p, S).prefix = p /\ Event(kind, p, S).infos = S
BY InfosType DEF Event, Events

\* What an event has.
LEMMA EventHas ==
  ASSUME NEW e \in Events
  PROVE  /\ e.kind \in Kinds /\ e.prefix \in Prefixes
         /\ e.infos # {} /\ e.infos \subseteq InfosOf(e.prefix) /\ e.infos \in SUBSET Infos
BY DEF Events

\* A membership test is true or false.
LEMMA TestIsBoolean == \A x, S : (x \in S) \in BOOLEAN
OBVIOUS

\* What becomes of the locals of register_fib_notifier.
LEMMA DumpIs ==
  ASSUME NEW d \in DumpType, NEW b \in BOOLEAN
  PROVE  /\ [d EXCEPT !.changed = b] \in DumpType
         /\ [d EXCEPT !.changed = b].todo = d.todo /\ ([d EXCEPT !.changed = b].changed <=> b)
BY DEF DumpType

\* The kernel's route of a prefix is changed.
LEMMA KernelSetIs ==
  ASSUME FibTypeOK, NEW p \in Prefixes, NEW S \in SUBSET InfosOf(p), KernelSet(p, S),
         p \in Prefixes4 => \A i, j \in S : i = j
  PROVE  /\ kernel' \in [Prefixes -> SUBSET Infos] /\ \A q \in Prefixes : kernel'[q] \subseteq InfosOf(q)
         /\ \A q \in Prefixes4 : \A i, j \in kernel'[q] : i = j
         /\ DOMAIN hwflag' = Prefixes /\ \A q \in Prefixes : hwflag'[q] \in [InfosOf(q) -> Flags]
         /\ dump' \in DumpType
         /\ dump'.todo = dump.todo /\ (dump'.changed <=> phase \in {"dump", "check"})
         /\ kernel'[p] = S /\ \A q \in Prefixes : q # p => kernel'[q] = kernel[q] /\ hwflag'[q] = hwflag[q]
         /\ \A i \in InfosOf(p) : i \in kernel[p] \cap S => hwflag'[p][i] = hwflag[p][i]
<1> USE InfosType DEF KernelSet, Changed, FibTypeOK, Flags
<1>1. /\ kernel' \in [Prefixes -> SUBSET Infos] /\ \A q \in Prefixes : kernel'[q] \subseteq InfosOf(q)
      /\ kernel'[p] = S /\ \A q \in Prefixes : q # p => kernel'[q] = kernel[q]
  OBVIOUS
<1>2. \A q \in Prefixes4 : \A i, j \in kernel'[q] : i = j
  BY <1>1 DEF Prefixes
<1>3. hwflag' = [hwflag EXCEPT ![p] = [i \in InfosOf(p) |-> IF i \in kernel[p] \cap S THEN hwflag[p][i] ELSE "none"]]
  OBVIOUS
<1>4. DOMAIN hwflag' = Prefixes /\ \A q \in Prefixes : q # p => hwflag'[q] = hwflag[q]
  BY <1>3
<1>5. hwflag'[p] = [i \in InfosOf(p) |-> IF i \in kernel[p] \cap S THEN hwflag[p][i] ELSE "none"]
  BY <1>3
<1>6. hwflag'[p] \in [InfosOf(p) -> Flags] /\ \A i \in InfosOf(p) : i \in kernel[p] \cap S => hwflag'[p][i] = hwflag[p][i]
  BY <1>5
<1>7. dump' \in DumpType /\ dump'.todo = dump.todo /\ (dump'.changed <=> phase \in {"dump", "check"})
  <2>1. dump \in DumpType
    OBVIOUS
  <2>2. (phase \in {"dump", "check"}) \in BOOLEAN
    BY ONLY TestIsBoolean
  <2>3. dump' = [dump EXCEPT !.changed = phase \in {"dump", "check"}]
    OBVIOUS
  <2> QED
    BY ONLY <2>1, <2>2, <2>3, DumpIs
<1> QED
  BY <1>1, <1>2, <1>4, <1>6, <1>7

\* The flags of some nexthops of a prefix are set.
LEMMA FlagSetIs ==
  ASSUME NEW h, DOMAIN h = Prefixes, \A q \in Prefixes : h[q] \in [InfosOf(q) -> Flags],
         NEW p \in Prefixes, NEW S, NEW f \in Flags
  PROVE  LET g == FlagSet(h, p, S, f)
         IN  /\ DOMAIN g = Prefixes /\ \A q \in Prefixes : g[q] \in [InfosOf(q) -> Flags]
             /\ \A q \in Prefixes : q # p => g[q] = h[q]
             /\ \A i \in InfosOf(p) : g[p][i] = IF i \in S \cap kernel[p] THEN f ELSE h[p][i]
<1> DEFINE g == FlagSet(h, p, S, f)
<1>1. DOMAIN g = Prefixes /\ \A q \in Prefixes : q # p => g[q] = h[q]
  BY DEF FlagSet
<1>2. g[p] = [i \in InfosOf(p) |-> IF i \in S \cap kernel[p] THEN f ELSE h[p][i]]
  BY DEF FlagSet
<1>3. \A i \in InfosOf(p) : g[p][i] = IF i \in S \cap kernel[p] THEN f ELSE h[p][i]
  BY <1>2
<1>4. g[p] \in [InfosOf(p) -> Flags]
  BY <1>2
<1> QED
  BY <1>1, <1>3, <1>4

\* The table is emptied.
LEMMA FreeTableIs ==
  ASSUME FibTypeOK, FreeTable
  PROVE  /\ table' \in [Prefixes -> (SUBSET Infos) \cup {None}] /\ \A p \in Prefixes : table'[p] = None
         /\ DOMAIN hwflag' = Prefixes /\ \A q \in Prefixes : hwflag'[q] \in [InfosOf(q) -> Flags]
         /\ num' \in [Families -> Nat]
         /\ \A p \in Prefixes : \A i \in InfosOf(p) :
              hwflag'[p][i] = IF InTable(p, i) THEN "none" ELSE hwflag[p][i]
<1>1. table' \in [Prefixes -> (SUBSET Infos) \cup {None}] /\ \A p \in Prefixes : table'[p] = None
  BY DEF FreeTable
<1>2. hwflag' = [p \in Prefixes |-> [i \in InfosOf(p) |-> IF InTable(p, i) THEN "none" ELSE hwflag[p][i]]]
  BY DEF FreeTable, InTable
<1>3. ASSUME NEW p \in Prefixes
      PROVE  /\ hwflag'[p] \in [InfosOf(p) -> Flags]
             /\ \A i \in InfosOf(p) : hwflag'[p][i] = IF InTable(p, i) THEN "none" ELSE hwflag[p][i]
  <2>1. hwflag'[p] = [i \in InfosOf(p) |-> IF InTable(p, i) THEN "none" ELSE hwflag[p][i]]
    BY <1>2
  <2>2. hwflag[p] \in [InfosOf(p) -> Flags]
    BY DEF FibTypeOK
  <2> QED
    BY <2>1, <2>2 DEF Flags
<1>4. num' \in [Families -> Nat]
  <2> DEFINE n(f) == Cardinality({p \in PrefixesOf(f) : table[p] # None})
  <2>1. num' = [f \in Families |-> IF num[f] > n(f) THEN num[f] - n(f) ELSE 0]
    BY DEF FreeTable
  <2>2. ASSUME NEW f \in Families PROVE n(f) \in Nat /\ num[f] \in Nat
    <3>1. {p \in PrefixesOf(f) : table[p] # None} \subseteq Prefixes
      BY DEF PrefixesOf
    <3> QED
      BY <3>1, NsimFibAssumption, FS_Subset, FS_CardinalityType DEF NsimFibAssumption, Prefixes, FibTypeOK
  <2> HIDE DEF n
  <2>3. ASSUME NEW f \in Families PROVE (IF num[f] > n(f) THEN num[f] - n(f) ELSE 0) \in Nat
    BY <2>2
  <2> QED
    BY <2>1, <2>3
<1> QED
  BY <1>1, <1>2, <1>3, <1>4

\* Accounting keeps natural numbers.
LEMMA AccountIs ==
  ASSUME num \in [Families -> Nat], NEW p \in Prefixes, NEW n \in Nat
  PROVE  /\ Account(p) \in [Families -> Nat] /\ Unaccount(p, n) \in [Families -> Nat]
         /\ Account(p)[Family(p)] = num[Family(p)] + 1
         /\ Unaccount(p, n)[Family(p)] = IF num[Family(p)] > n THEN num[Family(p)] - n ELSE 0
         /\ \A f \in Families : f # Family(p) => Account(p)[f] = num[f] /\ Unaccount(p, n)[f] = num[f]
BY InfosType DEF Account, Unaccount

\* What becomes of the event work, of the flush work and of the dump.
LEMMA EvIs ==
  ASSUME NEW w \in EvType
  PROVE  /\ w.pc \in {"idle", "spliced", "locked"} /\ w.pending \in BOOLEAN /\ w.batch \in Seq(Events)
         /\ [w EXCEPT !.pending = TRUE] \in EvType /\ [w EXCEPT !.pending = TRUE].pending
         /\ [w EXCEPT !.pending = TRUE].pc = w.pc /\ [w EXCEPT !.pending = TRUE].batch = w.batch
         /\ \A c \in {"idle", "spliced", "locked"} :
              /\ [w EXCEPT !.pc = c] \in EvType /\ [w EXCEPT !.pc = c].pc = c
              /\ ([w EXCEPT !.pc = c].pending <=> w.pending) /\ [w EXCEPT !.pc = c].batch = w.batch
BY DEF EvType

\* The work with another batch.
LEMMA EvBatch ==
  ASSUME NEW w \in EvType, NEW b \in Seq(Events)
  PROVE  /\ [w EXCEPT !.batch = b] \in EvType /\ [w EXCEPT !.batch = b].pc = w.pc
         /\ ([w EXCEPT !.batch = b].pending <=> w.pending) /\ [w EXCEPT !.batch = b].batch = b
BY DEF EvType

\* The states of the flush work.
LEMMA FlushIs ==
  ASSUME NEW w \in FlushType
  PROVE  /\ w.pc \in {"idle", "wait pending", "wait running", "ready"} /\ w.pending \in BOOLEAN
         /\ [w EXCEPT !.pending = TRUE] \in FlushType /\ [w EXCEPT !.pending = TRUE].pending
         /\ [w EXCEPT !.pending = TRUE].pc = w.pc
         /\ [w EXCEPT !.pending = FALSE] \in FlushType /\ ~[w EXCEPT !.pending = FALSE].pending
         /\ [w EXCEPT !.pending = FALSE].pc = w.pc
         /\ \A c \in {"idle", "wait pending", "wait running", "ready"} :
              /\ [w EXCEPT !.pc = c] \in FlushType /\ [w EXCEPT !.pc = c].pc = c
              /\ [w EXCEPT !.pc = c].pending <=> w.pending
BY DEF FlushType

-----------------------------------------------------------------------------
(* The outstanding events. *)

\* They are events.
LEMMA AtIs ==
  ASSUME FibTypeOK
  PROVE  Total \in Nat /\ \A k \in 1..Total : At(k) \in Events
<1>1. ev.batch \in Seq(Events) /\ queue \in Seq(Events)
  BY EvIs DEF FibTypeOK
<1>2. Len(ev.batch) \in Nat /\ Len(queue) \in Nat
  BY <1>1
<1>3. ASSUME NEW k \in 1..Total PROVE At(k) \in Events
  <2>1. CASE k <= Len(ev.batch)
    BY <1>1, <1>2, <2>1 DEF At, Total
  <2>2. CASE ~(k <= Len(ev.batch))
    <3>1. k - Len(ev.batch) \in 1..Len(queue)
      BY <1>2, <2>2 DEF Total
    <3>2. queue[k - Len(ev.batch)] \in Events
      BY <1>1, <3>1
    <3> QED
      BY <2>2, <3>2 DEF At
  <2> QED
    BY <2>1, <2>2
<1> QED
  BY <1>2, <1>3 DEF Total

\* One more event is queued.
LEMMA ScheduledIs ==
  ASSUME FibTypeOK, NEW e \in Events, ScheduleEvent(e)
  PROVE  /\ queue' \in Seq(Events) /\ queue' # <<>> /\ ev' \in EvType
         /\ ev'.pc = ev.pc /\ ev'.pending /\ ev'.batch = ev.batch
         /\ Total \in Nat /\ Total' = Total + 1 /\ At(Total)' = e
         /\ \A k \in 1..Total : At(k)' = At(k)
<1>1. ev \in EvType /\ ev.batch \in Seq(Events) /\ queue \in Seq(Events)
  BY EvIs DEF FibTypeOK
<1>2. ev' \in EvType /\ ev'.pc = ev.pc /\ ev'.pending /\ ev'.batch = ev.batch
  BY <1>1, EvIs DEF ScheduleEvent
<1>3. /\ queue' \in Seq(Events) /\ Len(queue') = Len(queue) + 1 /\ queue' # <<>>
      /\ queue'[Len(queue) + 1] = e /\ \A k \in 1..Len(queue) : queue'[k] = queue[k]
  BY <1>1 DEF ScheduleEvent
<1>4. Len(ev.batch) \in Nat /\ Len(queue) \in Nat
  BY <1>1
<1>a. PICK m \in Nat, n \in Nat : m = Len(ev.batch) /\ n = Len(queue)
  BY <1>4
<1>5. Total = m + n /\ Total' = (m + n) + 1
  <2>1. Total' = m + (n + 1)
    BY <1>2, <1>3, <1>a DEF Total
  <2>2. m + (n + 1) = (m + n) + 1
    OBVIOUS
  <2> QED
    BY <1>a, <2>1, <2>2 DEF Total
<1>6. At(Total)' = e
  <2>1. At(Total)' = IF Total' <= m THEN ev.batch[Total'] ELSE queue'[Total' - m]
    BY <1>2, <1>a DEF At
  <2>2. ~((m + n) + 1 <= m) /\ ((m + n) + 1) - m = n + 1
    OBVIOUS
  <2> QED
    BY <1>3, <1>5, <1>a, <2>1, <2>2
<1>7. ASSUME NEW k \in 1..Total PROVE At(k)' = At(k)
  <2>1. CASE k <= Len(ev.batch)
    BY <1>2, <2>1 DEF At
  <2>2. CASE ~(k <= Len(ev.batch))
    <3>1. k - m \in 1..n
      BY <1>5, <1>a, <2>2
    <3> QED
      BY <1>2, <1>3, <1>a, <2>2, <3>1 DEF At
  <2> QED
    BY <2>1, <2>2
<1> QED
  BY <1>2, <1>3, <1>5, <1>6, <1>7

\* The first event is taken.
LEMMA TookIs ==
  ASSUME FibTypeOK, ev.batch # <<>>, NextEvent, queue' = queue
  PROVE  /\ ev' \in EvType /\ ev'.pc = ev.pc /\ (ev'.pending <=> ev.pending)
         /\ Len(ev'.batch) = Len(ev.batch) - 1 /\ Len(ev.batch) \in Nat
         /\ Total \in Nat /\ Total >= 1 /\ Total' = Total - 1
         /\ At(1) = Head(ev.batch) /\ At(1) \in Events
         /\ \A k \in 1..(Total - 1) : At(k)' = At(k + 1)
<1>1. ev \in EvType /\ ev.batch \in Seq(Events) /\ queue \in Seq(Events)
  BY EvIs DEF FibTypeOK
<1> DEFINE b == ev.batch
<1>2. /\ Tail(b) \in Seq(Events) /\ Len(b) \in Nat /\ Len(b) >= 1 /\ Len(Tail(b)) = Len(b) - 1
      /\ Head(b) = b[1] /\ \A k \in 1..(Len(b) - 1) : Tail(b)[k] = b[k + 1]
  BY <1>1
<1>3. ev' \in EvType /\ ev'.pc = ev.pc /\ (ev'.pending <=> ev.pending) /\ ev'.batch = Tail(b)
  <2>1. ev' = [ev EXCEPT !.batch = Tail(b)]
    BY DEF NextEvent
  <2>2. Tail(b) \in Seq(Events)
    BY <1>2
  <2> HIDE DEF b
  <2> QED
    BY <1>1, <2>1, <2>2, EvBatch
<1>4. Len(queue) \in Nat
  BY <1>1
<1>5. Total \in Nat /\ Total >= 1 /\ Total' = Total - 1
  BY <1>2, <1>3, <1>4 DEF Total
<1>6. At(1) = Head(b)
  BY <1>2 DEF At
<1>7. At(1) \in Events
  BY <1>5, AtIs
<1>8. ASSUME NEW k \in 1..(Total - 1) PROVE At(k)' = At(k + 1)
  <2>0. k \in Nat
    BY <1>5
  <2>1. CASE k <= Len(b) - 1
    <3>1. k + 1 <= Len(b) /\ k <= Len(Tail(b)) /\ k \in 1..(Len(b) - 1)
      BY <1>2, <2>0, <2>1
    <3> QED
      BY <1>2, <1>3, <3>1 DEF At
  <2>2. CASE ~(k <= Len(b) - 1)
    <3>0. PICK m \in Nat : m = Len(b) /\ Len(Tail(b)) = m - 1
      BY <1>2
    <3>1. ~(k + 1 <= m) /\ ~(k <= m - 1) /\ k - (m - 1) = (k + 1) - m
      BY <2>0, <2>2, <3>0
    <3> QED
      BY <1>3, <3>0, <3>1 DEF At
  <2> QED
    BY <2>1, <2>2
<1> QED
  BY <1>2, <1>3, <1>5, <1>6, <1>7, <1>8

\* The queue becomes the batch.
LEMMA SplicedIs ==
  ASSUME FibTypeOK, WorkInv, WorkSplice
  PROVE  /\ ev' \in EvType /\ ev'.pc = "spliced" /\ ~ev'.pending /\ ev'.batch = queue
         /\ queue' = <<>> /\ Total' = Total /\ Len(ev'.batch) = Total
         /\ \A k \in 1..Total : At(k)' = At(k)
<1>1. ev.batch = <<>> /\ queue \in Seq(Events)
  BY DEF WorkInv, WorkSplice, FibTypeOK
<1>2. ev' = [pc |-> "spliced", pending |-> FALSE, batch |-> queue] /\ queue' = <<>>
  BY DEF WorkSplice
<1>3. ev' \in EvType /\ ev'.pc = "spliced" /\ ~ev'.pending /\ ev'.batch = queue
  BY <1>1, <1>2 DEF EvType
<1>4. Len(queue) \in Nat /\ Len(ev.batch) = 0 /\ Len(queue') = 0
  BY <1>1, <1>2
<1>5. Total = Len(queue) /\ Total' = Len(queue)
  BY <1>3, <1>4 DEF Total
<1>6. ASSUME NEW k \in 1..Total PROVE At(k)' = At(k)
  <2>1. ~(k <= Len(ev.batch)) /\ k - Len(ev.batch) = k /\ k <= Len(queue)
    BY <1>4, <1>5
  <2> QED
    BY <2>1, <1>3 DEF At
<1> QED
  BY <1>2, <1>3, <1>5, <1>6

\* No event is outstanding when the work is done.
LEMMA NoneLeft ==
  ASSUME FibTypeOK, WorkInv, EventWorkDone
  PROVE  Total = 0 /\ queue = <<>> /\ ev.batch = <<>>
<1>1. queue = <<>> /\ ev.batch = <<>>
  BY DEF WorkInv, EventsScheduled, EventWorkDone
<1>2. Len(queue) = 0 /\ Len(ev.batch) = 0
  BY <1>1
<1> QED
  BY <1>1, <1>2 DEF Total

-----------------------------------------------------------------------------
(* Types, the works and the device, action by action. *)

\* What holds always.
FibBase == FibTypeOK /\ WorkInv /\ PhaseInv

\* The route of p becomes R, and if the notifier is registered it hears e.
RouteChange(p, e, R) ==
  /\ KernelSet(p, R)
  /\ Registered => ScheduleEvent(e)
  /\ ~Registered => num' = num /\ queue' = queue /\ ev' = ev
  /\ phase' = phase /\ flush' = flush /\ table' = table

\* New nexthops are ones of the prefix and none that it has.
LEMMA FreshIs ==
  ASSUME NEW p \in Prefixes6, NEW S \in Additions(p), FibTypeOK
  PROVE  S \subseteq InfosOf(p) /\ S # {} /\ S \cap kernel[p] = {}
<1>1. S \subseteq Fresh(p) /\ Cardinality(S) \in 1..MaxPaths
  BY DEF Additions
<1>2. Fresh(p) \subseteq Infos6 \ kernel[p]
  BY DEF Fresh
<1>3. InfosOf(p) = Infos6
  BY NsimFibAssumption DEF NsimFibAssumption, InfosOf
<1>4. S # {}
  <2> SUFFICES ASSUME S = {} PROVE FALSE
    OBVIOUS
  <2>1. Cardinality(S) = 0
    BY FS_EmptySet
  <2> QED
    BY <1>1, <2>1
<1> QED
  BY <1>1, <1>2, <1>3, <1>4

\* FIB_EVENT_ENTRY_REPLACE.
LEMMA ReplaceIs ==
  ASSUME FibTypeOK, NEW p \in Prefixes, RouteReplace(p)
  PROVE  \E S \in SUBSET InfosOf(p) :
           /\ S # {} /\ S \cap kernel[p] = {} /\ (p \in Prefixes4 => \A i, j \in S : i = j)
           /\ Event("replace", p, S) \in Events
           /\ RouteChange(p, Event("replace", p, S), S)
           /\ (Registered => num' = Account(p)) /\ failed' = failed
<1>1. PICK S \in Routes(p) :
        /\ KernelSet(p, S)
        /\ IF Registered
             THEN num' = Account(p) /\ ScheduleEvent(Event("replace", p, S))
             ELSE UNCHANGED <<num, queue, ev>>
  BY DEF RouteReplace
<1>2. S \subseteq InfosOf(p) /\ S # {} /\ S \cap kernel[p] = {} /\ (p \in Prefixes4 => \A i, j \in S : i = j)
  <2>1. CASE p \in Prefixes4
    BY <2>1 DEF Routes, InfosOf
  <2>2. CASE p \notin Prefixes4
    <3>1. p \in Prefixes6 /\ S \in Additions(p)
      BY <2>2 DEF Prefixes, Routes
    <3> QED
      BY <2>2, <3>1, FreshIs
  <2> QED
    BY <2>1, <2>2
<1>3. Event("replace", p, S) \in Events
  BY <1>2, EventIs DEF Kinds
<1>4. phase' = phase /\ flush' = flush /\ table' = table /\ failed' = failed
  BY DEF RouteReplace
<1> QED
  BY <1>1, <1>2, <1>3, <1>4 DEF RouteChange

\* FIB_EVENT_ENTRY_APPEND.
LEMMA AppendIs ==
  ASSUME FibTypeOK, NEW p \in Prefixes, RouteAppend(p)
  PROVE  \E S \in SUBSET InfosOf(p) :
           /\ p \in Prefixes6 /\ kernel[p] # {} /\ S # {} /\ S \cap kernel[p] = {}
           /\ kernel[p] \cup S \in SUBSET InfosOf(p)
           /\ Event("append", p, S) \in Events
           /\ RouteChange(p, Event("append", p, S), kernel[p] \cup S)
           /\ num' = num /\ failed' = failed
<1>1. PICK S \in Additions(p) :
        /\ KernelSet(p, kernel[p] \cup S)
        /\ IF Registered THEN ScheduleEvent(Event("append", p, S)) ELSE UNCHANGED <<queue, ev>>
  BY DEF RouteAppend
<1>2. p \in Prefixes6 /\ kernel[p] # {}
  BY DEF RouteAppend
<1>3. S \subseteq InfosOf(p) /\ S # {} /\ S \cap kernel[p] = {}
  BY <1>2, FreshIs
<1>4. Event("append", p, S) \in Events
  BY <1>3, EventIs DEF Kinds
<1>5. phase' = phase /\ flush' = flush /\ table' = table /\ num' = num /\ failed' = failed
  BY DEF RouteAppend
<1>6. kernel[p] \cup S \in SUBSET InfosOf(p)
  BY <1>3 DEF FibTypeOK
<1> QED
  BY <1>1, <1>2, <1>3, <1>4, <1>5, <1>6 DEF RouteChange

\* What may be deleted.
LEMMA DeletableIs ==
  ASSUME FibTypeOK, NEW p \in Prefixes, NEW S, Deletable(p, S)
  PROVE  /\ S # {} /\ S \subseteq kernel[p] /\ S \in SUBSET InfosOf(p) /\ (p \in Prefixes4 => S = kernel[p])
         /\ kernel[p] \ S \in SUBSET InfosOf(p) /\ (p \in Prefixes4 => \A i, j \in kernel[p] \ S : i = j)
<1>1. S # {} /\ S \subseteq kernel[p] /\ kernel[p] \subseteq InfosOf(p)
  BY DEF Deletable, FibTypeOK
<1>2. ASSUME p \in Prefixes4 PROVE S = kernel[p]
  <2>1. \A i, j \in kernel[p] : i = j
    BY <1>2 DEF FibTypeOK
  <2> QED
    BY <1>1, <2>1
<1> QED
  BY <1>1, <1>2

\* FIB_EVENT_ENTRY_DEL.
LEMMA DelIs ==
  ASSUME FibTypeOK, NEW p \in Prefixes, NEW S, RouteDel(p, S)
  PROVE  /\ Deletable(p, S) /\ Event("del", p, S) \in Events
         /\ RouteChange(p, Event("del", p, S), kernel[p] \ S)
         /\ Registered => /\ num' = Unaccount(p, 1)
                          /\ (S = kernel[p] /\ failed' = failed) \/ failed' = failed \cup {"sibling"}
         /\ ~Registered => failed' = failed
<1>1. Deletable(p, S)
  BY DEF RouteDel
<1>2. Event("del", p, S) \in Events
  BY <1>1, DeletableIs, EventIs DEF Kinds
<1> QED
  BY <1>1, <1>2 DEF RouteDel, RouteChange

\* Every change of a route that is announced keeps the types and the works.
LEMMA BaseRouteChange ==
  ASSUME FibBase, NEW p \in Prefixes, NEW e \in Events, NEW R \in SUBSET InfosOf(p), RouteChange(p, e, R),
         p \in Prefixes4 => \A i, j \in R : i = j,
         num' \in [Families -> Nat], failed \subseteq failed', failed' \subseteq Failures
  PROVE  FibBase'
<1>0. FibTypeOK /\ WorkInv /\ PhaseInv
  BY DEF FibBase
<1>1. /\ kernel' \in [Prefixes -> SUBSET Infos] /\ \A q \in Prefixes : kernel'[q] \subseteq InfosOf(q)
      /\ \A q \in Prefixes4 : \A i, j \in kernel'[q] : i = j
      /\ DOMAIN hwflag' = Prefixes /\ \A q \in Prefixes : hwflag'[q] \in [InfosOf(q) -> Flags]
      /\ dump' \in DumpType /\ dump'.todo = dump.todo
  BY <1>0, KernelSetIs DEF RouteChange
<1>2. /\ queue' \in Seq(Events) /\ ev' \in EvType /\ (ev.pending => ev'.pending)
      /\ ev'.pc = ev.pc /\ ev'.batch = ev.batch
      /\ Registered => ev'.pending
      /\ ~Registered => queue' = queue /\ ev' = ev
  <2>1. CASE Registered
    BY <1>0, <2>1, ScheduledIs DEF RouteChange
  <2>2. CASE ~Registered
    BY <1>0, <2>2 DEF RouteChange, FibTypeOK
  <2> QED
    BY <2>1, <2>2
<1>3. phase' = phase /\ flush' = flush /\ table' = table
  BY DEF RouteChange
<1>4. FibTypeOK'
  BY <1>0, <1>1, <1>2, <1>3 DEF FibTypeOK
<1>5. WorkInv'
  BY <1>0, <1>2, <1>3 DEF WorkInv, EventsScheduled
<1>6. PhaseInv'
  BY <1>0, <1>1, <1>2, <1>3 DEF PhaseInv, FlushWorkDone, EventWorkDone, Registered
<1> QED
  BY <1>4, <1>5, <1>6 DEF FibBase

\* RouteReplace, RouteAppend and RouteDel are such.
LEMMA BaseRoutes ==
  ASSUME FibBase, NEW p \in Prefixes,
         RouteReplace(p) \/ RouteAppend(p) \/ \E S \in SUBSET kernel[p] : RouteDel(p, S)
  PROVE  FibBase'
<1>0. FibTypeOK /\ num \in [Families -> Nat] /\ failed \subseteq Failures
  BY DEF FibBase, FibTypeOK
<1>1. CASE RouteReplace(p)
  <2>1. PICK S \in SUBSET InfosOf(p) :
           /\ S # {} /\ S \cap kernel[p] = {} /\ (p \in Prefixes4 => \A i, j \in S : i = j)
           /\ Event("replace", p, S) \in Events
           /\ RouteChange(p, Event("replace", p, S), S)
           /\ (Registered => num' = Account(p)) /\ failed' = failed
    BY <1>0, <1>1, ReplaceIs
  <2>2. num' \in [Families -> Nat]
    BY <1>0, <2>1, AccountIs DEF RouteChange
  <2> QED
    BY <1>0, <2>1, <2>2, BaseRouteChange
<1>2. CASE RouteAppend(p)
  <2>1. PICK S \in SUBSET InfosOf(p) :
           /\ p \in Prefixes6 /\ kernel[p] # {} /\ S # {} /\ S \cap kernel[p] = {}
           /\ kernel[p] \cup S \in SUBSET InfosOf(p)
           /\ Event("append", p, S) \in Events
           /\ RouteChange(p, Event("append", p, S), kernel[p] \cup S)
           /\ num' = num /\ failed' = failed
    BY <1>0, <1>2, AppendIs
  <2>2. p \notin Prefixes4
    BY <2>1, NsimFibAssumption DEF NsimFibAssumption
  <2> QED
    BY <1>0, <2>1, <2>2, BaseRouteChange
<1>3. ASSUME NEW S \in SUBSET kernel[p], RouteDel(p, S) PROVE FibBase'
  <2>1. /\ Deletable(p, S) /\ Event("del", p, S) \in Events
        /\ RouteChange(p, Event("del", p, S), kernel[p] \ S)
        /\ Registered => /\ num' = Unaccount(p, 1)
                         /\ (S = kernel[p] /\ failed' = failed) \/ failed' = failed \cup {"sibling"}
        /\ ~Registered => failed' = failed
    BY <1>0, <1>3, DelIs
  <2>2. kernel[p] \ S \in SUBSET InfosOf(p) /\ (p \in Prefixes4 => \A i, j \in kernel[p] \ S : i = j)
    BY <1>0, <2>1, DeletableIs
  <2>3. num' \in [Families -> Nat]
    BY <1>0, <2>1, AccountIs DEF RouteChange
  <2>4. failed \subseteq failed' /\ failed' \subseteq Failures
    BY <1>0, <2>1 DEF Failures
  <2> QED
    BY <2>1, <2>2, <2>3, <2>4, BaseRouteChange
<1> QED
  BY <1>1, <1>2, <1>3

\* Two deletions of routes that were not accounted for.
LEMMA BaseVeto ==
  ASSUME FibBase, NEW p \in Prefixes, RouteVeto(p)
  PROVE  FibBase' /\ "veto" \in failed'
<1>0. FibTypeOK /\ WorkInv /\ PhaseInv
  BY DEF FibBase
<1>1. PICK R \in SUBSET InfosOf(p) : KernelSet(p, R)
  BY <1>0 DEF RouteVeto, FibTypeOK
<1>2. p \in Prefixes6 /\ p \notin Prefixes4
  BY NsimFibAssumption DEF NsimFibAssumption, RouteVeto
<1>3. /\ kernel' \in [Prefixes -> SUBSET Infos] /\ \A q \in Prefixes : kernel'[q] \subseteq InfosOf(q)
      /\ \A q \in Prefixes4 : \A i, j \in kernel'[q] : i = j
      /\ DOMAIN hwflag' = Prefixes /\ \A q \in Prefixes : hwflag'[q] \in [InfosOf(q) -> Flags]
      /\ dump' \in DumpType /\ dump'.todo = dump.todo
  BY <1>0, <1>1, <1>2, KernelSetIs
<1>4. PICK i \in Fresh(p), j \in Fresh(p) :
        queue' = queue \o <<Event("del", p, {i}), Event("del", p, {j})>> /\ ev' = [ev EXCEPT !.pending = TRUE]
  BY DEF RouteVeto
<1>5. i \in InfosOf(p) /\ j \in InfosOf(p)
  BY <1>2 DEF Fresh, InfosOf
<1>6. Event("del", p, {i}) \in Events /\ Event("del", p, {j}) \in Events
  BY <1>5, EventIs DEF Kinds
<1>7. queue' \in Seq(Events)
  BY <1>0, <1>4, <1>6 DEF FibTypeOK
<1>8. ev' \in EvType /\ ev'.pending /\ ev'.pc = ev.pc /\ ev'.batch = ev.batch
  BY <1>0, <1>4, EvIs DEF FibTypeOK
<1>9. num' \in [Families -> Nat]
  BY <1>0, AccountIs DEF FibTypeOK, RouteVeto
<1>10. phase' = phase /\ flush' = flush /\ table' = table /\ failed' = failed \cup {"veto"} /\ Registered
  BY DEF RouteVeto
<1>11. FibTypeOK'
  BY <1>0, <1>3, <1>7, <1>8, <1>9, <1>10 DEF FibTypeOK, Failures
<1>12. WorkInv'
  BY <1>0, <1>8, <1>10 DEF WorkInv, EventsScheduled
<1>13. PhaseInv'
  BY <1>0, <1>3, <1>10 DEF PhaseInv, FlushWorkDone, EventWorkDone, Registered
<1> QED
  BY <1>10, <1>11, <1>12, <1>13 DEF FibBase

\* A deletion that fails asks for a flush.
LEMMA BaseDelFails ==
  ASSUME FibBase, NEW p \in Prefixes, NEW S, RouteDelFails(p, S)
  PROVE  /\ FibBase' /\ failed' = failed \cup {"delete"} /\ Registered /\ Deletable(p, S)
         /\ flush'.pending /\ flush'.pc = flush.pc
         /\ KernelSet(p, kernel[p] \ S) /\ num' = num
         /\ phase' = phase /\ queue' = queue /\ ev' = ev /\ table' = table
<1>0. FibTypeOK /\ WorkInv /\ PhaseInv
  BY DEF FibBase
<1>1. /\ Registered /\ Deletable(p, S) /\ KernelSet(p, kernel[p] \ S)
      /\ flush' = [flush EXCEPT !.pending = TRUE] /\ failed' = failed \cup {"delete"}
      /\ phase' = phase /\ num' = num /\ queue' = queue /\ ev' = ev /\ table' = table
  BY DEF RouteDelFails
<1>2. kernel[p] \ S \in SUBSET InfosOf(p) /\ (p \in Prefixes4 => \A i, j \in kernel[p] \ S : i = j)
  BY <1>0, <1>1, DeletableIs
<1>3. /\ kernel' \in [Prefixes -> SUBSET Infos] /\ \A q \in Prefixes : kernel'[q] \subseteq InfosOf(q)
      /\ \A q \in Prefixes4 : \A i, j \in kernel'[q] : i = j
      /\ DOMAIN hwflag' = Prefixes /\ \A q \in Prefixes : hwflag'[q] \in [InfosOf(q) -> Flags]
      /\ dump' \in DumpType /\ dump'.todo = dump.todo
  BY <1>0, <1>1, <1>2, KernelSetIs
<1>4. flush' \in FlushType /\ flush'.pending /\ flush'.pc = flush.pc
  BY <1>0, <1>1, FlushIs DEF FibTypeOK
<1>5. FibTypeOK'
  BY <1>0, <1>1, <1>3, <1>4 DEF FibTypeOK, Failures
<1>6. WorkInv'
  BY <1>0, <1>1, <1>4 DEF WorkInv, EventsScheduled
<1>7. PhaseInv'
  BY <1>0, <1>1, <1>3 DEF PhaseInv, Registered
<1> QED
  BY <1>1, <1>4, <1>5, <1>6, <1>7 DEF FibBase

\* What all that take an event have in common.
Takes ==
  /\ ev.pc = "locked" /\ ev.batch # <<>> /\ NextEvent
  /\ kernel' = kernel /\ phase' = phase /\ dump' = dump /\ queue' = queue /\ flush' = flush

\* Taking an event keeps the works.
LEMMA BaseTakes ==
  ASSUME FibBase, Takes,
         DOMAIN hwflag' = Prefixes, \A q \in Prefixes : hwflag'[q] \in [InfosOf(q) -> Flags],
         num' \in [Families -> Nat], failed \subseteq failed', failed' \subseteq Failures,
         table' \in [Prefixes -> (SUBSET Infos) \cup {None}],
         \A p \in Prefixes : table'[p] # None => table'[p] \subseteq InfosOf(p)
  PROVE  FibBase'
<1>0. FibTypeOK /\ WorkInv /\ PhaseInv
  BY DEF FibBase
<1>1. ev' \in EvType /\ ev'.pc = ev.pc /\ (ev'.pending <=> ev.pending)
  BY <1>0, TookIs DEF Takes
<1>2. FibTypeOK'
  BY <1>0, <1>1 DEF FibTypeOK, Takes
<1>3. WorkInv'
  BY <1>0, <1>1 DEF WorkInv, EventsScheduled, Takes
<1>4. PhaseInv'
  BY <1>0, <1>1 DEF PhaseInv, FlushWorkDone, EventWorkDone, Takes
<1> QED
  BY <1>2, <1>3, <1>4 DEF FibBase

\* One entry of the table is replaced.
LEMMA EntryIs ==
  ASSUME FibTypeOK, NEW p \in Prefixes, NEW x, x = None \/ x \subseteq InfosOf(p),
         table' = [table EXCEPT ![p] = x]
  PROVE  /\ table' \in [Prefixes -> (SUBSET Infos) \cup {None}]
         /\ \A q \in Prefixes : table'[q] # None => table'[q] \subseteq InfosOf(q)
         /\ table'[p] = x /\ \A q \in Prefixes : q # p => table'[q] = table[q]
BY InfosType DEF FibTypeOK

\* What is there to be taken.
LEMMA TakingIs ==
  ASSUME FibBase, NEW kind, Taking(kind)
  PROVE  /\ ev.pc = "locked" /\ ev.batch # <<>>
         /\ Total \in Nat /\ Total >= 1 /\ At(1) = Head(ev.batch) /\ At(1) \in Events /\ At(1).kind = kind
         /\ At(1).prefix \in Prefixes /\ At(1).infos # {} /\ At(1).infos \subseteq InfosOf(At(1).prefix)
         /\ At(1).infos # None /\ At(1).infos \in SUBSET Infos
<1>1. FibTypeOK
  BY DEF FibBase
<1>2. ev.batch \in Seq(Events) /\ queue \in Seq(Events) /\ ev.batch # <<>>
  BY <1>1, EvIs DEF FibTypeOK, Taking
<1>3. Head(ev.batch) = ev.batch[1] /\ Len(ev.batch) >= 1 /\ Len(ev.batch) \in Nat /\ Len(queue) \in Nat
  BY <1>2
<1>4. Total \in Nat /\ Total >= 1 /\ At(1) = Head(ev.batch)
  BY <1>3 DEF Total, At
<1>5. At(1) \in Events
  BY <1>1, <1>4, AtIs
<1> QED
  BY <1>4, <1>5, EventHas, NotNone DEF Taking

\* nsim_fib4_rt_add, nsim_fib6_rt_add.
LEMMA AddIs ==
  ASSUME FibBase, WorkAdd
  PROVE  LET e == At(1)
             p == e.prefix
         IN  /\ Takes /\ FibBase' /\ e.kind = "replace" /\ table[p] = None
             /\ table'[p] = e.infos /\ \A q \in Prefixes : q # p => table'[q] = table[q]
             /\ \A q \in Prefixes : q # p => hwflag'[q] = hwflag[q]
             /\ \A i \in InfosOf(p) : hwflag'[p][i] = IF i \in e.infos \cap kernel[p] THEN "trap" ELSE hwflag[p][i]
             /\ num' = num /\ failed' = failed
<1> DEFINE e == At(1)
           p == e.prefix
<1>0. FibTypeOK /\ num \in [Families -> Nat] /\ failed \subseteq Failures
  BY DEF FibBase, FibTypeOK
<1>1. Taking("replace")
  BY DEF WorkAdd
<1>2. /\ ev.pc = "locked" /\ ev.batch # <<>> /\ e = Head(ev.batch) /\ e.kind = "replace" /\ p \in Prefixes
      /\ e.infos # {} /\ e.infos \subseteq InfosOf(p) /\ e.infos # None /\ e.infos \in SUBSET Infos
  BY <1>1, TakingIs
<1>3. table[p] = None /\ num' = num /\ failed' = failed
  BY <1>2 DEF WorkAdd
<1>4. num' \in [Families -> Nat]
  BY <1>0, <1>3
<1>5. failed \subseteq failed' /\ failed' \subseteq Failures
  BY <1>0, <1>3 DEF Failures
<1>6. /\ hwflag' = FlagSet(hwflag, p, e.infos, "trap")
      /\ table' = [table EXCEPT ![p] = e.infos]
  BY <1>2 DEF WorkAdd
<1>7. Takes
  BY <1>2 DEF Takes, WorkAdd
<1>8. DOMAIN hwflag = Prefixes /\ \A q \in Prefixes : hwflag[q] \in [InfosOf(q) -> Flags]
  BY <1>0 DEF FibTypeOK
<1>9. /\ DOMAIN hwflag' = Prefixes /\ \A q \in Prefixes : hwflag'[q] \in [InfosOf(q) -> Flags]
      /\ \A q \in Prefixes : q # p => hwflag'[q] = hwflag[q]
      /\ \A i \in InfosOf(p) : hwflag'[p][i] = IF i \in e.infos \cap kernel[p] THEN "trap" ELSE hwflag[p][i]
  BY <1>2, <1>6, <1>8, FlagSetIs DEF Flags
<1> DEFINE x == e.infos
<1>a. x = None \/ x \subseteq InfosOf(p)
  BY <1>0, <1>2, <1>3 DEF FibTypeOK
<1>b. table' = [table EXCEPT ![p] = x]
  BY <1>6
<1> HIDE DEF x
<1>c. /\ table' \in [Prefixes -> (SUBSET Infos) \cup {None}]
      /\ \A q \in Prefixes : table'[q] # None => table'[q] \subseteq InfosOf(q)
      /\ table'[p] = x /\ \A q \in Prefixes : q # p => table'[q] = table[q]
  BY <1>0, <1>2, <1>a, <1>b, EntryIs
<1>d. FibBase'
  BY <1>4, <1>5, <1>7, <1>8, <1>9, <1>c, BaseTakes
<1> QED
  BY <1>2, <1>3, <1>7, <1>9, <1>c, <1>d DEF x

\* nsim_fib4_rt_replace, nsim_fib6_rt_replace.
LEMMA ReplacedIs ==
  ASSUME FibBase, WorkReplace
  PROVE  LET e == At(1)
             p == e.prefix
         IN  /\ Takes /\ FibBase' /\ e.kind = "replace" /\ table[p] # None
             /\ table'[p] = e.infos /\ \A q \in Prefixes : q # p => table'[q] = table[q]
             /\ \A q \in Prefixes : q # p => hwflag'[q] = hwflag[q]
             /\ \A i \in InfosOf(p) : hwflag'[p][i] = IF i \in table[p] \cap kernel[p] THEN "none"
                       ELSE IF i \in e.infos \cap kernel[p] THEN "trap" ELSE hwflag[p][i]
             /\ num' = Unaccount(p, 1) /\ failed' = failed
<1> DEFINE e == At(1)
           p == e.prefix
<1>0. FibTypeOK /\ num \in [Families -> Nat] /\ failed \subseteq Failures
  BY DEF FibBase, FibTypeOK
<1>1. Taking("replace")
  BY DEF WorkReplace
<1>2. /\ ev.pc = "locked" /\ ev.batch # <<>> /\ e = Head(ev.batch) /\ e.kind = "replace" /\ p \in Prefixes
      /\ e.infos # {} /\ e.infos \subseteq InfosOf(p) /\ e.infos # None /\ e.infos \in SUBSET Infos
  BY <1>1, TakingIs
<1>3. table[p] # None /\ num' = Unaccount(p, 1) /\ failed' = failed
  BY <1>2 DEF WorkReplace
<1>4. num' \in [Families -> Nat]
  BY <1>0, <1>2, <1>3, AccountIs
<1>5. failed \subseteq failed' /\ failed' \subseteq Failures
  BY <1>0, <1>3 DEF Failures
<1>6. /\ hwflag' = FlagSet(FlagSet(hwflag, p, e.infos, "trap"), p, table[p], "none")
      /\ table' = [table EXCEPT ![p] = e.infos]
  BY <1>2 DEF WorkReplace, ReplaceEntry
<1>7. Takes
  BY <1>2 DEF Takes, WorkReplace
<1>8. DOMAIN hwflag = Prefixes /\ \A q \in Prefixes : hwflag[q] \in [InfosOf(q) -> Flags]
  BY <1>0 DEF FibTypeOK
<1> DEFINE h == FlagSet(hwflag, p, e.infos, "trap")
<1>9. /\ DOMAIN h = Prefixes /\ \A q \in Prefixes : h[q] \in [InfosOf(q) -> Flags]
      /\ \A q \in Prefixes : q # p => h[q] = hwflag[q]
      /\ \A i \in InfosOf(p) : h[p][i] = IF i \in e.infos \cap kernel[p] THEN "trap" ELSE hwflag[p][i]
  BY <1>2, <1>8, FlagSetIs DEF Flags
<1>h. hwflag' = FlagSet(h, p, table[p], "none")
  BY <1>6
<1> HIDE DEF h
<1>10. /\ DOMAIN hwflag' = Prefixes /\ \A q \in Prefixes : hwflag'[q] \in [InfosOf(q) -> Flags]
       /\ \A q \in Prefixes : q # p => hwflag'[q] = h[q]
       /\ \A i \in InfosOf(p) : hwflag'[p][i] = IF i \in table[p] \cap kernel[p] THEN "none" ELSE h[p][i]
  BY <1>2, <1>9, <1>h, FlagSetIs DEF Flags
<1> DEFINE x == e.infos
<1>a. x = None \/ x \subseteq InfosOf(p)
  BY <1>0, <1>2, <1>3 DEF FibTypeOK
<1>b. table' = [table EXCEPT ![p] = x]
  BY <1>6
<1> HIDE DEF x
<1>c. /\ table' \in [Prefixes -> (SUBSET Infos) \cup {None}]
      /\ \A q \in Prefixes : table'[q] # None => table'[q] \subseteq InfosOf(q)
      /\ table'[p] = x /\ \A q \in Prefixes : q # p => table'[q] = table[q]
  BY <1>0, <1>2, <1>a, <1>b, EntryIs
<1>d. FibBase'
  BY <1>4, <1>5, <1>7, <1>8, <1>9, <1>10, <1>c, BaseTakes
<1> QED
  BY <1>2, <1>3, <1>7, <1>9, <1>10, <1>c, <1>d DEF x

\* An insertion fails.
LEMMA InsertFailsIs ==
  ASSUME FibBase, WorkInsertFails
  PROVE  LET e == At(1)
             p == e.prefix
         IN  /\ Takes /\ FibBase' /\ e.kind = "replace"
             /\ table' = table
             /\ \A q \in Prefixes : q # p => hwflag'[q] = hwflag[q]
             /\ \A i \in InfosOf(p) : hwflag'[p][i] = IF i \in e.infos \cap kernel[p] THEN "failed" ELSE hwflag[p][i]
             /\ num' \in [Families -> Nat] /\ \E f \in InsertFailures(table[p] = None) :
                  failed' = failed \cup {f} /\ (f # "insertion" => num' = num)
<1> DEFINE e == At(1)
           p == e.prefix
<1>0. FibTypeOK /\ num \in [Families -> Nat] /\ failed \subseteq Failures
  BY DEF FibBase, FibTypeOK
<1>1. Taking("replace")
  BY DEF WorkInsertFails
<1>2. /\ ev.pc = "locked" /\ ev.batch # <<>> /\ e = Head(ev.batch) /\ e.kind = "replace" /\ p \in Prefixes
      /\ e.infos # {} /\ e.infos \subseteq InfosOf(p) /\ e.infos # None /\ e.infos \in SUBSET Infos
  BY <1>1, TakingIs
<1>3. PICK f \in InsertFailures(table[p] = None) :
        num' = (IF f = "insertion" THEN Unaccount(p, 1) ELSE num) /\ failed' = failed \cup {f}
  BY <1>2 DEF WorkInsertFails
<1>4. num' \in [Families -> Nat] /\ (f # "insertion" => num' = num)
  BY <1>0, <1>2, <1>3, AccountIs
<1>5. failed \subseteq failed' /\ failed' \subseteq Failures
  BY <1>0, <1>3 DEF InsertFailures, Failures
<1>6. hwflag' = FlagSet(hwflag, p, e.infos, "failed") /\ table' = table /\ NextEvent
  BY <1>2 DEF WorkInsertFails
<1>7. Takes
  BY <1>2 DEF Takes, WorkInsertFails
<1>8. DOMAIN hwflag = Prefixes /\ \A q \in Prefixes : hwflag[q] \in [InfosOf(q) -> Flags]
  BY <1>0 DEF FibTypeOK
<1>9. /\ DOMAIN hwflag' = Prefixes /\ \A q \in Prefixes : hwflag'[q] \in [InfosOf(q) -> Flags]
      /\ \A q \in Prefixes : q # p => hwflag'[q] = hwflag[q]
      /\ \A i \in InfosOf(p) : hwflag'[p][i] = IF i \in e.infos \cap kernel[p] THEN "failed" ELSE hwflag[p][i]
  BY <1>2, <1>6, <1>8, FlagSetIs DEF Flags
<1>c. /\ table' \in [Prefixes -> (SUBSET Infos) \cup {None}]
      /\ \A q \in Prefixes : table'[q] # None => table'[q] \subseteq InfosOf(q)
  BY <1>0, <1>6 DEF FibTypeOK
<1>d. FibBase'
  BY <1>4, <1>5, <1>7, <1>8, <1>9, <1>c, BaseTakes
<1> QED
  BY <1>2, <1>3, <1>4, <1>7, <1>9, <1>6, <1>d

\* nsim_fib6_rt_append.
LEMMA AppendedIs ==
  ASSUME FibBase, WorkAppend
  PROVE  LET e == At(1)
             p == e.prefix
         IN  /\ Takes /\ FibBase' /\ e.kind = "append" /\ table[p] # None
             /\ table'[p] = table[p] \cup e.infos /\ \A q \in Prefixes : q # p => table'[q] = table[q]
             /\ \A q \in Prefixes : q # p => hwflag'[q] = hwflag[q]
             /\ \A i \in InfosOf(p) : hwflag'[p][i] = IF i \in e.infos \cap kernel[p] THEN "trap" ELSE hwflag[p][i]
             /\ num' = num /\ failed' = failed
<1> DEFINE e == At(1)
           p == e.prefix
<1>0. FibTypeOK /\ num \in [Families -> Nat] /\ failed \subseteq Failures
  BY DEF FibBase, FibTypeOK
<1>1. Taking("append")
  BY DEF WorkAppend
<1>2. /\ ev.pc = "locked" /\ ev.batch # <<>> /\ e = Head(ev.batch) /\ e.kind = "append" /\ p \in Prefixes
      /\ e.infos # {} /\ e.infos \subseteq InfosOf(p) /\ e.infos # None /\ e.infos \in SUBSET Infos
  BY <1>1, TakingIs
<1>3. table[p] # None /\ num' = num /\ failed' = failed
  BY <1>2 DEF WorkAppend
<1>4. num' \in [Families -> Nat]
  BY <1>0, <1>3
<1>5. failed \subseteq failed' /\ failed' \subseteq Failures
  BY <1>0, <1>3 DEF Failures
<1>6. /\ hwflag' = FlagSet(hwflag, p, e.infos, "trap")
      /\ table' = [table EXCEPT ![p] = table[p] \cup e.infos]
  BY <1>2 DEF WorkAppend
<1>7. Takes
  BY <1>2 DEF Takes, WorkAppend
<1>8. DOMAIN hwflag = Prefixes /\ \A q \in Prefixes : hwflag[q] \in [InfosOf(q) -> Flags]
  BY <1>0 DEF FibTypeOK
<1>9. /\ DOMAIN hwflag' = Prefixes /\ \A q \in Prefixes : hwflag'[q] \in [InfosOf(q) -> Flags]
      /\ \A q \in Prefixes : q # p => hwflag'[q] = hwflag[q]
      /\ \A i \in InfosOf(p) : hwflag'[p][i] = IF i \in e.infos \cap kernel[p] THEN "trap" ELSE hwflag[p][i]
  BY <1>2, <1>6, <1>8, FlagSetIs DEF Flags
<1> DEFINE x == table[p] \cup e.infos
<1>a. x = None \/ x \subseteq InfosOf(p)
  BY <1>0, <1>2, <1>3 DEF FibTypeOK
<1>b. table' = [table EXCEPT ![p] = x]
  BY <1>6
<1> HIDE DEF x
<1>c. /\ table' \in [Prefixes -> (SUBSET Infos) \cup {None}]
      /\ \A q \in Prefixes : table'[q] # None => table'[q] \subseteq InfosOf(q)
      /\ table'[p] = x /\ \A q \in Prefixes : q # p => table'[q] = table[q]
  BY <1>0, <1>2, <1>a, <1>b, EntryIs
<1>d. FibBase'
  BY <1>4, <1>5, <1>7, <1>8, <1>9, <1>c, BaseTakes
<1> QED
  BY <1>2, <1>3, <1>7, <1>9, <1>c, <1>d DEF x

\* An append fails, or has no entry.
LEMMA AppendFailsIs ==
  ASSUME FibBase, WorkAppendFails
  PROVE  LET e == At(1)
             p == e.prefix
         IN  /\ Takes /\ FibBase' /\ e.kind = "append"
             /\ table' = table
             /\ \A q \in Prefixes : q # p => hwflag'[q] = hwflag[q]
             /\ \A i \in InfosOf(p) : hwflag'[p][i] = IF i \in e.infos \cap kernel[p] THEN "failed" ELSE hwflag[p][i]
             /\ num' = num /\ ((table[p] = None /\ failed' = failed) \/ failed' = failed \cup {"append"})
<1> DEFINE e == At(1)
           p == e.prefix
<1>0. FibTypeOK /\ num \in [Families -> Nat] /\ failed \subseteq Failures
  BY DEF FibBase, FibTypeOK
<1>1. Taking("append")
  BY DEF WorkAppendFails
<1>2. /\ ev.pc = "locked" /\ ev.batch # <<>> /\ e = Head(ev.batch) /\ e.kind = "append" /\ p \in Prefixes
      /\ e.infos # {} /\ e.infos \subseteq InfosOf(p) /\ e.infos # None /\ e.infos \in SUBSET Infos
  BY <1>1, TakingIs
<1>3. num' = num /\ ((table[p] = None /\ failed' = failed) \/ failed' = failed \cup {"append"})
  BY <1>2 DEF WorkAppendFails
<1>4. num' \in [Families -> Nat]
  BY <1>0, <1>3
<1>5. failed \subseteq failed' /\ failed' \subseteq Failures
  BY <1>0, <1>3 DEF Failures
<1>6. /\ hwflag' = FlagSet(hwflag, p, e.infos, "failed")
      /\ table' = table
  BY <1>2 DEF WorkAppendFails
<1>7. Takes
  BY <1>2 DEF Takes, WorkAppendFails
<1>8. DOMAIN hwflag = Prefixes /\ \A q \in Prefixes : hwflag[q] \in [InfosOf(q) -> Flags]
  BY <1>0 DEF FibTypeOK
<1>9. /\ DOMAIN hwflag' = Prefixes /\ \A q \in Prefixes : hwflag'[q] \in [InfosOf(q) -> Flags]
      /\ \A q \in Prefixes : q # p => hwflag'[q] = hwflag[q]
      /\ \A i \in InfosOf(p) : hwflag'[p][i] = IF i \in e.infos \cap kernel[p] THEN "failed" ELSE hwflag[p][i]
  BY <1>2, <1>6, <1>8, FlagSetIs DEF Flags
<1>c. /\ table' \in [Prefixes -> (SUBSET Infos) \cup {None}]
      /\ \A q \in Prefixes : table'[q] # None => table'[q] \subseteq InfosOf(q)
  BY <1>0, <1>6 DEF FibTypeOK
<1>d. FibBase'
  BY <1>4, <1>5, <1>7, <1>8, <1>9, <1>c, BaseTakes
<1> QED
  BY <1>2, <1>3, <1>7, <1>9, <1>6, <1>d

\* nsim_fib4_rt_remove.
LEMMA Del4Is ==
  ASSUME FibBase, WorkDel4
  PROVE  LET e == At(1)
             p == e.prefix
         IN  /\ Takes /\ FibBase' /\ e.kind = "del" /\ p \in Prefixes4
             /\ table'[p] = None /\ \A q \in Prefixes : q # p => table'[q] = table[q]
             /\ hwflag' = hwflag
             /\ num' = num /\ failed' = failed
<1> DEFINE e == At(1)
           p == e.prefix
<1>0. FibTypeOK /\ num \in [Families -> Nat] /\ failed \subseteq Failures
  BY DEF FibBase, FibTypeOK
<1>1. Taking("del")
  BY DEF WorkDel4
<1>2. /\ ev.pc = "locked" /\ ev.batch # <<>> /\ e = Head(ev.batch) /\ e.kind = "del" /\ p \in Prefixes
      /\ e.infos # {} /\ e.infos \subseteq InfosOf(p) /\ e.infos # None /\ e.infos \in SUBSET Infos
  BY <1>1, TakingIs
<1>3. p \in Prefixes4 /\ num' = num /\ failed' = failed
  BY <1>2 DEF WorkDel4
<1>4. num' \in [Families -> Nat]
  BY <1>0, <1>3
<1>5. failed \subseteq failed' /\ failed' \subseteq Failures
  BY <1>0, <1>3 DEF Failures
<1>6. /\ hwflag' = hwflag
      /\ table' = [table EXCEPT ![p] = None]
  BY <1>2 DEF WorkDel4, kernelVars
<1>7. Takes
  BY <1>2 DEF Takes, WorkDel4, kernelVars
<1>8. DOMAIN hwflag = Prefixes /\ \A q \in Prefixes : hwflag[q] \in [InfosOf(q) -> Flags]
  BY <1>0 DEF FibTypeOK
<1>9. hwflag' = hwflag
  BY <1>6
<1> DEFINE x == None
<1>a. x = None \/ x \subseteq InfosOf(p)
  BY <1>0, <1>2, <1>3 DEF FibTypeOK
<1>b. table' = [table EXCEPT ![p] = x]
  BY <1>6
<1> HIDE DEF x
<1>c. /\ table' \in [Prefixes -> (SUBSET Infos) \cup {None}]
      /\ \A q \in Prefixes : table'[q] # None => table'[q] \subseteq InfosOf(q)
      /\ table'[p] = x /\ \A q \in Prefixes : q # p => table'[q] = table[q]
  BY <1>0, <1>2, <1>a, <1>b, EntryIs
<1>d. FibBase'
  BY <1>4, <1>5, <1>7, <1>8, <1>9, <1>c, BaseTakes
<1> QED
  BY <1>2, <1>3, <1>7, <1>9, <1>c, <1>d DEF x

\* nsim_fib6_rt_remove.
LEMMA Del6Is ==
  ASSUME FibBase, WorkDel6
  PROVE  LET e == At(1)
             p == e.prefix
         IN  /\ Takes /\ FibBase' /\ e.kind = "del" /\ p \in Prefixes6
             /\ table'[p] = (IF table[p] # None /\ Cardinality(e.infos) # Cardinality(table[p])
                              THEN table[p] \ e.infos ELSE None)
             /\ \A q \in Prefixes : q # p => table'[q] = table[q]
             /\ hwflag' = hwflag
             /\ num' = num /\ failed' = failed
<1> DEFINE e == At(1)
           p == e.prefix
<1>0. FibTypeOK /\ num \in [Families -> Nat] /\ failed \subseteq Failures
  BY DEF FibBase, FibTypeOK
<1>1. Taking("del")
  BY DEF WorkDel6
<1>2. /\ ev.pc = "locked" /\ ev.batch # <<>> /\ e = Head(ev.batch) /\ e.kind = "del" /\ p \in Prefixes
      /\ e.infos # {} /\ e.infos \subseteq InfosOf(p) /\ e.infos # None /\ e.infos \in SUBSET Infos
  BY <1>1, TakingIs
<1>3. p \in Prefixes6 /\ num' = num /\ failed' = failed
  BY <1>2 DEF WorkDel6
<1>4. num' \in [Families -> Nat]
  BY <1>0, <1>3
<1>5. failed \subseteq failed' /\ failed' \subseteq Failures
  BY <1>0, <1>3 DEF Failures
<1>6. /\ hwflag' = hwflag
      /\ table' = [table EXCEPT ![p] = IF table[p] # None /\ Cardinality(e.infos) # Cardinality(table[p])
                              THEN table[p] \ e.infos ELSE None]
  BY <1>2 DEF WorkDel6, kernelVars
<1>7. Takes
  BY <1>2 DEF Takes, WorkDel6, kernelVars
<1>8. DOMAIN hwflag = Prefixes /\ \A q \in Prefixes : hwflag[q] \in [InfosOf(q) -> Flags]
  BY <1>0 DEF FibTypeOK
<1>9. hwflag' = hwflag
  BY <1>6
<1> DEFINE x == IF table[p] # None /\ Cardinality(e.infos) # Cardinality(table[p])
                              THEN table[p] \ e.infos ELSE None
<1>a. x = None \/ x \subseteq InfosOf(p)
  BY <1>0, <1>2, <1>3 DEF FibTypeOK
<1>b. table' = [table EXCEPT ![p] = x]
  BY <1>6
<1> HIDE DEF x
<1>c. /\ table' \in [Prefixes -> (SUBSET Infos) \cup {None}]
      /\ \A q \in Prefixes : table'[q] # None => table'[q] \subseteq InfosOf(q)
      /\ table'[p] = x /\ \A q \in Prefixes : q # p => table'[q] = table[q]
  BY <1>0, <1>2, <1>a, <1>b, EntryIs
<1>d. FibBase'
  BY <1>4, <1>5, <1>7, <1>8, <1>9, <1>c, BaseTakes
<1>e. table'[p] = IF table[p] # None /\ Cardinality(e.infos) # Cardinality(table[p]) THEN table[p] \ e.infos ELSE None
  BY <1>c DEF x
<1> QED
  BY <1>2, <1>3, <1>7, <1>9, <1>c, <1>e, <1>d

\* The work takes the queue: what the flush waits for now runs.
LEMMA SpliceIs ==
  ASSUME FibBase, WorkSplice
  PROVE  /\ FibBase' /\ Total' = Total /\ Len(ev'.batch) = Total /\ \A k \in 1..Total : At(k)' = At(k)
         /\ kernel' = kernel /\ hwflag' = hwflag /\ phase' = phase /\ dump' = dump /\ num' = num
         /\ table' = table /\ failed' = failed
         /\ flush'.pending <=> flush.pending
         /\ flush'.pc = IF flush.pc = "wait pending" THEN "wait running" ELSE flush.pc
<1>0. FibTypeOK /\ WorkInv /\ PhaseInv
  BY DEF FibBase
<1>1. /\ ev' \in EvType /\ ev'.pc = "spliced" /\ ~ev'.pending /\ ev'.batch = queue
      /\ queue' = <<>> /\ Total' = Total /\ Len(ev'.batch) = Total
      /\ \A k \in 1..Total : At(k)' = At(k)
  BY <1>0, SplicedIs
<1>2. /\ kernel' = kernel /\ hwflag' = hwflag /\ phase' = phase /\ dump' = dump /\ num' = num
      /\ table' = table /\ failed' = failed /\ ev.pending
  BY DEF WorkSplice, kernelVars
<1> DEFINE c == IF flush.pc = "wait pending" THEN "wait running" ELSE flush.pc
<1>3. flush' = [flush EXCEPT !.pc = c]
  BY DEF WorkSplice
<1>4. flush \in FlushType /\ c \in {"idle", "wait pending", "wait running", "ready"}
  BY <1>0, FlushIs DEF FibTypeOK
<1> HIDE DEF c
<1>5. flush' \in FlushType /\ flush'.pc = c /\ (flush'.pending <=> flush.pending)
  BY <1>3, <1>4, FlushIs
<1> USE DEF c
<1>e. queue' \in Seq(Events)
  BY <1>1
<1>6. FibTypeOK'
  BY <1>0, <1>1, <1>2, <1>5, <1>e DEF FibTypeOK
<1>7. WorkInv'
  BY <1>0, <1>1, <1>2, <1>5 DEF WorkInv, EventsScheduled
<1>8. PhaseInv'
  BY <1>0, <1>2, <1>5 DEF PhaseInv, FlushWorkDone, EventWorkDone
<1> QED
  BY <1>1, <1>2, <1>5, <1>6, <1>7, <1>8 DEF FibBase

\* The outstanding events are those of the batch and of the queue.
LEMMA SameEvents ==
  ASSUME ev'.batch = ev.batch, queue' = queue
  PROVE  Total' = Total /\ \A k : At(k)' = At(k)
BY DEF Total, At

\* The work has the lock.
LEMMA LockIs ==
  ASSUME FibBase, WorkLock
  PROVE  /\ FibBase' /\ ev'.batch = ev.batch /\ queue' = queue
         /\ kernel' = kernel /\ hwflag' = hwflag /\ phase' = phase /\ dump' = dump /\ num' = num
         /\ table' = table /\ failed' = failed /\ flush' = flush
<1>0. FibTypeOK /\ WorkInv /\ PhaseInv
  BY DEF FibBase
<1>1. /\ kernel' = kernel /\ hwflag' = hwflag /\ phase' = phase /\ dump' = dump /\ num' = num
      /\ table' = table /\ failed' = failed /\ flush' = flush /\ queue' = queue /\ ev.pc = "spliced"
  BY DEF WorkLock, kernelVars
<1>2. ev' \in EvType /\ ev'.pc = "locked" /\ (ev'.pending <=> ev.pending) /\ ev'.batch = ev.batch
  BY <1>0, EvIs DEF WorkLock, FibTypeOK
<1>3. FibTypeOK'
  BY <1>0, <1>1, <1>2 DEF FibTypeOK
<1>4. WorkInv'
  BY <1>0, <1>1, <1>2 DEF WorkInv, EventsScheduled
<1>5. PhaseInv'
  BY <1>0, <1>1, <1>2 DEF PhaseInv, FlushWorkDone, EventWorkDone
<1> QED
  BY <1>1, <1>2, <1>3, <1>4, <1>5 DEF FibBase

\* The work ends: what waits for it may go on.
LEMMA EndIs ==
  ASSUME FibBase, WorkEnd
  PROVE  /\ FibBase' /\ ev'.batch = ev.batch /\ queue' = queue /\ ev.batch = <<>>
         /\ kernel' = kernel /\ hwflag' = hwflag /\ phase' = phase /\ dump' = dump /\ num' = num
         /\ table' = table /\ failed' = failed
         /\ flush'.pending <=> flush.pending
         /\ flush'.pc = IF flush.pc = "wait running" THEN "ready" ELSE flush.pc
<1>0. FibTypeOK /\ WorkInv /\ PhaseInv
  BY DEF FibBase
<1>1. /\ kernel' = kernel /\ hwflag' = hwflag /\ phase' = phase /\ dump' = dump /\ num' = num
      /\ table' = table /\ failed' = failed /\ queue' = queue /\ ev.pc = "locked" /\ ev.batch = <<>>
  BY DEF WorkEnd, kernelVars
<1>2. ev' \in EvType /\ ev'.pc = "idle" /\ (ev'.pending <=> ev.pending) /\ ev'.batch = ev.batch
  BY <1>0, EvIs DEF WorkEnd, FibTypeOK
<1> DEFINE c == IF flush.pc = "wait running" THEN "ready" ELSE flush.pc
<1>3. flush' = [flush EXCEPT !.pc = c]
  BY DEF WorkEnd
<1>4. flush \in FlushType /\ c \in {"idle", "wait pending", "wait running", "ready"}
  BY <1>0, FlushIs DEF FibTypeOK
<1> HIDE DEF c
<1>5. flush' \in FlushType /\ flush'.pc = c /\ (flush'.pending <=> flush.pending)
  BY <1>3, <1>4, FlushIs
<1> USE DEF c
<1>6. FibTypeOK'
  BY <1>0, <1>1, <1>2, <1>5 DEF FibTypeOK
<1>7. WorkInv'
  BY <1>0, <1>1, <1>2, <1>5 DEF WorkInv, EventsScheduled
<1>8. PhaseInv'
  BY <1>0, <1>1, <1>2, <1>5 DEF PhaseInv, FlushWorkDone, EventWorkDone
<1> QED
  BY <1>1, <1>2, <1>5, <1>6, <1>7, <1>8 DEF FibBase

\* The flush begins, and waits for the event work if that has anything to do.
LEMMA FlushBeginIs ==
  ASSUME FibBase, FlushBegin
  PROVE  /\ FibBase' /\ ev' = ev /\ queue' = queue /\ flush.pending
         /\ kernel' = kernel /\ hwflag' = hwflag /\ phase' = phase /\ dump' = dump /\ num' = num
         /\ table' = table /\ failed' = failed
         /\ ~flush'.pending
         /\ flush'.pc = IF ev.pending THEN "wait pending" ELSE IF ev.pc # "idle" THEN "wait running" ELSE "ready"
<1>0. FibTypeOK /\ WorkInv /\ PhaseInv
  BY DEF FibBase
<1>1. /\ kernel' = kernel /\ hwflag' = hwflag /\ phase' = phase /\ dump' = dump /\ num' = num
      /\ table' = table /\ failed' = failed /\ queue' = queue /\ ev' = ev /\ flush.pending
  BY DEF FlushBegin, kernelVars
<1> DEFINE c == IF ev.pending THEN "wait pending" ELSE IF ev.pc # "idle" THEN "wait running" ELSE "ready"
<1>2. flush' = [pending |-> FALSE, pc |-> c]
  BY DEF FlushBegin
<1>3. flush' \in FlushType /\ flush'.pc = c /\ ~flush'.pending
  BY <1>2 DEF FlushType
<1>4. FibTypeOK'
  BY <1>0, <1>1, <1>3 DEF FibTypeOK
<1>5. WorkInv'
  BY <1>0, <1>1, <1>3 DEF WorkInv, EventsScheduled
<1>6. PhaseInv'
  BY <1>0, <1>1, <1>3 DEF PhaseInv, FlushWorkDone, EventWorkDone
<1> QED
  BY <1>1, <1>3, <1>4, <1>5, <1>6 DEF FibBase

\* The flush empties the table.
LEMMA FlushTableIs ==
  ASSUME FibBase, FlushTable
  PROVE  /\ FibBase' /\ ev' = ev /\ queue' = queue /\ FreeTable /\ "delete" \in failed
         /\ kernel' = kernel /\ phase' = phase /\ dump' = dump /\ failed' = failed
         /\ flush.pc = "ready" /\ (flush'.pending <=> flush.pending) /\ flush'.pc = "idle"
<1>0. FibTypeOK /\ WorkInv /\ PhaseInv
  BY DEF FibBase
<1>1. /\ kernel' = kernel /\ phase' = phase /\ dump' = dump /\ FreeTable
      /\ failed' = failed /\ queue' = queue /\ ev' = ev /\ flush.pc = "ready"
  BY DEF FlushTable
<1>2. flush' \in FlushType /\ (flush'.pending <=> flush.pending) /\ flush'.pc = "idle"
  BY <1>0, FlushIs DEF FlushTable, FibTypeOK
<1>3. /\ table' \in [Prefixes -> (SUBSET Infos) \cup {None}] /\ \A p \in Prefixes : table'[p] = None
      /\ DOMAIN hwflag' = Prefixes /\ \A q \in Prefixes : hwflag'[q] \in [InfosOf(q) -> Flags]
      /\ num' \in [Families -> Nat]
  BY <1>0, <1>1, FreeTableIs
<1>4. FibTypeOK'
  BY <1>0, <1>1, <1>2, <1>3 DEF FibTypeOK
<1>5. WorkInv'
  BY <1>0, <1>1, <1>2 DEF WorkInv, EventsScheduled
<1>6. PhaseInv'
  BY <1>0, <1>1, <1>2, <1>3 DEF PhaseInv, FlushWorkDone, EventWorkDone
<1> QED
  BY <1>0, <1>1, <1>2, <1>4, <1>5, <1>6 DEF FibBase, WorkInv

\* The device is created: the dump begins.
LEMMA CreateIs ==
  ASSUME FibBase, CreateBegin
  PROVE  /\ FibBase' /\ ev' = ev /\ queue' = queue /\ ev.batch = <<>> /\ queue = <<>> /\ Total = 0 /\ Total' = 0
         /\ kernel' = kernel /\ hwflag' = hwflag /\ table' = table /\ \A p \in Prefixes : table[p] = None
         /\ phase' = "dump" /\ ~dump'.changed /\ dump'.todo = {p \in Prefixes : kernel[p] # {}}
         /\ num' = [f \in Families |-> 0] /\ failed' = {}
<1>0. FibTypeOK /\ WorkInv /\ PhaseInv
  BY DEF FibBase
<1>1. /\ kernel' = kernel /\ hwflag' = hwflag /\ table' = table /\ flush' = flush /\ queue' = queue /\ ev' = ev
      /\ phase = "gone" /\ phase' = "dump" /\ num' = [f \in Families |-> 0] /\ failed' = {}
      /\ dump' = [todo |-> {p \in Prefixes : kernel[p] # {}}, changed |-> FALSE, tries |-> 1]
  BY DEF CreateBegin, kernelVars
<1>2. dump' \in DumpType /\ ~dump'.changed /\ dump'.todo = {p \in Prefixes : kernel[p] # {}}
  BY <1>1 DEF DumpType
<1>3. FlushWorkDone /\ EventWorkDone /\ \A p \in Prefixes : table[p] = None
  BY <1>0, <1>1 DEF PhaseInv
<1>4. Total = 0 /\ queue = <<>> /\ ev.batch = <<>> /\ Total' = Total
  BY <1>0, <1>1, <1>3, NoneLeft DEF Total
<1>5. FibTypeOK'
  BY <1>0, <1>1, <1>2 DEF FibTypeOK
<1>6. WorkInv'
  BY <1>0, <1>1, <1>3 DEF WorkInv, EventsScheduled, FlushWorkDone
<1>7. PhaseInv'
  BY <1>1 DEF PhaseInv
<1> QED
  BY <1>1, <1>2, <1>3, <1>4, <1>5, <1>6, <1>7 DEF FibBase

\* The dump has met p, and goes on.
Dumped(p) ==
  /\ phase = "dump" /\ phase' = "dump" /\ p \in dump.todo
  /\ dump'.todo = dump.todo \ {p} /\ (dump'.changed <=> dump.changed)
  /\ kernel' = kernel /\ hwflag' = hwflag /\ table' = table /\ failed' = failed /\ flush' = flush

\* It finds no route, or one to be announced, or the limit reached.
LEMMA DumpEntryIs ==
  ASSUME FibBase, NEW p \in Prefixes, DumpEntry(p)
  PROVE  /\ FibBase'
         /\ \/ Dumped(p) /\ kernel[p] = {} /\ num' = num /\ queue' = queue /\ ev' = ev
            \/ /\ Dumped(p) /\ kernel[p] # {} /\ num' = Account(p)
               /\ Event("replace", p, kernel[p]) \in Events
               /\ ScheduleEvent(Event("replace", p, kernel[p]))
            \/ phase' = "cancel"
<1>0. FibTypeOK /\ WorkInv /\ PhaseInv
  BY DEF FibBase
<1>1. /\ kernel' = kernel /\ hwflag' = hwflag /\ table' = table /\ flush' = flush /\ failed' = failed
      /\ phase = "dump" /\ p \in dump.todo
  BY DEF DumpEntry, kernelVars
<1>2. ASSUME dump' = [dump EXCEPT !.todo = @ \ {p}]
      PROVE  dump' \in DumpType /\ dump'.todo = dump.todo \ {p} /\ (dump'.changed <=> dump.changed)
  BY <1>0, <1>2 DEF DumpType, FibTypeOK
<1>3. CASE kernel[p] = {} /\ dump' = [dump EXCEPT !.todo = @ \ {p}] /\ UNCHANGED <<phase, num, queue, ev>>
  <2>1. /\ kernel[p] = {} /\ phase' = phase /\ num' = num /\ queue' = queue /\ ev' = ev
        /\ dump' \in DumpType /\ dump'.todo = dump.todo \ {p} /\ (dump'.changed <=> dump.changed)
    BY <1>2, <1>3
  <2>2. FibTypeOK'
    BY <1>0, <1>1, <2>1 DEF FibTypeOK
  <2>3. WorkInv'
    BY <1>0, <1>1, <2>1 DEF WorkInv, EventsScheduled
  <2>4. PhaseInv'
    BY <1>0, <1>1, <2>1 DEF PhaseInv
  <2> QED
    BY <1>1, <2>1, <2>2, <2>3, <2>4 DEF FibBase, Dumped
<1>4. CASE phase' = "cancel" /\ dump' = NoDump /\ UNCHANGED <<num, queue, ev>>
  <2>1. phase' = "cancel" /\ num' = num /\ queue' = queue /\ ev' = ev
    BY <1>4
  <2>2. dump' \in DumpType /\ dump'.todo = {}
    BY <1>4 DEF DumpType, NoDump
  <2>3. FibTypeOK'
    BY <1>0, <1>1, <2>1, <2>2 DEF FibTypeOK
  <2>4. WorkInv'
    BY <1>0, <1>1, <2>1 DEF WorkInv, EventsScheduled
  <2>5. PhaseInv'
    BY <2>1, <2>2 DEF PhaseInv
  <2> QED
    BY <2>1, <2>3, <2>4, <2>5 DEF FibBase
<1>5. CASE /\ kernel[p] # {} /\ dump' = [dump EXCEPT !.todo = @ \ {p}]
           /\ num' = Account(p) /\ ScheduleEvent(Event("replace", p, kernel[p])) /\ phase' = phase
  <2>1. /\ kernel[p] # {} /\ phase' = phase /\ num' = Account(p) /\ ScheduleEvent(Event("replace", p, kernel[p]))
        /\ dump' \in DumpType /\ dump'.todo = dump.todo \ {p} /\ (dump'.changed <=> dump.changed)
    BY <1>2, <1>5
  <2>2. Event("replace", p, kernel[p]) \in Events
    BY <1>0, <2>1, EventIs DEF FibTypeOK, Kinds
  <2>3. queue' \in Seq(Events) /\ ev' \in EvType /\ ev'.pc = ev.pc /\ ev'.pending /\ ev'.batch = ev.batch
    BY <1>0, <2>1, <2>2, ScheduledIs
  <2>4. num' \in [Families -> Nat]
    BY <1>0, <2>1, AccountIs DEF FibTypeOK
  <2>5. FibTypeOK'
    BY <1>0, <1>1, <2>1, <2>3, <2>4 DEF FibTypeOK
  <2>6. WorkInv'
    BY <1>0, <1>1, <2>3 DEF WorkInv, EventsScheduled
  <2>7. PhaseInv'
    BY <1>0, <1>1, <2>1 DEF PhaseInv
  <2> QED
    BY <1>1, <2>1, <2>2, <2>5, <2>6, <2>7 DEF FibBase, Dumped
<1> QED
  BY <1>3, <1>4, <1>5 DEF DumpEntry

\* The notifier is registered, found consistent or not, or unregistered.
LEMMA PhasesAre ==
  ASSUME FibBase, DumpRegister \/ DumpCheck \/ DestroyUnregister \/ DestroyCancel
  PROVE  /\ FibBase' /\ ev' = ev /\ queue' = queue
         /\ kernel' = kernel /\ hwflag' = hwflag /\ table' = table /\ num' = num /\ failed' = failed
         /\ dump.todo = {} /\ dump'.todo = {} /\ (Told' => Told /\ flush' = flush) /\ phase' # "dump"
         /\ phase' = "check" => phase = "dump" /\ dump' = dump
<1>0. FibTypeOK /\ WorkInv /\ PhaseInv
  BY DEF FibBase
<1>1. /\ kernel' = kernel /\ hwflag' = hwflag /\ table' = table /\ num' = num /\ queue' = queue /\ ev' = ev
      /\ failed' = failed
  BY DEF DumpRegister, DumpCheck, DestroyUnregister, DestroyCancel, kernelVars
<1>2. NoDump \in DumpType /\ NoDump.todo = {}
  BY DEF DumpType, NoDump
<1>3. CASE DumpRegister
  <2>1. phase = "dump" /\ dump.todo = {} /\ phase' = "check" /\ dump' = dump /\ flush' = flush
    BY <1>3 DEF DumpRegister
  <2>2. FibTypeOK'
    BY <1>0, <1>1, <2>1 DEF FibTypeOK
  <2>3. WorkInv' /\ PhaseInv'
    BY <1>0, <1>1, <2>1 DEF WorkInv, EventsScheduled, PhaseInv
  <2> QED
    BY <1>1, <2>1, <2>2, <2>3 DEF FibBase, Told
<1>4. CASE DumpCheck
  <2>1. /\ phase = "check" /\ flush' = flush
        /\ (dump.changed /\ phase' = "inconsistent" /\ dump' = dump) \/ (~dump.changed /\ phase' = "live" /\ dump' = NoDump)
    BY <1>4 DEF DumpCheck
  <2>2. dump.todo = {} /\ dump'.todo = {} /\ dump' \in DumpType
    BY <1>0, <1>2, <2>1 DEF PhaseInv, FibTypeOK
  <2>3. FibTypeOK'
    BY <1>0, <1>1, <2>1, <2>2 DEF FibTypeOK
  <2>4. WorkInv' /\ PhaseInv'
    BY <1>0, <1>1, <2>1, <2>2 DEF WorkInv, EventsScheduled, PhaseInv
  <2> QED
    BY <1>1, <2>1, <2>2, <2>3, <2>4 DEF FibBase, Told
<1>5. CASE DestroyUnregister
  <2>1. phase = "live" /\ phase' = "cancel" /\ dump' = dump /\ flush' = flush
    BY <1>5 DEF DestroyUnregister
  <2>2. dump.todo = {}
    BY <1>0, <2>1 DEF PhaseInv
  <2>3. FibTypeOK'
    BY <1>0, <1>1, <2>1 DEF FibTypeOK
  <2>4. WorkInv' /\ PhaseInv'
    BY <1>0, <1>1, <2>1, <2>2 DEF WorkInv, EventsScheduled, PhaseInv
  <2> QED
    BY <1>1, <2>1, <2>2, <2>3, <2>4 DEF FibBase, Told
<1>6. CASE DestroyCancel
  <2>1. /\ phase = "cancel" /\ phase' = "drain" /\ dump' = dump /\ flush.pc = "idle"
        /\ flush' = [flush EXCEPT !.pending = FALSE]
    BY <1>6 DEF DestroyCancel
  <2>2. flush' \in FlushType /\ ~flush'.pending /\ flush'.pc = "idle"
    BY <1>0, <2>1, FlushIs DEF FibTypeOK
  <2>3. dump.todo = {}
    BY <1>0, <2>1 DEF PhaseInv
  <2>4. FibTypeOK'
    BY <1>0, <1>1, <2>1, <2>2 DEF FibTypeOK
  <2>5. WorkInv' /\ PhaseInv'
    BY <1>0, <1>1, <2>1, <2>2, <2>3 DEF WorkInv, EventsScheduled, PhaseInv, FlushWorkDone
  <2> QED
    BY <1>1, <2>1, <2>3, <2>4, <2>5 DEF FibBase, Told
<1> QED
  BY <1>3, <1>4, <1>5, <1>6

\* The tables are emptied between two dumps, or for good, with no event outstanding.
LEMMA EmptiedIs ==
  ASSUME FibBase, DumpInconsistent \/ DestroyFree
  PROVE  /\ FibBase' /\ ev' = ev /\ queue' = queue /\ ev.batch = <<>> /\ queue = <<>> /\ Total = 0 /\ Total' = 0
         /\ kernel' = kernel /\ failed' = failed /\ FreeTable
         /\ Told' => phase' = "dump" /\ phase = "inconsistent" /\ dump'.todo = {p \in Prefixes : kernel[p] # {}}
<1>0. FibTypeOK /\ WorkInv /\ PhaseInv
  BY DEF FibBase
<1>1. kernel' = kernel /\ queue' = queue /\ ev' = ev /\ flush' = flush /\ failed' = failed /\ FreeTable /\ EventWorkDone
  BY DEF DumpInconsistent, DestroyFree
<1>2. NoDump \in DumpType /\ NoDump.todo = {}
  BY DEF DumpType, NoDump
<1>3. Total = 0 /\ queue = <<>> /\ ev.batch = <<>> /\ Total' = Total
  BY <1>0, <1>1, NoneLeft DEF Total
<1>4. /\ table' \in [Prefixes -> (SUBSET Infos) \cup {None}] /\ \A p \in Prefixes : table'[p] = None
      /\ DOMAIN hwflag' = Prefixes /\ \A q \in Prefixes : hwflag'[q] \in [InfosOf(q) -> Flags]
      /\ num' \in [Families -> Nat]
  BY <1>0, <1>1, FreeTableIs
<1>5. WorkInv'
  BY <1>0, <1>1 DEF WorkInv, EventsScheduled
<1>6. CASE DestroyFree
  <2>1. phase = "drain" /\ phase' = "gone" /\ dump' = dump
    BY <1>6 DEF DestroyFree
  <2>2. FibTypeOK'
    BY <1>0, <1>1, <1>4, <2>1 DEF FibTypeOK
  <2>3. PhaseInv'
    BY <1>0, <1>1, <1>3, <1>4, <2>1 DEF PhaseInv, EventWorkDone, FlushWorkDone
  <2> QED
    BY <1>1, <1>3, <1>5, <2>1, <2>2, <2>3 DEF FibBase, Told
<1>7. CASE DumpInconsistent
  <2>1. /\ phase = "inconsistent"
        /\ \/ /\ phase' = "dump"
              /\ dump' = [todo |-> {p \in Prefixes : kernel[p] # {}}, changed |-> FALSE, tries |-> dump.tries + 1]
           \/ phase' = "cancel" /\ dump' = NoDump
    BY <1>7 DEF DumpInconsistent
  <2>2. /\ dump' \in DumpType
        /\ phase' = "dump" => dump'.todo = {p \in Prefixes : kernel[p] # {}}
        /\ phase' # "dump" => dump'.todo = {}
    <3>1. PICK n \in Nat : n = dump.tries + 1
      BY <1>0 DEF DumpType, FibTypeOK
    <3>2. CASE phase' = "dump"
      <4>1. dump' = [todo |-> {p \in Prefixes : kernel[p] # {}}, changed |-> FALSE, tries |-> n]
        BY <2>1, <3>1, <3>2
      <4> QED
        BY <3>2, <4>1 DEF DumpType
    <3>3. CASE phase' = "cancel" /\ dump' = NoDump
      BY <1>2, <3>3
    <3> QED
      BY <2>1, <3>2, <3>3
  <2>3. FibTypeOK'
    BY <1>0, <1>1, <1>4, <2>1, <2>2 DEF FibTypeOK
  <2>4. PhaseInv'
    BY <2>1, <2>2 DEF PhaseInv
  <2> QED
    BY <1>1, <1>3, <1>5, <2>1, <2>2, <2>3, <2>4 DEF FibBase, Told
<1> QED
  BY <1>6, <1>7

\* Every step keeps the types, the works and the phases.
LEMMA BaseStep ==
  ASSUME FibBase, [FibNext]_fibVars
  PROVE  FibBase'
<1>1. CASE UNCHANGED fibVars
  BY <1>1
     DEF fibVars, kernelVars, FibBase, FibTypeOK, WorkInv, PhaseInv, EventsScheduled, FlushWorkDone,
         EventWorkDone
<1>2. ASSUME NEW p \in Prefixes, RouteReplace(p) \/ RouteAppend(p) \/ RouteVeto(p) \/ DumpEntry(p) PROVE FibBase'
  BY <1>2, BaseRoutes, BaseVeto, DumpEntryIs
<1>3. ASSUME NEW p \in Prefixes, NEW S \in SUBSET kernel[p], RouteDel(p, S) \/ RouteDelFails(p, S) PROVE FibBase'
  BY <1>3, BaseRoutes, BaseDelFails
<1>4. CASE \/ WorkAdd \/ WorkReplace \/ WorkInsertFails \/ WorkAppend \/ WorkAppendFails \/ WorkDel4 \/ WorkDel6
  BY <1>4, AddIs, ReplacedIs, InsertFailsIs, AppendedIs, AppendFailsIs, Del4Is, Del6Is
<1>5. CASE WorkSplice \/ WorkLock \/ WorkEnd \/ FlushBegin \/ FlushTable
  BY <1>5, SpliceIs, LockIs, EndIs, FlushBeginIs, FlushTableIs
<1>6. CASE CreateBegin \/ DumpRegister \/ DumpCheck \/ DumpInconsistent \/ DestroyUnregister \/ DestroyCancel \/ DestroyFree
  BY <1>6, CreateIs, PhasesAre, EmptiedIs
<1> QED
  BY <1>1, <1>2, <1>3, <1>4, <1>5, <1>6 DEF FibNext

\* It holds of the initial state.
LEMMA BaseInit ==
  ASSUME FibInit
  PROVE  FibBase
<1>1. <<>> \in Seq(Events)
  OBVIOUS
<1>2. ev \in EvType /\ ev.pc = "idle" /\ ~ev.pending /\ ev.batch = <<>> /\ queue = <<>>
  BY <1>1 DEF FibInit, EvType
<1>3. flush \in FlushType /\ flush.pc = "idle" /\ ~flush.pending
  BY DEF FibInit, FlushType
<1>4. dump \in DumpType /\ dump.todo = {}
  BY DEF FibInit, DumpType, NoDump
<1>5. kernel \in [Prefixes -> SUBSET Infos] /\ \A p \in Prefixes : kernel[p] = {}
  BY DEF FibInit
<1>6. DOMAIN hwflag = Prefixes /\ \A p \in Prefixes : hwflag[p] \in [InfosOf(p) -> Flags]
  BY DEF FibInit, Flags
<1>7. table \in [Prefixes -> (SUBSET Infos) \cup {None}] /\ \A p \in Prefixes : table[p] = None
  BY DEF FibInit
<1>8. num \in [Families -> Nat] /\ failed = {} /\ phase = "gone"
  BY DEF FibInit
<1>9. FibTypeOK
  BY <1>1, <1>2, <1>3, <1>4, <1>5, <1>6, <1>7, <1>8 DEF FibTypeOK, Prefixes
<1>10. WorkInv /\ PhaseInv
  BY <1>2, <1>3, <1>4, <1>7, <1>8 DEF WorkInv, EventsScheduled, PhaseInv, FlushWorkDone, EventWorkDone
<1> QED
  BY <1>9, <1>10 DEF FibBase

\* The works of fib.c and the phases of the device: the types, no event without a
\* run to come, a flush only after a failed deletion, nothing left when it is gone.
THEOREM FibWorks == FibSpec => []FibBase
BY BaseInit, BaseStep, PTL DEF FibSpec

\* EventsScheduled: an event added to fib_event_queue while the work is at its batch
\* has a run of the work to come.
THEOREM NoEventStranded == FibSpec => []EventsScheduled
<1>1. FibBase => EventsScheduled
  BY DEF FibBase, WorkInv
<1> QED
  BY FibWorks, <1>1, PTL

-----------------------------------------------------------------------------
(* The events of a dump. *)

\* The condition of DumpInv.
Dumping == phase \in {"dump", "check"} /\ ~dump.changed

\* A dump that goes on with the same events, and a table that has at most lost entries.
LEMMA DumpKept ==
  ASSUME DumpInv, Dumping' => Dumping, dump'.todo \subseteq dump.todo,
         Total' = Total, \A k \in 1..Total : At(k)' = At(k),
         FibTypeOK, \A p \in Prefixes : table'[p] = table[p] \/ table'[p] = None
  PROVE  DumpInv'
<1> SUFFICES ASSUME Dumping' PROVE DumpInv'
  BY DEF DumpInv, Dumping
<1>1. /\ \A p \in dump.todo : Untouched(p)
      /\ \A k \in 1..Total :
           /\ At(k).kind = "replace" /\ table[At(k).prefix] = None
           /\ \A j \in 1..Total : j # k => At(j).prefix # At(k).prefix
  BY DEF DumpInv, Dumping
<1>2. \A k \in 1..Total : At(k).prefix \in Prefixes
  BY AtIs, EventHas
<1>3. dump.todo \subseteq Prefixes
  BY DEF FibTypeOK, DumpType
<1>4. ASSUME NEW p \in dump'.todo PROVE Untouched(p)'
  <2>1. table[p] = None /\ \A k \in 1..Total : At(k).prefix # p
    BY <1>1 DEF Untouched
  <2> QED
    BY <1>3, <2>1 DEF Untouched
<1>5. ASSUME NEW k \in 1..Total
      PROVE  /\ At(k)'.kind = "replace" /\ table'[At(k)'.prefix] = None
             /\ \A j \in 1..Total : j # k => At(j)'.prefix # At(k)'.prefix
  BY <1>1, <1>2
<1> QED
  BY <1>4, <1>5 DEF DumpInv

\* Taking an event fills the entry of a prefix of which no other event is.
LEMMA DumpTakes ==
  ASSUME FibBase, DumpInv, Takes, \A q \in Prefixes : q # At(1).prefix => table'[q] = table[q]
  PROVE  DumpInv'
<1> SUFFICES ASSUME Dumping' PROVE DumpInv'
  BY DEF DumpInv, Dumping
<1>0. FibTypeOK
  BY DEF FibBase
<1>1. /\ \A p \in dump.todo : Untouched(p)
      /\ \A k \in 1..Total :
           /\ At(k).kind = "replace" /\ table[At(k).prefix] = None
           /\ \A j \in 1..Total : j # k => At(j).prefix # At(k).prefix
  BY DEF DumpInv, Dumping, Takes
<1>2. \A k \in 1..Total : At(k).prefix \in Prefixes
  BY <1>0, AtIs, EventHas
<1>3. PICK n \in Nat : Total = n /\ n >= 1 /\ Total' = n - 1 /\ \A k \in 1..(n - 1) : At(k)' = At(k + 1)
  BY <1>0, TookIs DEF Takes
<1>4. dump'.todo = dump.todo /\ dump.todo \subseteq Prefixes
  BY <1>0 DEF FibTypeOK, DumpType, Takes
<1>5. ASSUME NEW p \in dump'.todo PROVE Untouched(p)'
  <2>1. table[p] = None /\ \A k \in 1..n : At(k).prefix # p
    BY <1>1, <1>3, <1>4 DEF Untouched
  <2>2. \A k \in 1..(n - 1) : At(k)'.prefix # p
    BY <1>3, <2>1
  <2>3. table'[p] = None
    BY <1>3, <1>4, <2>1
  <2> QED
    BY <1>3, <2>2, <2>3 DEF Untouched
<1>6. ASSUME NEW k \in 1..(n - 1)
      PROVE  /\ At(k)'.kind = "replace" /\ table'[At(k)'.prefix] = None
             /\ \A j \in 1..(n - 1) : j # k => At(j)'.prefix # At(k)'.prefix
  <2>1. k + 1 \in 1..n /\ k + 1 # 1 /\ 1 \in 1..n
    BY <1>3
  <2>2. At(k)' = At(k + 1) /\ At(k + 1).kind = "replace" /\ table[At(k + 1).prefix] = None
    BY <1>1, <1>3, <2>1
  <2>3. At(k + 1).prefix # At(1).prefix /\ At(k + 1).prefix \in Prefixes
    BY <1>1, <1>2, <1>3, <2>1
  <2>4. ASSUME NEW j \in 1..(n - 1), j # k PROVE At(j)'.prefix # At(k)'.prefix
    <3>1. j + 1 \in 1..n /\ j + 1 # k + 1 /\ At(j)' = At(j + 1)
      BY <1>3, <2>4
    <3> QED
      BY <1>1, <1>3, <2>1, <2>2, <3>1
  <2> QED
    BY <2>2, <2>3, <2>4
<1> QED
  BY <1>3, <1>5, <1>6 DEF DumpInv

\* The dump meets a route.
LEMMA DumpScheduled ==
  ASSUME FibBase, DumpInv, NEW p \in Prefixes, Dumped(p), NEW e \in Events, e.kind = "replace", e.prefix = p,
         ScheduleEvent(e)
  PROVE  DumpInv'
<1> SUFFICES ASSUME Dumping' PROVE DumpInv'
  BY DEF DumpInv, Dumping
<1>0. FibTypeOK
  BY DEF FibBase
<1>1. /\ \A q \in dump.todo : Untouched(q)
      /\ \A k \in 1..Total :
           /\ At(k).kind = "replace" /\ table[At(k).prefix] = None
           /\ \A j \in 1..Total : j # k => At(j).prefix # At(k).prefix
  BY DEF DumpInv, Dumping, Dumped
<1>2. PICK n \in Nat : Total = n /\ Total' = n + 1 /\ At(Total)' = e /\ \A k \in 1..n : At(k)' = At(k)
  BY <1>0, ScheduledIs
<1>3. At(n + 1)' = e
  BY <1>2
<1>4. table' = table /\ dump'.todo = dump.todo \ {p} /\ p \in dump.todo
  BY DEF Dumped
<1>5. \A k \in 1..(n + 1) : k \in 1..n \/ k = n + 1
  OBVIOUS
<1>6. table[p] = None /\ \A k \in 1..n : At(k).prefix # p
  BY <1>1, <1>2, <1>4 DEF Untouched
<1>7. ASSUME NEW q \in dump'.todo PROVE Untouched(q)'
  <2>1. q # p /\ table[q] = None /\ \A k \in 1..n : At(k).prefix # q
    BY <1>1, <1>2, <1>4 DEF Untouched
  <2>2. \A k \in 1..(n + 1) : At(k)'.prefix # q
    BY <1>2, <1>3, <1>5, <2>1
  <2> QED
    BY <1>2, <1>4, <2>1, <2>2 DEF Untouched
<1>8. ASSUME NEW k \in 1..(n + 1)
      PROVE  /\ At(k)'.kind = "replace" /\ table'[At(k)'.prefix] = None
             /\ \A j \in 1..(n + 1) : j # k => At(j)'.prefix # At(k)'.prefix
  BY <1>1, <1>2, <1>3, <1>4, <1>5, <1>6
<1> QED
  BY <1>2, <1>7, <1>8 DEF DumpInv

\* A change of a route is seen by a dump.
LEMMA ChangeSeen ==
  ASSUME FibTypeOK, NEW p \in Prefixes, NEW S \in SUBSET InfosOf(p), KernelSet(p, S),
         p \in Prefixes4 => \A i, j \in S : i = j, phase' = phase
  PROVE  ~Dumping' /\ (Told' => phase = "live")
<1>1. dump'.changed <=> phase \in {"dump", "check"}
  BY KernelSetIs
<1> QED
  BY <1>1 DEF Dumping, Told

\* Every step that is not one of the dump keeps what is said of it.
LEMMA DumpStep ==
  ASSUME FibBase, DumpInv, [FibNext]_fibVars
  PROVE  DumpInv'
<1>0. FibTypeOK /\ dump.todo \subseteq Prefixes
  BY DEF FibBase, FibTypeOK, DumpType
<1>q. ~Dumping' => DumpInv'
  BY DEF Dumping, DumpInv
<1>s. ASSUME ev'.batch = ev.batch, queue' = queue PROVE Total' = Total /\ \A k \in 1..Total : At(k)' = At(k)
  BY <1>s, SameEvents
<1>1. CASE UNCHANGED fibVars
  <2>1. /\ Total' = Total /\ \A k \in 1..Total : At(k)' = At(k)
        /\ dump' = dump /\ phase' = phase /\ table' = table
    BY <1>1, <1>s DEF fibVars
  <2> QED
    BY <1>0, <2>1, DumpKept DEF Dumping
<1>2. ASSUME NEW p \in Prefixes, RouteReplace(p) \/ RouteAppend(p) \/ RouteVeto(p) PROVE DumpInv'
  <2>1. CASE RouteReplace(p)
    <3>1. PICK S \in SUBSET InfosOf(p) :
             /\ (p \in Prefixes4 => \A i, j \in S : i = j)
             /\ RouteChange(p, Event("replace", p, S), S)
      BY <1>0, <2>1, ReplaceIs
    <3> QED
      BY <1>0, <1>q, <3>1, ChangeSeen DEF RouteChange
  <2>2. CASE RouteAppend(p)
    <3>1. PICK S \in SUBSET InfosOf(p) :
             /\ p \in Prefixes6 /\ kernel[p] \cup S \in SUBSET InfosOf(p)
             /\ RouteChange(p, Event("append", p, S), kernel[p] \cup S)
      BY <1>0, <2>2, AppendIs
    <3>2. p \notin Prefixes4
      BY <3>1, NsimFibAssumption DEF NsimFibAssumption
    <3> QED
      BY <1>0, <1>q, <3>1, <3>2, ChangeSeen DEF RouteChange
  <2>3. CASE RouteVeto(p)
    <3>1. PICK R \in SUBSET InfosOf(p) : KernelSet(p, R)
      BY <1>0, <2>3 DEF RouteVeto, FibTypeOK
    <3>2. p \notin Prefixes4 /\ phase' = phase
      BY <2>3, NsimFibAssumption DEF NsimFibAssumption, RouteVeto
    <3> QED
      BY <1>0, <1>q, <3>1, <3>2, ChangeSeen
  <2> QED
    BY <1>2, <2>1, <2>2, <2>3
<1>3. ASSUME NEW p \in Prefixes, NEW S \in SUBSET kernel[p], RouteDel(p, S) \/ RouteDelFails(p, S) PROVE DumpInv'
  <2>1. Deletable(p, S) /\ KernelSet(p, kernel[p] \ S) /\ phase' = phase
    BY <1>3 DEF RouteDel, RouteDelFails
  <2>2. kernel[p] \ S \in SUBSET InfosOf(p) /\ (p \in Prefixes4 => \A i, j \in kernel[p] \ S : i = j)
    BY <1>0, <2>1, DeletableIs
  <2> QED
    BY <1>0, <1>q, <2>1, <2>2, ChangeSeen
<1>4. ASSUME NEW p \in Prefixes, DumpEntry(p) PROVE DumpInv'
  <2>1. CASE Dumped(p) /\ kernel[p] = {} /\ num' = num /\ queue' = queue /\ ev' = ev
    <3>1. /\ Total' = Total /\ \A k \in 1..Total : At(k)' = At(k)
          /\ dump'.todo \subseteq dump.todo /\ (Dumping' => Dumping) /\ table' = table
      BY <1>s, <2>1 DEF Dumped, Dumping
    <3> QED
      BY <1>0, <3>1, DumpKept
  <2>2. CASE /\ Dumped(p) /\ kernel[p] # {} /\ num' = Account(p)
             /\ Event("replace", p, kernel[p]) \in Events
             /\ ScheduleEvent(Event("replace", p, kernel[p]))
    <3>1. Event("replace", p, kernel[p]).kind = "replace" /\ Event("replace", p, kernel[p]).prefix = p
      BY DEF Event
    <3> QED
      BY <2>2, <3>1, DumpScheduled
  <2>3. CASE phase' = "cancel"
    BY <1>q, <2>3 DEF Dumping
  <2> QED
    BY <1>4, <2>1, <2>2, <2>3, DumpEntryIs
<1>5. CASE \/ WorkAdd \/ WorkReplace \/ WorkInsertFails \/ WorkAppend \/ WorkAppendFails \/ WorkDel4 \/ WorkDel6
  <2>1. Takes /\ \A q \in Prefixes : q # At(1).prefix => table'[q] = table[q]
    <3>1. CASE WorkAdd
      BY <3>1, AddIs
    <3>2. CASE WorkReplace
      BY <3>2, ReplacedIs
    <3>3. CASE WorkInsertFails
      BY <3>3, InsertFailsIs
    <3>4. CASE WorkAppend
      BY <3>4, AppendedIs
    <3>5. CASE WorkAppendFails
      BY <3>5, AppendFailsIs
    <3>6. CASE WorkDel4
      BY <3>6, Del4Is
    <3>7. CASE WorkDel6
      BY <3>7, Del6Is
    <3> QED
      BY <1>5, <3>1, <3>2, <3>3, <3>4, <3>5, <3>6, <3>7
  <2> QED
    BY <2>1, DumpTakes
<1>6. CASE WorkSplice \/ WorkLock \/ WorkEnd \/ FlushBegin
  <2>1. /\ Total' = Total /\ \A k \in 1..Total : At(k)' = At(k)
        /\ dump' = dump /\ phase' = phase /\ table' = table
    <3>1. CASE WorkSplice
      BY <3>1, SpliceIs
    <3>2. CASE WorkLock
      BY <1>s, <3>2, LockIs
    <3>3. CASE WorkEnd
      BY <1>s, <3>3, EndIs
    <3>4. CASE FlushBegin
      BY <1>s, <3>4, FlushBeginIs
    <3> QED
      BY <1>6, <3>1, <3>2, <3>3, <3>4
  <2> QED
    BY <1>0, <2>1, DumpKept DEF Dumping
<1>7. CASE FlushTable
  <2>1. /\ dump' = dump /\ phase' = phase /\ FreeTable /\ ev' = ev /\ queue' = queue
    BY <1>7, FlushTableIs
  <2>2. \A p \in Prefixes : table'[p] = None
    BY <1>0, <2>1, FreeTableIs
  <2>3. Total' = Total /\ \A k \in 1..Total : At(k)' = At(k)
    BY <1>s, <2>1
  <2> QED
    BY <1>0, <2>1, <2>2, <2>3, DumpKept DEF Dumping
<1>8. CASE DumpRegister \/ DumpCheck \/ DestroyUnregister \/ DestroyCancel
  <2>1. /\ ev' = ev /\ queue' = queue /\ table' = table /\ dump.todo = {} /\ dump'.todo = {} /\ phase' # "dump"
        /\ phase' = "check" => phase = "dump" /\ dump' = dump
    BY <1>8, PhasesAre
  <2>2. Total' = Total /\ \A k \in 1..Total : At(k)' = At(k)
    BY <1>s, <2>1
  <2>3. Dumping' => Dumping
    BY <2>1 DEF Dumping
  <2> QED
    BY <1>0, <2>1, <2>2, <2>3, DumpKept
<1>9. CASE CreateBegin \/ DumpInconsistent \/ DestroyFree
  <2>1. Total' = 0 /\ \A p \in Prefixes : table'[p] = None
    <3>1. CASE CreateBegin
      BY <3>1, CreateIs
    <3>2. CASE DumpInconsistent \/ DestroyFree
      BY <1>0, <3>2, EmptiedIs, FreeTableIs
    <3> QED
      BY <1>9, <3>1, <3>2
  <2>2. FibTypeOK'
    BY BaseStep DEF FibBase
  <2>3. dump'.todo \subseteq Prefixes
    BY <2>2 DEF FibTypeOK, DumpType
  <2>4. \A p \in dump'.todo : Untouched(p)'
    BY <2>1, <2>3 DEF Untouched
  <2> QED
    BY <2>1, <2>4 DEF DumpInv
<1> QED
  BY <1>1, <1>2, <1>3, <1>4, <1>5, <1>6, <1>7, <1>8, <1>9 DEF FibNext

-----------------------------------------------------------------------------
(* The history of a route. *)

\* The same events, entry and flags.
LEMMA TrailKept ==
  ASSUME NEW p, NEW K, NEW c, Trail(p, K, c),
         Total' = Total, \A k \in 1..Total : At(k)' = At(k),
         table'[p] = table[p], hwflag'[p] = hwflag[p], failed \subseteq failed', Covered(c) => Covered(c)'
  PROVE  Trail(p, K, c)'
<1>1. Path(p, K, c) /\ Marks(p, K) /\ ((c = 0 /\ Exact(p, K)) \/ Covered(c))
  BY DEF Trail
<1>2. Path(p, K, c)'
  BY <1>1 DEF Path
<1>3. Marks(p, K)'
  BY <1>1 DEF Marks, There, InTable
<1>4. Exact(p, K) => Exact(p, K)'
  BY DEF Exact, There, InTable
<1> QED
  BY <1>1, <1>2, <1>3, <1>4 DEF Trail

\* One more event.
LEMMA TrailExtended ==
  ASSUME FibTypeOK, NEW p \in Prefixes, NEW K, NEW c, Trail(p, K, c), NEW e \in Events, ScheduleEvent(e),
         NEW R \in SUBSET InfosOf(p), Fits(p, e, K[Total]), R = Step(p, e, K[Total]),
         table'[p] = table[p], \A i \in K[Total] \cap R : hwflag'[p][i] = hwflag[p][i],
         failed \subseteq failed', flush' = flush
  PROVE  \E L : Trail(p, L, c)' /\ L[Total'] = R
<1>1. Path(p, K, c) /\ Marks(p, K) /\ ((c = 0 /\ Exact(p, K)) \/ Covered(c))
  BY DEF Trail
<1>2. PICK n \in Nat : /\ Total = n /\ Total' = n + 1 /\ At(Total)' = e /\ \A k \in 1..n : At(k)' = At(k)
                       /\ ev'.batch = ev.batch
  BY ScheduledIs
<1>3. /\ K \in [0..n -> SUBSET InfosOf(p)] /\ c \in 0..n
      /\ \A k \in 1..n : /\ Fits(p, At(k), K[k - 1])
                         /\ K[k] \subseteq Step(p, At(k), K[k - 1])
                         /\ k > c => K[k] = Step(p, At(k), K[k - 1])
  BY <1>1, <1>2 DEF Path
<1> DEFINE L == [k \in 0..(n + 1) |-> IF k <= n THEN K[k] ELSE R]
<1>4. /\ \A k \in 0..n : L[k] = K[k] /\ L[k] \in SUBSET InfosOf(p)
      /\ L[n + 1] = R
  BY <1>3
<1>5. L \in [0..(n + 1) -> SUBSET InfosOf(p)]
  BY <1>3
<1> HIDE DEF L
<1>6. ASSUME NEW k \in 1..(n + 1)
      PROVE  /\ Fits(p, At(k)', L[k - 1])
             /\ L[k] \subseteq Step(p, At(k)', L[k - 1])
             /\ k > c => L[k] = Step(p, At(k)', L[k - 1])
  <2>1. CASE k \in 1..n
    <3>1. k - 1 \in 0..n /\ k \in 0..n
      BY <2>1
    <3>2. L[k - 1] = K[k - 1] /\ L[k] = K[k] /\ At(k)' = At(k)
      BY <1>2, <1>4, <2>1, <3>1
    <3> QED
      BY <1>3, <2>1, <3>2
  <2>2. CASE k = n + 1
    <3>1. k - 1 = n /\ n \in 0..n
      BY <2>2
    <3>2. L[k - 1] = K[n] /\ L[k] = R /\ At(k)' = e
      BY <1>2, <1>4, <2>2, <3>1
    <3> QED
      BY <1>2, <3>2
  <2> QED
    BY <2>1, <2>2
<1>7. Path(p, L, c)'
  <2>1. c \in 0..(n + 1)
    BY <1>3
  <2> QED
    BY <1>2, <1>5, <1>6, <2>1 DEF Path
<1>8. ASSUME NEW i, There(L, i)' PROVE There(K, i) /\ i \in K[Total] \cap R
  <2>1. \A k \in 0..(n + 1) : i \in L[k]
    BY <1>2, <1>8 DEF There
  <2>2. \A k \in 0..n : i \in K[k]
    BY <1>4, <2>1
  <2>3. i \in R /\ i \in K[n]
    BY <1>4, <2>1, <2>2
  <2> QED
    BY <1>2, <2>2, <2>3 DEF There
<1>9. L[0] = K[0]
  BY <1>4
<1>10. Marks(p, L)'
  BY <1>1, <1>8, <1>9 DEF Marks, InTable
<1>11. Exact(p, K) => Exact(p, L)'
  BY <1>8, <1>9 DEF Exact, InTable
<1>12. Covered(c) => Covered(c)'
  BY <1>2 DEF Covered
<1> QED
  BY <1>1, <1>2, <1>4, <1>7, <1>10, <1>11, <1>12 DEF Trail

\* The route of a prefix that nothing has been said of.
LEMMA TrailEmpty ==
  ASSUME FibTypeOK, NEW p \in Prefixes, Untouched(p)
  PROVE  \E K : Trail(p, K, 0) /\ K[Total] = {}
<1> DEFINE K == [k \in 0..Total |-> {}]
<1>1. Total \in Nat /\ \A k \in 1..Total : At(k).prefix # p
  BY AtIs DEF Untouched
<1>2. PICK n \in Nat : Total = n
  BY <1>1
<1>3. \A k \in 0..n : K[k] = {}
  BY <1>2
<1>4. K \in [0..n -> SUBSET InfosOf(p)] /\ 0 \in 0..n
  BY <1>2
<1> HIDE DEF K
<1>5. ASSUME NEW k \in 1..n
      PROVE  Fits(p, At(k), K[k - 1]) /\ K[k] = Step(p, At(k), K[k - 1])
  <2>1. k \in 0..n /\ k - 1 \in 0..n /\ At(k).prefix # p
    BY <1>1, <1>2
  <2> QED
    BY <1>3, <2>1 DEF Fits, Step
<1>6. Path(p, K, 0)
  BY <1>2, <1>4, <1>5 DEF Path
<1>7. \A i : ~There(K, i)
  BY <1>2, <1>3, <1>4 DEF There
<1>8. Marks(p, K) /\ Exact(p, K)
  BY <1>7 DEF Marks, Exact, Untouched
<1>9. n \in 0..n
  OBVIOUS
<1> QED
  BY <1>2, <1>3, <1>6, <1>8, <1>9 DEF Trail

\* A deletion that is not announced: a flush comes.
LEMMA TrailCut ==
  ASSUME FibTypeOK, NEW p \in Prefixes, NEW K, NEW c, Trail(p, K, c), NEW R \in SUBSET K[Total],
         Total' = Total, \A k \in 1..Total : At(k)' = At(k),
         table'[p] = table[p], \A i \in K[Total] \cap R : hwflag'[p][i] = hwflag[p][i],
         "delete" \in failed', flush'.pending
  PROVE  \E L : Trail(p, L, Total)' /\ L[Total'] = R
<1>1. Path(p, K, c) /\ Marks(p, K)
  BY DEF Trail
<1>2. PICK n \in Nat : Total = n
  BY AtIs
<1>3. /\ K \in [0..n -> SUBSET InfosOf(p)]
      /\ \A k \in 1..n : /\ Fits(p, At(k), K[k - 1])
                         /\ K[k] \subseteq Step(p, At(k), K[k - 1])
  BY <1>1, <1>2 DEF Path
<1> DEFINE L == [K EXCEPT ![n] = R]
<1>4. n \in 0..n /\ L[n] = R /\ \A k \in 0..n : k # n => L[k] = K[k]
  BY <1>3
<1>5. L \in [0..n -> SUBSET InfosOf(p)]
  BY <1>2, <1>3
<1> HIDE DEF L
<1>6. \A k \in 0..n : L[k] \subseteq K[k]
  BY <1>2, <1>4
<1>7. ASSUME NEW k \in 1..n
      PROVE  Fits(p, At(k)', L[k - 1]) /\ L[k] \subseteq Step(p, At(k)', L[k - 1])
  <2>1. k \in 0..n /\ k - 1 \in 0..n /\ k - 1 # n
    OBVIOUS
  <2>2. L[k - 1] = K[k - 1] /\ L[k] \subseteq K[k] /\ At(k)' = At(k)
    BY <1>2, <1>4, <1>6, <2>1
  <2> QED
    BY <1>3, <2>2
<1>8. Path(p, L, n)'
  <2>1. \A k \in 1..n : ~(k > n)
    OBVIOUS
  <2> QED
    BY <1>2, <1>4, <1>5, <1>7, <2>1 DEF Path
<1>9. ASSUME NEW i, There(L, i)' PROVE There(K, i) /\ i \in K[Total] \cap R
  <2>1. \A k \in 0..n : i \in L[k]
    BY <1>2, <1>9 DEF There
  <2> QED
    BY <1>2, <1>4, <1>6, <2>1 DEF There
<1>10. L[0] \subseteq K[0]
  BY <1>6
<1>11. Marks(p, L)'
  BY <1>1, <1>9, <1>10 DEF Marks, InTable
<1>12. Covered(n)'
  BY DEF Covered
<1> QED
  BY <1>2, <1>4, <1>8, <1>11, <1>12 DEF Trail

\* The table is emptied by the flush.
LEMMA TrailFlushed ==
  ASSUME FibBase, FlushTable, NEW p \in Prefixes, NEW K, NEW c, Trail(p, K, c)
  PROVE  Trail(p, K, c)'
<1>0. FibTypeOK
  BY DEF FibBase
<1>1. Path(p, K, c) /\ Marks(p, K) /\ ((c = 0 /\ Exact(p, K)) \/ Covered(c))
  BY DEF Trail
<1>2. /\ ev' = ev /\ queue' = queue /\ FreeTable /\ "delete" \in failed' /\ failed' = failed
      /\ flush.pc = "ready" /\ (flush'.pending <=> flush.pending) /\ flush'.pc = "idle"
  BY FlushTableIs
<1>3. table'[p] = None /\ \A i \in InfosOf(p) : hwflag'[p][i] = IF InTable(p, i) THEN "none" ELSE hwflag[p][i]
  BY <1>0, <1>2, FreeTableIs
<1>4. Total' = Total /\ \A k \in 1..Total : At(k)' = At(k)
  BY <1>2, SameEvents
<1>5. Path(p, K, c)'
  BY <1>1, <1>4 DEF Path
<1>6. Exact(p, K)'
  BY <1>3 DEF Exact, InTable
<1>7. Marks(p, K)'
  <2>1. ASSUME NEW i \in InfosOf(p), There(K, i)' PROVE hwflag'[p][i] # "trap"
    <3>1. There(K, i)
      BY <1>4, <2>1 DEF There
    <3> QED
      BY <1>1, <1>3, <3>1 DEF Marks
  <2> QED
    BY <1>2, <1>3, <2>1 DEF Marks
<1>8. c = 0 \/ Covered(c)'
  BY <1>1, <1>2 DEF Covered
<1> QED
  BY <1>5, <1>6, <1>7, <1>8 DEF Trail

\* A nexthop that the rest of the history keeps.
Stays(p, K, i) == i \in K[1] /\ i \in kernel[p] /\ (i \in K[0] => There(K, i))

\* Where the history begins.
LEMMA TrailBegins ==
  ASSUME FibBase, NEW p \in Prefixes, NEW K, NEW c, Trail(p, K, c), Takes
  PROVE  /\ Fits(p, At(1), K[0]) /\ K[1] \subseteq Step(p, At(1), K[0])
         /\ c = 0 => K[1] = Step(p, At(1), K[0])
         /\ K[0] \subseteq InfosOf(p) /\ K[1] \subseteq InfosOf(p)
<1>0. FibTypeOK
  BY DEF FibBase
<1>1. PICK n \in Nat : n = Total /\ n >= 1
  BY <1>0, TookIs DEF Takes
<1>2. /\ K \in [0..n -> SUBSET InfosOf(p)] /\ c \in 0..n
      /\ \A k \in 1..n : /\ Fits(p, At(k), K[k - 1])
                         /\ K[k] \subseteq Step(p, At(k), K[k - 1])
                         /\ k > c => K[k] = Step(p, At(k), K[k - 1])
  BY <1>1 DEF Trail, Path
<1>3. 1 \in 1..n /\ 1 - 1 = 0 /\ 0 \in 0..n /\ 1 \in 0..n /\ (c = 0 => 1 > c)
  BY <1>1
<1> QED
  BY <1>2, <1>3

\* The first event of the history is carried out.
LEMMA TrailTaken ==
  ASSUME FibBase, NEW p \in Prefixes, NEW K, NEW c, Trail(p, K, c), K[Total] = kernel[p], Takes, failed \subseteq failed',
         table'[p] # None => K[1] \subseteq table'[p],
         \A i \in InfosOf(p) : Stays(p, K, i) =>
            /\ hwflag'[p][i] = "trap" => InTable(p, i)'
            /\ "delete" \notin failed' => hwflag'[p][i] # "none",
         c = 0 /\ Exact(p, K) =>
            /\ table'[p] # None => table'[p] = K[1] /\ table'[p] # {}
            /\ \A i \in InfosOf(p) : Stays(p, K, i) /\ InTable(p, i)' => hwflag'[p][i] = "trap"
  PROVE  Tracked(p)'
<1>0. FibTypeOK
  BY DEF FibBase
<1>1. Path(p, K, c) /\ Marks(p, K) /\ ((c = 0 /\ Exact(p, K)) \/ Covered(c))
  BY DEF Trail
<1>2. PICK n \in Nat, m \in Nat :
        /\ Total = n /\ n >= 1 /\ Total' = n - 1 /\ \A k \in 1..(n - 1) : At(k)' = At(k + 1)
        /\ Len(ev.batch) = m /\ Len(ev'.batch) = m - 1 /\ m >= 1
  <2>1. /\ Total \in Nat /\ Total >= 1 /\ Total' = Total - 1 /\ \A k \in 1..(Total - 1) : At(k)' = At(k + 1)
        /\ Len(ev.batch) \in Nat /\ Len(ev'.batch) = Len(ev.batch) - 1
    BY <1>0, TookIs DEF Takes
  <2>2. ev.batch \in Seq(Events) /\ ev.batch # <<>>
    BY <1>0, EvIs DEF FibTypeOK, Takes
  <2>3. Len(ev.batch) >= 1
    BY <2>2
  <2> QED
    BY <2>1, <2>3
<1>3. /\ K \in [0..n -> SUBSET InfosOf(p)] /\ c \in 0..n
      /\ \A k \in 1..n : /\ Fits(p, At(k), K[k - 1])
                         /\ K[k] \subseteq Step(p, At(k), K[k - 1])
                         /\ k > c => K[k] = Step(p, At(k), K[k - 1])
  BY <1>1, <1>2 DEF Path
<1> DEFINE L == [k \in 0..(n - 1) |-> K[k + 1]]
           d == IF c = 0 THEN 0 ELSE c - 1
<1>4. \A k \in 0..(n - 1) : L[k] = K[k + 1] /\ k + 1 \in 0..n
  BY <1>2
<1>5. L \in [0..(n - 1) -> SUBSET InfosOf(p)] /\ d \in 0..(n - 1)
  BY <1>2, <1>3
<1>6. \A k \in 1..(n - 1) : k > d => k + 1 > c
  BY <1>2, <1>3
<1>7. (c = 0 => d = 0) /\ (c <= m => d <= m - 1)
  BY <1>2, <1>3
<1> HIDE DEF L, d
<1>8. ASSUME NEW k \in 1..(n - 1)
      PROVE  /\ Fits(p, At(k)', L[k - 1])
             /\ L[k] \subseteq Step(p, At(k)', L[k - 1])
             /\ k > d => L[k] = Step(p, At(k)', L[k - 1])
  <2>1. k - 1 \in 0..(n - 1) /\ k \in 0..(n - 1) /\ (k - 1) + 1 = k /\ k + 1 \in 1..n /\ (k + 1) - 1 = k
    BY <1>2
  <2>2. L[k - 1] = K[k] /\ L[k] = K[k + 1] /\ At(k)' = At(k + 1)
    BY <1>2, <1>4, <2>1
  <2>3. /\ Fits(p, At(k + 1), K[k]) /\ K[k + 1] \subseteq Step(p, At(k + 1), K[k])
        /\ k + 1 > c => K[k + 1] = Step(p, At(k + 1), K[k])
    BY <1>3, <2>1
  <2> QED
    BY <1>6, <2>2, <2>3
<1>9. Path(p, L, d)'
  BY <1>2, <1>5, <1>8 DEF Path
<1>10. 0 \in 0..(n - 1) /\ n - 1 \in 0..(n - 1) /\ (n - 1) + 1 = n /\ 0 + 1 = 1
  BY <1>2
<1>11. L[0] = K[1] /\ L[n - 1] = kernel[p]
  BY <1>2, <1>4, <1>10
<1>12. ASSUME NEW i, There(L, i)' PROVE Stays(p, K, i)
  <2>1. \A k \in 0..(n - 1) : i \in L[k]
    BY <1>2, <1>12 DEF There
  <2>2. ASSUME i \in K[0], NEW k \in 0..n PROVE i \in K[k]
    <3>1. CASE k = 0
      BY <2>2, <3>1
    <3>2. CASE k # 0
      <4>1. k - 1 \in 0..(n - 1) /\ (k - 1) + 1 = k
        BY <3>2
      <4> QED
        BY <1>4, <2>1, <4>1
    <3> QED
      BY <3>1, <3>2
  <2> QED
    BY <1>2, <1>10, <1>11, <2>1, <2>2 DEF Stays, There
<1>13. Marks(p, L)'
  BY <1>11, <1>12 DEF Marks
<1>14. c = 0 /\ Exact(p, K) => Exact(p, L)'
  BY <1>11, <1>12 DEF Exact
<1>15. Covered(c) => Covered(d)'
  <2>1. flush' = flush
    BY DEF Takes
  <2> QED
    BY <1>2, <1>7, <2>1 DEF Covered
<1>16. Trail(p, L, d)'
  BY <1>1, <1>7, <1>9, <1>13, <1>14, <1>15 DEF Trail
<1>17. L[Total'] = kernel'[p]
  BY <1>2, <1>11 DEF Takes
<1> QED
  BY <1>16, <1>17 DEF Tracked

\* Nothing that is announced before a flush needs it: it follows a deletion that failed.
LEMMA CoveredIs ==
  ASSUME FibBase, NEW c, Covered(c)
  PROVE  "delete" \in failed
BY DEF FibBase, WorkInv, Covered

\* An event of another prefix.
LEMMA TakenOther ==
  ASSUME FibBase, NEW p \in Prefixes, NEW K, NEW c, Trail(p, K, c), K[Total] = kernel[p], Takes, failed \subseteq failed',
         At(1).prefix # p, table'[p] = table[p], hwflag'[p] = hwflag[p]
  PROVE  Tracked(p)'
<1>1. K[1] \subseteq K[0] /\ (c = 0 => K[1] = K[0])
  BY TrailBegins DEF Step
<1>2. Marks(p, K)
  BY DEF Trail
<1>3. table'[p] # None => K[1] \subseteq table'[p]
  BY <1>1, <1>2 DEF Marks
<1>4. \A i : Stays(p, K, i) => There(K, i)
  BY <1>1 DEF Stays
<1>5. ASSUME NEW i \in InfosOf(p), Stays(p, K, i)
      PROVE /\ hwflag'[p][i] = "trap" => InTable(p, i)'
            /\ "delete" \notin failed' => hwflag'[p][i] # "none"
  BY <1>2, <1>4, <1>5 DEF Marks, InTable
<1>6. ASSUME c = 0, Exact(p, K)
      PROVE /\ table'[p] # None => table'[p] = K[1] /\ table'[p] # {}
            /\ \A i \in InfosOf(p) : Stays(p, K, i) /\ InTable(p, i)' => hwflag'[p][i] = "trap"
  BY <1>1, <1>4, <1>6 DEF Exact, InTable
<1> QED
  BY <1>3, <1>5, <1>6, TrailTaken

\* nsim_fib4_rt_add, nsim_fib6_rt_add.
LEMMA TakenAdd ==
  ASSUME FibBase, NEW p \in Prefixes, NEW K, NEW c, Trail(p, K, c), K[Total] = kernel[p], WorkAdd, At(1).prefix = p
  PROVE  Tracked(p)'
<1> DEFINE e == At(1)
<1>1. /\ Takes /\ e.kind = "replace" /\ table'[p] = e.infos /\ failed' = failed
      /\ \A i \in InfosOf(p) : hwflag'[p][i] = IF i \in e.infos \cap kernel[p] THEN "trap" ELSE hwflag[p][i]
  BY AddIs
<1>2. e.infos # {} /\ e.infos # None
  BY TakingIs DEF WorkAdd
<1>3. K[1] \subseteq e.infos /\ (c = 0 => K[1] = e.infos)
  BY <1>1, TrailBegins DEF Step
<1> HIDE DEF e
<1>5. ASSUME NEW i \in InfosOf(p), Stays(p, K, i)
      PROVE  hwflag'[p][i] = "trap" /\ InTable(p, i)'
  BY <1>1, <1>2, <1>3, <1>5 DEF Stays, InTable
<1>6. ASSUME c = 0, Exact(p, K)
      PROVE  table'[p] = K[1] /\ table'[p] # {}
  BY <1>1, <1>2, <1>3, <1>6
<1>7. \A i \in InfosOf(p) : Stays(p, K, i) =>
            /\ hwflag'[p][i] = "trap" => InTable(p, i)'
            /\ "delete" \notin failed' => hwflag'[p][i] # "none"
  BY <1>5
<1>8. K[1] \subseteq table'[p]
  BY <1>1, <1>3
<1> QED
  BY <1>1, <1>5, <1>6, <1>7, <1>8, TrailTaken

\* nsim_fib4_rt_replace, nsim_fib6_rt_replace.
LEMMA TakenReplace ==
  ASSUME FibBase, NEW p \in Prefixes, NEW K, NEW c, Trail(p, K, c), K[Total] = kernel[p], WorkReplace, At(1).prefix = p
  PROVE  Tracked(p)'
<1> DEFINE e == At(1)
<1>1. /\ Takes /\ e.kind = "replace" /\ table[p] # None /\ table'[p] = e.infos /\ failed' = failed
      /\ \A i \in InfosOf(p) : hwflag'[p][i] = IF i \in table[p] \cap kernel[p] THEN "none"
                       ELSE IF i \in e.infos \cap kernel[p] THEN "trap" ELSE hwflag[p][i]
  BY ReplacedIs
<1>2. e.infos # {} /\ e.infos # None
  BY TakingIs DEF WorkReplace
<1>3. K[1] \subseteq e.infos /\ (c = 0 => K[1] = e.infos) /\ e.infos \cap K[0] = {}
  BY <1>1, TrailBegins DEF Step, Fits
<1> HIDE DEF e
<1>4. ASSUME NEW i \in InfosOf(p), Stays(p, K, i)
      PROVE  /\ InTable(p, i)' /\ (i \notin table[p] => hwflag'[p][i] = "trap")
  BY <1>1, <1>2, <1>3, <1>4 DEF Stays, InTable
<1>5. ASSUME c = 0, Exact(p, K), NEW i \in InfosOf(p), Stays(p, K, i) PROVE hwflag'[p][i] = "trap"
  <2>1. i \notin table[p]
    BY <1>1, <1>3, <1>5 DEF Exact, Stays
  <2> QED
    BY <1>4, <1>5, <2>1
<1>6. ASSUME c = 0, Exact(p, K)
      PROVE  table'[p] = K[1] /\ table'[p] # {}
  BY <1>1, <1>2, <1>3, <1>6
<1>7. ASSUME NEW i \in InfosOf(p), Stays(p, K, i), "delete" \notin failed' PROVE hwflag'[p][i] # "none"
  <2>1. c = 0 /\ Exact(p, K)
    BY <1>1, <1>7, CoveredIs DEF Trail
  <2> QED
    BY <1>5, <1>7, <2>1
<1>8. K[1] \subseteq table'[p]
  BY <1>1, <1>3
<1> QED
  BY <1>1, <1>4, <1>5, <1>6, <1>7, <1>8, TrailTaken

\* An insertion fails: that of a route that is not offloaded yet.
LEMMA TakenInsertFails ==
  ASSUME FibBase, DumpInv, Told, Clean', NEW p \in Prefixes, NEW K, NEW c, Trail(p, K, c), K[Total] = kernel[p],
         WorkInsertFails, At(1).prefix = p
  PROVE  Tracked(p)'
<1> DEFINE e == At(1)
<1>1. /\ Takes /\ e.kind = "replace" /\ table' = table
      /\ \A i \in InfosOf(p) : hwflag'[p][i] = IF i \in e.infos \cap kernel[p] THEN "failed" ELSE hwflag[p][i]
      /\ \E f \in InsertFailures(table[p] = None) : failed' = failed \cup {f}
  BY InsertFailsIs
<1>2. table[p] = None
  <2>1. PICK f \in InsertFailures(table[p] = None) : failed' = failed \cup {f}
    BY <1>1
  <2>2. f # "replacement" /\ f # "insertion"
    BY <2>1 DEF Clean
  <2>3. f = "dump" \/ f = "new route"
    BY <2>1, <2>2 DEF InsertFailures
  <2>4. CASE f = "new route"
    BY <2>1, <2>4 DEF InsertFailures
  <2>5. CASE phase \in {"dump", "check"}
    <3>1. 1 \in 1..Total
      BY TakingIs DEF WorkInsertFails
    <3>2. table[At(1).prefix] = None
      BY <2>5, <3>1 DEF DumpInv, Told
    <3> QED
      BY <3>2
  <2>6. CASE f = "dump" /\ phase \notin {"dump", "check"}
    <3>1. phase = "live"
      BY <2>6 DEF Told
    <3> QED
      BY <2>1, <2>6, <3>1 DEF InsertFailures
  <2> QED
    BY <2>3, <2>4, <2>5, <2>6
<1>3. K[1] \subseteq e.infos
  BY <1>1, TrailBegins DEF Step
<1> HIDE DEF e
<1>4. ASSUME NEW i \in InfosOf(p), Stays(p, K, i) PROVE hwflag'[p][i] = "failed"
  BY <1>1, <1>3, <1>4 DEF Stays
<1>5. table'[p] = None /\ \A i : ~InTable(p, i)' /\ failed \subseteq failed'
  BY <1>1, <1>2 DEF InTable
<1>6. \A i \in InfosOf(p) : Stays(p, K, i) =>
            /\ hwflag'[p][i] = "trap" => InTable(p, i)'
            /\ "delete" \notin failed' => hwflag'[p][i] # "none"
  BY <1>4
<1> QED
  BY <1>1, <1>5, <1>6, TrailTaken

\* nsim_fib6_rt_append.
LEMMA TakenAppend ==
  ASSUME FibBase, NEW p \in Prefixes, NEW K, NEW c, Trail(p, K, c), K[Total] = kernel[p], WorkAppend, At(1).prefix = p
  PROVE  Tracked(p)'
<1> DEFINE e == At(1)
<1>1. /\ Takes /\ e.kind = "append" /\ table[p] # None /\ table'[p] = table[p] \cup e.infos /\ failed' = failed
      /\ \A i \in InfosOf(p) : hwflag'[p][i] = IF i \in e.infos \cap kernel[p] THEN "trap" ELSE hwflag[p][i]
      /\ FibBase'
  BY AppendedIs
<1>2. e.infos # {} /\ Marks(p, K)
  BY TakingIs DEF WorkAppend, Trail
<1>3. K[1] \subseteq K[0] \cup e.infos /\ (c = 0 => K[1] = K[0] \cup e.infos)
  <2>1. Step(p, e, K[0]) = K[0] \cup e.infos
    BY <1>1 DEF Step
  <2>2. K[1] \subseteq Step(p, e, K[0]) /\ (c = 0 => K[1] = Step(p, e, K[0]))
    BY <1>1, TrailBegins
  <2> QED
    BY <2>1, <2>2
<1>n. table'[p] # None
  <2>1. table[p] \subseteq InfosOf(p) /\ e.infos \subseteq InfosOf(p)
    BY <1>1, TakingIs DEF FibBase, FibTypeOK, WorkAppend
  <2>2. table[p] \cup e.infos \in SUBSET Infos
    BY <2>1, InfosType
  <2> QED
    BY <1>1, <2>2, NotNone
<1> HIDE DEF e
<1>4. K[1] \subseteq table'[p]
  BY <1>1, <1>2, <1>3 DEF Marks
<1>5. ASSUME NEW i \in InfosOf(p), Stays(p, K, i)
      PROVE  InTable(p, i)' /\ (i \in e.infos => hwflag'[p][i] = "trap")
             /\ (i \notin e.infos => There(K, i) /\ hwflag'[p][i] = hwflag[p][i])
  BY <1>1, <1>3, <1>4, <1>5, <1>n DEF Stays, InTable
<1>6. ASSUME c = 0, Exact(p, K)
      PROVE  table'[p] = K[1] /\ table'[p] # {}
  BY <1>1, <1>2, <1>3, <1>6 DEF Exact
<1>7. ASSUME c = 0, Exact(p, K), NEW i \in InfosOf(p), Stays(p, K, i) PROVE hwflag'[p][i] = "trap"
  <2>1. CASE i \in e.infos
    BY <1>5, <1>7, <2>1
  <2>2. CASE i \notin e.infos
    <3>1. i \in table[p]
      BY <1>1, <1>3, <1>7, <2>2 DEF Exact, Stays
    <3> QED
      BY <1>1, <1>5, <1>7, <2>2, <3>1 DEF Exact, InTable
  <2> QED
    BY <2>1, <2>2
<1>8. ASSUME NEW i \in InfosOf(p), Stays(p, K, i), "delete" \notin failed' PROVE hwflag'[p][i] # "none"
  BY <1>1, <1>2, <1>5, <1>8 DEF Marks
<1> QED
  BY <1>1, <1>4, <1>5, <1>6, <1>7, <1>8, TrailTaken

\* There is no entry to append to.
LEMMA TakenAppendFails ==
  ASSUME FibBase, Clean', NEW p \in Prefixes, NEW K, NEW c, Trail(p, K, c), K[Total] = kernel[p],
         WorkAppendFails, At(1).prefix = p
  PROVE  Tracked(p)'
<1> DEFINE e == At(1)
<1>1. /\ Takes /\ e.kind = "append" /\ table' = table
      /\ \A i \in InfosOf(p) : hwflag'[p][i] = IF i \in e.infos \cap kernel[p] THEN "failed" ELSE hwflag[p][i]
      /\ (table[p] = None /\ failed' = failed) \/ failed' = failed \cup {"append"}
  BY AppendFailsIs
<1>2. table[p] = None /\ failed' = failed /\ Marks(p, K)
  BY <1>1 DEF Clean, Trail
<1>3. K[1] \subseteq K[0] \cup e.infos
  BY <1>1, TrailBegins DEF Step
<1> HIDE DEF e
<1>4. ASSUME NEW i \in InfosOf(p), Stays(p, K, i)
      PROVE  hwflag'[p][i] # "trap" /\ ("delete" \notin failed' => hwflag'[p][i] # "none")
  <2>1. CASE i \in e.infos
    BY <1>1, <1>4, <2>1 DEF Stays
  <2>2. CASE i \notin e.infos
    <3>1. There(K, i) /\ hwflag'[p][i] = hwflag[p][i]
      BY <1>1, <1>3, <1>4, <2>2 DEF Stays
    <3> QED
      BY <1>2, <3>1 DEF Marks, InTable
  <2> QED
    BY <2>1, <2>2
<1>5. table'[p] = None /\ \A i : ~InTable(p, i)'
  BY <1>1, <1>2 DEF InTable
<1> QED
  BY <1>1, <1>2, <1>4, <1>5, TrailTaken

\* nsim_fib4_rt_remove.
LEMMA TakenDel4 ==
  ASSUME FibBase, NEW p \in Prefixes, NEW K, NEW c, Trail(p, K, c), K[Total] = kernel[p], WorkDel4, At(1).prefix = p
  PROVE  Tracked(p)'
<1>1. Takes /\ At(1).kind = "del" /\ p \in Prefixes4 /\ table'[p] = None /\ failed' = failed
  BY Del4Is
<1>2. K[1] = {}
  BY <1>1, TrailBegins DEF Step, Fits
<1>3. \A i : ~Stays(p, K, i)
  BY <1>2 DEF Stays
<1> QED
  BY <1>1, <1>3, TrailTaken

\* nsim_fib6_rt_remove: a deletion of as many nexthops as there are is one of them all.
LEMMA TakenDel6 ==
  ASSUME FibBase, NEW p \in Prefixes, NEW K, NEW c, Trail(p, K, c), K[Total] = kernel[p], WorkDel6, At(1).prefix = p
  PROVE  Tracked(p)'
<1> DEFINE e == At(1)
           t == table[p]
           S == e.infos
<1>1. /\ Takes /\ e.kind = "del" /\ hwflag' = hwflag /\ failed' = failed
      /\ table'[p] = IF t # None /\ Cardinality(S) # Cardinality(t) THEN t \ S ELSE None
  BY Del6Is
<1>2. Marks(p, K) /\ (t # None => K[0] \subseteq t /\ t \subseteq InfosOf(p))
  BY DEF Trail, Marks, FibBase, FibTypeOK
<1>3. S \subseteq K[0] /\ K[1] \subseteq K[0] \ S /\ (c = 0 => K[1] = K[0] \ S)
  <2>1. Step(p, e, K[0]) = K[0] \ S
    BY <1>1 DEF Step
  <2>2. K[1] \subseteq Step(p, e, K[0]) /\ (c = 0 => K[1] = Step(p, e, K[0])) /\ Fits(p, e, K[0])
    BY <1>1, TrailBegins
  <2>3. S \subseteq K[0]
    BY <1>1, <2>2 DEF Fits
  <2> QED
    BY <2>1, <2>2, <2>3
<1>4. t # None => IsFiniteSet(t)
  BY <1>2, InfosType, FS_Subset, NsimFibAssumption DEF NsimFibAssumption, Infos
<1> HIDE DEF e, t, S
<1>5. \A i : Stays(p, K, i) => There(K, i) /\ i \notin S
  BY <1>3 DEF Stays
<1>6. CASE t = None
  <2>1. table'[p] = None /\ \A i : ~InTable(p, i)
    BY <1>1, <1>6 DEF t, InTable
  <2>2. ASSUME NEW i \in InfosOf(p), Stays(p, K, i)
        PROVE  hwflag'[p][i] # "trap" /\ ("delete" \notin failed' => hwflag'[p][i] # "none")
    BY <1>1, <1>2, <1>5, <2>1, <2>2 DEF Marks
  <2>3. \A i : ~InTable(p, i)'
    BY <2>1 DEF InTable
  <2> QED
    BY <1>1, <2>1, <2>2, <2>3, TrailTaken
<1>7. CASE t # None /\ Cardinality(S) = Cardinality(t)
  <2>1. S = t
    BY <1>2, <1>3, <1>4, <1>7, FS_Subset
  <2>2. K[1] = {}
    BY <1>2, <1>3, <1>7, <2>1
  <2>3. table'[p] = None /\ \A i : ~Stays(p, K, i)
    BY <1>1, <1>7, <2>2 DEF Stays
  <2> QED
    BY <1>1, <2>3, TrailTaken
<1>8. CASE t # None /\ Cardinality(S) # Cardinality(t)
  <2>1. table'[p] = t \ S /\ K[1] \subseteq table'[p]
    BY <1>1, <1>2, <1>3, <1>8
  <2>2. S # t
    BY <1>8
  <2>3. t \ S # {} /\ t \ S # None
    <3>1. t \ S \in SUBSET Infos
      BY <1>2, <1>8, InfosType
    <3>2. S \subseteq t
      BY <1>2, <1>3, <1>8
    <3> QED
      BY <2>2, <3>1, <3>2, NotNone
  <2>4. ASSUME NEW i \in InfosOf(p), Stays(p, K, i)
        PROVE  There(K, i) /\ hwflag'[p][i] = hwflag[p][i] /\ (InTable(p, i)' <=> InTable(p, i))
    BY <1>1, <1>5, <1>8, <2>1, <2>3, <2>4 DEF InTable, t
  <2>5. ASSUME NEW i \in InfosOf(p), Stays(p, K, i)
        PROVE  /\ hwflag'[p][i] = "trap" => InTable(p, i)'
               /\ "delete" \notin failed' => hwflag'[p][i] # "none"
    BY <1>1, <1>2, <2>4, <2>5 DEF Marks
  <2>6. ASSUME c = 0, Exact(p, K)
        PROVE  /\ table'[p] # None => table'[p] = K[1] /\ table'[p] # {}
               /\ \A i \in InfosOf(p) : Stays(p, K, i) /\ InTable(p, i)' => hwflag'[p][i] = "trap"
    <3>1. t = K[0]
      BY <1>8, <2>6 DEF Exact, t
    <3> QED
      BY <1>3, <2>1, <2>3, <2>4, <2>6, <3>1 DEF Exact
  <2> QED
    BY <1>1, <2>1, <2>5, <2>6, TrailTaken
<1> QED
  BY <1>6, <1>7, <1>8

\* Every step keeps the histories.
LEMMA TrackStep ==
  ASSUME FibBase, DumpInv, TrackInv, [FibNext]_fibVars
  PROVE  TrackInv'
<1> SUFFICES ASSUME Told', Clean' PROVE \A p \in Prefixes : p \notin dump'.todo => Tracked(p)'
  BY DEF TrackInv
<1>0. FibTypeOK /\ WorkInv /\ PhaseInv /\ dump.todo \subseteq Prefixes
  BY DEF FibBase, FibTypeOK, DumpType
<1>h. ASSUME Told, failed \subseteq failed', NEW p \in Prefixes, p \notin dump.todo
      PROVE  \E K, c : Trail(p, K, c) /\ K[Total] = kernel[p]
  <2>1. Clean
    BY <1>h DEF Clean
  <2> QED
    BY <1>h, <2>1 DEF TrackInv, Tracked
<1>s. ASSUME Total' = Total, \A k \in 1..Total : At(k)' = At(k), Told, dump'.todo = dump.todo,
             table' = table, hwflag' = hwflag, failed' = failed, kernel' = kernel,
             \A c \in 0..Total : Covered(c) => Covered(c)',
             NEW p \in Prefixes, p \notin dump'.todo
      PROVE  Tracked(p)'
  <2>1. PICK K, c : Trail(p, K, c) /\ K[Total] = kernel[p]
    BY <1>h, <1>s
  <2>2. Covered(c) => Covered(c)'
    BY <1>s, <2>1 DEF Trail, Path
  <2>3. Trail(p, K, c)'
    BY <1>s, <2>1, <2>2, TrailKept
  <2>4. K[Total'] = kernel'[p]
    BY <1>s, <2>1
  <2> QED
    BY <2>3, <2>4 DEF Tracked
<1>1. CASE UNCHANGED fibVars
  <2>1. /\ dump' = dump /\ phase' = phase /\ table' = table /\ hwflag' = hwflag /\ kernel' = kernel /\ failed' = failed
        /\ ev' = ev /\ queue' = queue /\ flush' = flush
    BY <1>1 DEF fibVars, kernelVars
  <2>2. Total' = Total /\ \A k \in 1..Total : At(k)' = At(k)
    BY <2>1, SameEvents
  <2>3. Told /\ \A c \in 0..Total : Covered(c) => Covered(c)'
    BY <2>1 DEF Told, Covered
  <2> QED
    BY <1>s, <2>1, <2>2, <2>3
<1>2. ASSUME NEW p \in Prefixes, NEW e \in Events, NEW R \in SUBSET InfosOf(p), RouteChange(p, e, R),
             p \in Prefixes4 => \A i, j \in R : i = j, e.prefix = p,
             Fits(p, e, kernel[p]), R = Step(p, e, kernel[p]), failed \subseteq failed',
             NEW q \in Prefixes
      PROVE  Tracked(q)'
  <2>1. KernelSet(p, R) /\ phase' = phase /\ flush' = flush /\ table' = table
    BY <1>2 DEF RouteChange
  <2>2. phase = "live" /\ Told /\ dump.todo = {} /\ Registered
    BY <1>0, <1>2, <2>1, ChangeSeen DEF Told, PhaseInv, Registered
  <2>3. ScheduleEvent(e)
    BY <1>2, <2>2 DEF RouteChange
  <2>4. PICK K, c : Trail(q, K, c) /\ K[Total] = kernel[q]
    BY <1>h, <1>2, <2>2
  <2>5. /\ kernel'[p] = R /\ \A s \in Prefixes : s # p => kernel'[s] = kernel[s] /\ hwflag'[s] = hwflag[s]
        /\ \A i \in InfosOf(p) : i \in kernel[p] \cap R => hwflag'[p][i] = hwflag[p][i]
    BY <1>0, <1>2, <2>1, KernelSetIs
  <2>6. kernel[q] \subseteq InfosOf(q) /\ kernel'[q] \in SUBSET InfosOf(q)
    BY <1>0, <1>2, <2>5 DEF FibTypeOK
  <2>7. Fits(q, e, K[Total]) /\ kernel'[q] = Step(q, e, K[Total])
    <3>1. CASE q = p
      BY <1>2, <2>4, <2>5, <3>1
    <3>2. CASE q # p
      BY <1>2, <2>4, <2>5, <3>2 DEF Fits, Step
    <3> QED
      BY <3>1, <3>2
  <2>8. \A i \in K[Total] \cap kernel'[q] : hwflag'[q][i] = hwflag[q][i]
    BY <2>4, <2>5, <2>6
  <2>9. \E L : Trail(q, L, c)' /\ L[Total'] = kernel'[q]
    BY <1>0, <1>2, <2>1, <2>3, <2>4, <2>6, <2>7, <2>8, TrailExtended
  <2> QED
    BY <2>9 DEF Tracked
<1>3. ASSUME NEW p \in Prefixes, RouteReplace(p) \/ RouteAppend(p) \/ RouteVeto(p), NEW q \in Prefixes PROVE Tracked(q)'
  <2>1. CASE RouteReplace(p)
    <3>1. PICK S \in SUBSET InfosOf(p) :
           /\ S # {} /\ S \cap kernel[p] = {} /\ (p \in Prefixes4 => \A i, j \in S : i = j)
           /\ Event("replace", p, S) \in Events
           /\ RouteChange(p, Event("replace", p, S), S) /\ failed' = failed
      BY <1>0, <2>1, ReplaceIs
    <3>2. Event("replace", p, S).prefix = p /\ Event("replace", p, S).kind = "replace" /\ Event("replace", p, S).infos = S
      BY DEF Event
    <3>3. Fits(p, Event("replace", p, S), kernel[p]) /\ S = Step(p, Event("replace", p, S), kernel[p])
      BY <3>1, <3>2 DEF Fits, Step
    <3> QED
      BY <1>2, <3>1, <3>2, <3>3
  <2>2. CASE RouteAppend(p)
    <3>1. PICK S \in SUBSET InfosOf(p) :
           /\ p \in Prefixes6 /\ kernel[p] # {} /\ S # {} /\ S \cap kernel[p] = {}
           /\ kernel[p] \cup S \in SUBSET InfosOf(p)
           /\ Event("append", p, S) \in Events
           /\ RouteChange(p, Event("append", p, S), kernel[p] \cup S) /\ failed' = failed
      BY <1>0, <2>2, AppendIs
    <3>2. Event("append", p, S).prefix = p /\ Event("append", p, S).kind = "append" /\ Event("append", p, S).infos = S
      BY DEF Event
    <3>3. Fits(p, Event("append", p, S), kernel[p]) /\ kernel[p] \cup S = Step(p, Event("append", p, S), kernel[p])
      BY <3>1, <3>2 DEF Fits, Step
    <3>4. p \notin Prefixes4
      BY <3>1, NsimFibAssumption DEF NsimFibAssumption
    <3> QED
      BY <1>2, <3>1, <3>2, <3>3, <3>4
  <2>3. CASE RouteVeto(p)
    BY <2>3, BaseVeto DEF Clean
  <2> QED
    BY <1>3, <2>1, <2>2, <2>3
<1>4. ASSUME NEW p \in Prefixes, NEW S \in SUBSET kernel[p], RouteDel(p, S), NEW q \in Prefixes PROVE Tracked(q)'
  <2>1. /\ Deletable(p, S) /\ Event("del", p, S) \in Events
        /\ RouteChange(p, Event("del", p, S), kernel[p] \ S) /\ failed \subseteq failed'
    BY <1>0, <1>4, DelIs
  <2>2. Event("del", p, S).prefix = p /\ Event("del", p, S).kind = "del" /\ Event("del", p, S).infos = S
    BY DEF Event
  <2>3. /\ S # {} /\ S \subseteq kernel[p] /\ S \in SUBSET InfosOf(p) /\ (p \in Prefixes4 => S = kernel[p])
        /\ kernel[p] \ S \in SUBSET InfosOf(p) /\ (p \in Prefixes4 => \A i, j \in kernel[p] \ S : i = j)
    BY <1>0, <2>1, DeletableIs
  <2>4. Fits(p, Event("del", p, S), kernel[p]) /\ kernel[p] \ S = Step(p, Event("del", p, S), kernel[p])
    BY <2>2, <2>3 DEF Fits, Step
  <2> QED
    BY <1>2, <2>1, <2>2, <2>3, <2>4
<1>5. ASSUME NEW p \in Prefixes, NEW S \in SUBSET kernel[p], RouteDelFails(p, S), NEW q \in Prefixes PROVE Tracked(q)'
  <2>1. /\ failed' = failed \cup {"delete"} /\ Deletable(p, S) /\ flush'.pending /\ KernelSet(p, kernel[p] \ S)
        /\ phase' = phase /\ queue' = queue /\ ev' = ev /\ table' = table
    BY <1>5, BaseDelFails
  <2>2. kernel[p] \ S \in SUBSET InfosOf(p) /\ (p \in Prefixes4 => \A i, j \in kernel[p] \ S : i = j)
    BY <1>0, <2>1, DeletableIs
  <2>3. phase = "live" /\ Told /\ dump.todo = {}
    BY <1>0, <2>1, <2>2, ChangeSeen DEF Told, PhaseInv
  <2>4. PICK K, c : Trail(q, K, c) /\ K[Total] = kernel[q]
    BY <1>h, <2>1, <2>3
  <2>5. /\ kernel'[p] = kernel[p] \ S /\ \A s \in Prefixes : s # p => kernel'[s] = kernel[s] /\ hwflag'[s] = hwflag[s]
        /\ \A i \in InfosOf(p) : i \in kernel[p] \cap (kernel[p] \ S) => hwflag'[p][i] = hwflag[p][i]
    BY <1>0, <2>1, <2>2, KernelSetIs
  <2>6. kernel[q] \subseteq InfosOf(q)
    BY <1>0 DEF FibTypeOK
  <2>7. kernel'[q] \in SUBSET K[Total] /\ \A i \in K[Total] \cap kernel'[q] : hwflag'[q][i] = hwflag[q][i]
    BY <2>4, <2>5, <2>6
  <2>8. Total' = Total /\ \A k \in 1..Total : At(k)' = At(k)
    BY <2>1, SameEvents
  <2>9. \E L : Trail(q, L, Total)' /\ L[Total'] = kernel'[q]
    BY <1>0, <2>1, <2>4, <2>7, <2>8, TrailCut
  <2> QED
    BY <2>8, <2>9 DEF Tracked
<1>6. ASSUME NEW p \in Prefixes, DumpEntry(p), NEW q \in Prefixes, q \notin dump'.todo PROVE Tracked(q)'
  <2>1. phase' # "cancel"
    BY DEF Told
  <2>2. CASE Dumped(p) /\ kernel[p] = {} /\ num' = num /\ queue' = queue /\ ev' = ev
    <3>1. /\ dump'.todo = dump.todo \ {p} /\ table' = table /\ hwflag' = hwflag /\ kernel' = kernel
          /\ failed' = failed /\ flush' = flush /\ Told /\ p \in dump.todo /\ Dumping
      BY <2>2 DEF Dumped, Told, Dumping
    <3>2. Total' = Total /\ \A k \in 1..Total : At(k)' = At(k)
      BY <2>2, SameEvents
    <3>3. PICK K, c : Trail(q, K, c) /\ K[Total] = kernel[q]
      <4>1. CASE q = p
        <5>1. Untouched(p)
          BY <3>1 DEF DumpInv, Dumping
        <5> QED
          BY <1>0, <2>2, <4>1, <5>1, TrailEmpty
      <4>2. CASE q # p
        BY <1>h, <1>6, <3>1, <4>2
      <4> QED
        BY <4>1, <4>2
    <3>4. Covered(c) => Covered(c)'
      BY <2>2, <3>1 DEF Covered
    <3>5. Trail(q, K, c)'
      BY <3>1, <3>2, <3>3, <3>4, TrailKept
    <3> QED
      BY <3>1, <3>2, <3>3, <3>5 DEF Tracked
  <2>3. CASE /\ Dumped(p) /\ kernel[p] # {} /\ num' = Account(p)
             /\ Event("replace", p, kernel[p]) \in Events
             /\ ScheduleEvent(Event("replace", p, kernel[p]))
    <3> DEFINE e == Event("replace", p, kernel[p])
    <3>1. /\ dump'.todo = dump.todo \ {p} /\ table' = table /\ hwflag' = hwflag /\ kernel' = kernel
          /\ failed' = failed /\ flush' = flush /\ Told /\ p \in dump.todo /\ Dumping
      BY <2>3 DEF Dumped, Told, Dumping
    <3>2. e.prefix = p /\ e.kind = "replace" /\ e.infos = kernel[p] /\ e \in Events
      BY <2>3 DEF Event
    <3>3. kernel[q] \in SUBSET InfosOf(q)
      BY <1>0 DEF FibTypeOK
    <3> HIDE DEF e
    <3>4. \E K, c : Trail(q, K, c) /\ Fits(q, e, K[Total]) /\ kernel[q] = Step(q, e, K[Total])
      <4>1. CASE q = p
        <5>1. Untouched(p)
          BY <3>1 DEF DumpInv, Dumping
        <5>2. PICK K : Trail(p, K, 0) /\ K[Total] = {}
          BY <1>0, <5>1, TrailEmpty
        <5> QED
          BY <3>2, <4>1, <5>2 DEF Fits, Step
      <4>2. CASE q # p
        <5>1. PICK K, c : Trail(q, K, c) /\ K[Total] = kernel[q]
          BY <1>h, <1>6, <3>1, <4>2
        <5> QED
          BY <3>2, <4>2, <5>1 DEF Fits, Step
      <4> QED
        BY <4>1, <4>2
    <3>5. PICK K, c : Trail(q, K, c) /\ Fits(q, e, K[Total]) /\ kernel[q] = Step(q, e, K[Total])
      BY <3>4
    <3>6. ScheduleEvent(e)
      BY <2>3 DEF e
    <3>7. \E L : Trail(q, L, c)' /\ L[Total'] = kernel[q]
      BY <1>0, <3>1, <3>2, <3>3, <3>5, <3>6, TrailExtended
    <3> QED
      BY <3>1, <3>7 DEF Tracked
  <2> QED
    BY <1>6, <2>1, <2>2, <2>3, DumpEntryIs
<1>7. ASSUME \/ WorkAdd \/ WorkReplace \/ WorkInsertFails \/ WorkAppend \/ WorkAppendFails \/ WorkDel4 \/ WorkDel6,
             NEW q \in Prefixes, q \notin dump'.todo
      PROVE  Tracked(q)'
  <2>1. /\ Takes /\ failed \subseteq failed'
        /\ \A s \in Prefixes : s # At(1).prefix => table'[s] = table[s] /\ hwflag'[s] = hwflag[s]
    <3>1. CASE WorkAdd
      BY <3>1, AddIs
    <3>2. CASE WorkReplace
      BY <3>2, ReplacedIs
    <3>3. CASE WorkInsertFails
      BY <3>3, InsertFailsIs
    <3>4. CASE WorkAppend
      BY <3>4, AppendedIs
    <3>5. CASE WorkAppendFails
      BY <3>5, AppendFailsIs
    <3>6. CASE WorkDel4
      BY <3>6, Del4Is
    <3>7. CASE WorkDel6
      BY <3>7, Del6Is
    <3> QED
      BY <1>7, <3>1, <3>2, <3>3, <3>4, <3>5, <3>6, <3>7
  <2>2. Told /\ dump' = dump
    BY <2>1 DEF Takes, Told
  <2>3. PICK K, c : Trail(q, K, c) /\ K[Total] = kernel[q]
    BY <1>h, <1>7, <2>1, <2>2
  <2>4. CASE At(1).prefix # q
    BY <2>1, <2>3, <2>4, TakenOther
  <2>5. CASE At(1).prefix = q
    BY <1>7, <2>2, <2>3, <2>5, TakenAdd, TakenReplace, TakenInsertFails, TakenAppend, TakenAppendFails, TakenDel4, TakenDel6
  <2> QED
    BY <2>4, <2>5
<1>8. CASE WorkSplice
  <2>1. /\ Total' = Total /\ Len(ev'.batch) = Total /\ \A k \in 1..Total : At(k)' = At(k)
        /\ kernel' = kernel /\ hwflag' = hwflag /\ phase' = phase /\ dump' = dump /\ table' = table /\ failed' = failed
        /\ flush'.pending <=> flush.pending
        /\ flush'.pc = IF flush.pc = "wait pending" THEN "wait running" ELSE flush.pc
    BY <1>8, SpliceIs
  <2>2. PICK n \in Nat : Total = n
    BY <1>0, AtIs
  <2>3. ASSUME NEW c \in 0..Total PROVE c <= Len(ev'.batch)
    <3>1. c <= n
      BY <2>2
    <3>2. Len(ev'.batch) = n
      BY <2>1, <2>2
    <3> QED
      BY <3>1, <3>2
  <2>4. ASSUME NEW c \in 0..Total, Covered(c) PROVE Covered(c)'
    <3>1. flush.pc # "ready" => flush.pending \/ flush.pc = "wait pending" \/ flush.pc = "wait running"
      BY <2>4 DEF Covered
    <3>2. CASE flush.pending
      BY <2>1, <3>2 DEF Covered
    <3>3. CASE flush.pc = "wait pending" \/ flush.pc = "wait running"
      BY <2>1, <2>3, <3>3 DEF Covered
    <3>4. CASE flush.pc = "ready" /\ ~flush.pending
      BY <2>1, <2>4, <3>4 DEF Covered
    <3> QED
      BY <3>1, <3>2, <3>3, <3>4
  <2>5. Told
    BY <2>1 DEF Told
  <2> QED
    BY <1>s, <2>1, <2>4, <2>5
<1>9. CASE WorkLock \/ WorkEnd
  <2>1. /\ ev'.batch = ev.batch /\ queue' = queue
        /\ kernel' = kernel /\ hwflag' = hwflag /\ phase' = phase /\ dump' = dump /\ table' = table /\ failed' = failed
    BY <1>9, LockIs, EndIs
  <2>2. PICK n \in Nat : Total = n
    BY <1>0, AtIs
  <2>3. \A c \in 0..Total : Covered(c) => Covered(c)'
    <3>1. CASE WorkLock
      BY <2>1, <3>1, LockIs DEF Covered
    <3>2. CASE WorkEnd
      <4>1. /\ flush'.pending <=> flush.pending
            /\ flush'.pc = IF flush.pc = "wait running" THEN "ready" ELSE flush.pc
        BY <3>2, EndIs
      <4>2. ev.batch = <<>>
        BY <3>2, EndIs
      <4>3. Len(ev.batch) = 0
        BY <4>2
      <4>4. ASSUME NEW c \in 0..Total, c <= Len(ev.batch) PROVE c = 0
        BY <2>2, <4>3, <4>4
      <4>5. ASSUME NEW c \in 0..Total, Covered(c) PROVE Covered(c)'
        <5>1. CASE flush.pending \/ flush.pc = "wait pending"
          BY <4>1, <5>1 DEF Covered
        <5>2. CASE flush.pc = "wait running" /\ c <= Len(ev.batch)
          BY <4>1, <4>4, <5>2 DEF Covered
        <5>3. CASE flush.pc = "ready" /\ c = 0
          BY <4>1, <5>3 DEF Covered
        <5> QED
          BY <4>5, <5>1, <5>2, <5>3 DEF Covered
      <4> QED
        BY <4>5
    <3> QED
      BY <1>9, <3>1, <3>2
  <2>4. Total' = Total /\ \A k \in 1..Total : At(k)' = At(k)
    BY <2>1, SameEvents
  <2>5. Told
    BY <2>1 DEF Told
  <2> QED
    BY <1>s, <2>1, <2>3, <2>4, <2>5
<1>10. CASE FlushBegin
  <2>1. /\ ev' = ev /\ queue' = queue
        /\ kernel' = kernel /\ hwflag' = hwflag /\ phase' = phase /\ dump' = dump /\ table' = table /\ failed' = failed
        /\ flush'.pc = IF ev.pending THEN "wait pending" ELSE IF ev.pc # "idle" THEN "wait running" ELSE "ready"
    BY <1>10, FlushBeginIs
  <2>2. ASSUME NEW c \in 0..Total PROVE Covered(c)'
    <3>1. CASE ev.pending
      BY <2>1, <3>1 DEF Covered
    <3>2. CASE ~ev.pending /\ ev.pc # "idle"
      <4>1. queue = <<>> /\ ev.batch \in Seq(Events)
        BY <1>0, <3>2, EvIs DEF WorkInv, EventsScheduled, FibTypeOK
      <4>2. Len(ev.batch) \in Nat /\ Len(queue) = 0
        BY <4>1
      <4>3. c <= Len(ev.batch)
        BY <4>2 DEF Total
      <4> QED
        BY <2>1, <3>2, <4>3 DEF Covered
    <3>3. CASE ~ev.pending /\ ev.pc = "idle"
      <4>1. Total = 0
        BY <1>0, <3>3, NoneLeft DEF EventWorkDone
      <4>2. c = 0
        BY <4>1
      <4> QED
        BY <2>1, <3>3, <4>2 DEF Covered
    <3> QED
      BY <3>1, <3>2, <3>3
  <2>3. Total' = Total /\ \A k \in 1..Total : At(k)' = At(k)
    BY <2>1, SameEvents
  <2>4. Told
    BY <2>1 DEF Told
  <2> QED
    BY <1>s, <2>1, <2>2, <2>3, <2>4
<1>11. CASE FlushTable
  <2>1. ev' = ev /\ queue' = queue /\ kernel' = kernel /\ phase' = phase /\ dump' = dump /\ failed' = failed
    BY <1>11, FlushTableIs
  <2>2. Total' = Total /\ Told
    BY <2>1, SameEvents DEF Told
  <2>3. ASSUME NEW q \in Prefixes, q \notin dump'.todo PROVE Tracked(q)'
    <3>1. PICK K, c : Trail(q, K, c) /\ K[Total] = kernel[q]
      BY <1>h, <2>1, <2>2, <2>3
    <3>2. Trail(q, K, c)'
      BY <1>11, <3>1, TrailFlushed
    <3>3. K[Total'] = kernel'[q]
      BY <2>1, <2>2, <3>1
    <3> QED
      BY <3>2, <3>3 DEF Tracked
  <2> QED
    BY <2>3
<1>12. CASE DumpRegister \/ DumpCheck \/ DestroyUnregister \/ DestroyCancel
  <2>1. /\ ev' = ev /\ queue' = queue /\ kernel' = kernel /\ hwflag' = hwflag /\ table' = table /\ failed' = failed
        /\ dump.todo = {} /\ dump'.todo = {} /\ Told /\ flush' = flush
    BY <1>12, PhasesAre
  <2>2. Total' = Total /\ \A k \in 1..Total : At(k)' = At(k)
    BY <2>1, SameEvents
  <2>3. \A c \in 0..Total : Covered(c) => Covered(c)'
    BY <2>1 DEF Covered
  <2> QED
    BY <1>s, <2>1, <2>2, <2>3
<1>13. CASE CreateBegin \/ DumpInconsistent \/ DestroyFree
  <2>1. /\ Total' = 0 /\ kernel' = kernel /\ dump'.todo = {p \in Prefixes : kernel[p] # {}}
        /\ \A p \in Prefixes : table'[p] = None
    <3>1. CASE CreateBegin
      BY <3>1, CreateIs
    <3>2. CASE DumpInconsistent \/ DestroyFree
      BY <1>0, <3>2, EmptiedIs, FreeTableIs
    <3> QED
      BY <1>13, <3>1, <3>2
  <2>3. ASSUME NEW q \in Prefixes, q \notin dump'.todo PROVE Tracked(q)'
    <3>1. table'[q] = None /\ kernel'[q] = {}
      BY <2>1, <2>3
    <3> DEFINE K == [k \in 0..0 |-> {}]
    <3>2. K \in [0..0 -> SUBSET InfosOf(q)] /\ K[0] = {} /\ 0 \in 0..0 /\ 1..0 = {}
      OBVIOUS
    <3> HIDE DEF K
    <3>3. Path(q, K, 0)'
      BY <2>1, <3>2 DEF Path
    <3>4. \A i : ~There(K, i)'
      BY <2>1, <3>2 DEF There
    <3>5. Marks(q, K)' /\ Exact(q, K)'
      BY <3>1, <3>4 DEF Marks, Exact
    <3>6. Trail(q, K, 0)' /\ K[Total'] = kernel'[q]
      BY <2>1, <3>1, <3>2, <3>3, <3>5 DEF Trail
    <3> QED
      BY <3>6 DEF Tracked
  <2> QED
    BY <2>3
<1> QED
  BY <1>1, <1>3, <1>4, <1>5, <1>6, <1>7, <1>8, <1>9, <1>10, <1>11, <1>12, <1>13 DEF FibNext

\* With nothing outstanding, the histories say that the table is the routes.
LEMMA Followed ==
  ASSUME FibBase, TrackInv
  PROVE  TableFollowsKernel
<1> SUFFICES ASSUME Settled, failed \cap {"replacement", "insertion", "append", "veto"} = {}, NEW p \in Prefixes
             PROVE  /\ table[p] # None => table[p] # {} /\ table[p] \subseteq kernel[p]
                    /\ \A i \in kernel[p] :
                         /\ hwflag[p][i] = "trap" <=> (table[p] # None /\ i \in table[p])
                         /\ "delete" \notin failed => hwflag[p][i] # "none"
  BY DEF TableFollowsKernel
<1>1. FibTypeOK /\ WorkInv /\ PhaseInv /\ phase = "live" /\ EventWorkDone /\ FlushWorkDone
  BY DEF FibBase, Settled
<1>2. Total = 0 /\ dump.todo = {}
  BY <1>1, NoneLeft DEF PhaseInv
<1>3. PICK K, c : Trail(p, K, c) /\ K[0] = kernel[p]
  BY <1>1, <1>2 DEF TrackInv, Told, Clean, Tracked
<1>4. ~Covered(c)
  BY <1>1 DEF Covered, FlushWorkDone
<1>5. Marks(p, K) /\ Exact(p, K)
  BY <1>3, <1>4 DEF Trail
<1>6. \A i \in kernel[p] : There(K, i) /\ i \in InfosOf(p)
  BY <1>1, <1>2, <1>3 DEF There, FibTypeOK
<1> QED
  BY <1>3, <1>5, <1>6 DEF Marks, Exact, InTable

\* TableFollowsKernel: the table of offloaded routes and the flags of the kernel's
\* routes agree when the works of fib.c are done, for any number of prefixes and
\* nexthops and any number of events outstanding on the way.
THEOREM RoutesFollowed == FibSpec => []TableFollowsKernel
<1> DEFINE Inv == FibBase /\ DumpInv /\ TrackInv
<1>1. FibInit => Inv
  <2> SUFFICES ASSUME FibInit PROVE Inv
    OBVIOUS
  <2>1. phase = "gone"
    BY DEF FibInit
  <2> QED
    BY <2>1, BaseInit DEF DumpInv, TrackInv, Told
<1>2. Inv /\ [FibNext]_fibVars => Inv'
  BY BaseStep, DumpStep, TrackStep
<1>3. Inv => TableFollowsKernel
  BY Followed
<1> HIDE DEF Inv
<1> QED
  BY <1>1, <1>2, <1>3, PTL DEF FibSpec

-----------------------------------------------------------------------------
(* What the notifier has counted. *)

\* The events that replace a route, counted when announced and given back when
\* carried out; W says which prefixes have one before and after each event.
Surplus(W, f) ==
  {k \in 1..Total : At(k).kind = "replace" /\ Family(At(k).prefix) = f /\ At(k).prefix \in W[k - 1]}

\* What is counted of family f: the routes in the end, and the replacements.
Bill(W, f) == Cardinality(W[Total] \cap PrefixesOf(f)) + Cardinality(Surplus(W, f))

\* Two finite sets that differ at most in one element.
LEMMA OneChanged ==
  ASSUME NEW U, IsFiniteSet(U), NEW A \in SUBSET U, NEW B \in SUBSET U, NEW p,
         \A q \in U : q # p => (q \in A <=> q \in B)
  PROVE  /\ Cardinality(A) \in Nat /\ Cardinality(B) \in Nat
         /\ (p \in A <=> p \in B) => Cardinality(B) = Cardinality(A)
         /\ p \in A /\ p \notin B => Cardinality(A) = Cardinality(B) + 1
         /\ p \notin A /\ p \in B => Cardinality(B) = Cardinality(A) + 1
<1>1. IsFiniteSet(A) /\ IsFiniteSet(B)
  BY FS_Subset
<1>2. Cardinality(A) \in Nat /\ Cardinality(B) \in Nat
  BY <1>1, FS_CardinalityType
<1>3. ASSUME p \in A <=> p \in B PROVE A = B
  BY <1>3
<1>4. ASSUME p \in A, p \notin B PROVE Cardinality(A) = Cardinality(B) + 1
  <2>1. A = B \cup {p}
    BY <1>4
  <2> QED
    BY <1>1, <1>4, <2>1, FS_AddElement
<1>5. ASSUME p \notin A, p \in B PROVE Cardinality(B) = Cardinality(A) + 1
  <2>1. B = A \cup {p}
    BY <1>5
  <2> QED
    BY <1>1, <1>5, <2>1, FS_AddElement
<1> QED
  BY <1>2, <1>3, <1>4, <1>5

\* The same, of the prefixes of a family.
LEMMA OneOfFamily ==
  ASSUME NEW A \in SUBSET Prefixes, NEW B \in SUBSET Prefixes, NEW p \in Prefixes, NEW f \in Families,
         \A q \in Prefixes : q # p => (q \in A <=> q \in B)
  PROVE  /\ Cardinality(A \cap PrefixesOf(f)) \in Nat /\ Cardinality(B \cap PrefixesOf(f)) \in Nat
         /\ f # Family(p) => Cardinality(B \cap PrefixesOf(f)) = Cardinality(A \cap PrefixesOf(f))
         /\ (p \in A <=> p \in B) => Cardinality(B \cap PrefixesOf(f)) = Cardinality(A \cap PrefixesOf(f))
         /\ f = Family(p) =>
              /\ p \in A /\ p \notin B => Cardinality(A \cap PrefixesOf(f)) = Cardinality(B \cap PrefixesOf(f)) + 1
              /\ p \notin A /\ p \in B => Cardinality(B \cap PrefixesOf(f)) = Cardinality(A \cap PrefixesOf(f)) + 1
<1> DEFINE X == A \cap PrefixesOf(f)
           Y == B \cap PrefixesOf(f)
<1>1. IsFiniteSet(Prefixes)
  BY NsimFibAssumption DEF NsimFibAssumption, Prefixes
<1>2. X \in SUBSET Prefixes /\ Y \in SUBSET Prefixes /\ \A q \in Prefixes : q # p => (q \in X <=> q \in Y)
  OBVIOUS
<1>3. /\ p \in X <=> p \in A /\ f = Family(p)
      /\ p \in Y <=> p \in B /\ f = Family(p)
  BY DEF PrefixesOf
<1> HIDE DEF X, Y
<1>4. /\ Cardinality(X) \in Nat /\ Cardinality(Y) \in Nat
      /\ (p \in X <=> p \in Y) => Cardinality(Y) = Cardinality(X)
      /\ p \in X /\ p \notin Y => Cardinality(X) = Cardinality(Y) + 1
      /\ p \notin X /\ p \in Y => Cardinality(Y) = Cardinality(X) + 1
  BY <1>1, <1>2, OneChanged
<1>5. /\ Cardinality(X) \in Nat /\ Cardinality(Y) \in Nat
      /\ f # Family(p) => Cardinality(Y) = Cardinality(X)
      /\ (p \in A <=> p \in B) => Cardinality(Y) = Cardinality(X)
      /\ f = Family(p) =>
              /\ p \in A /\ p \notin B => Cardinality(X) = Cardinality(Y) + 1
              /\ p \notin A /\ p \in B => Cardinality(Y) = Cardinality(X) + 1
  BY <1>3, <1>4
<1> QED
  BY <1>5 DEF X, Y

\* The replacements are finitely many.
LEMMA SurplusIs ==
  ASSUME FibTypeOK, NEW W, NEW f
  PROVE  IsFiniteSet(Surplus(W, f)) /\ Cardinality(Surplus(W, f)) \in Nat
<1>1. IsFiniteSet(1..Total)
  BY AtIs, FS_Interval
<1>2. Surplus(W, f) \subseteq 1..Total
  BY DEF Surplus
<1> QED
  BY <1>1, <1>2, FS_Subset, FS_CardinalityType

\* What is counted is a natural number.
LEMMA BillIs ==
  ASSUME FibTypeOK, NEW W, W[Total] \in SUBSET Prefixes, NEW f \in Families
  PROVE  Bill(W, f) \in Nat
<1>1. W[Total] \cap PrefixesOf(f) \subseteq Prefixes /\ IsFiniteSet(Prefixes)
  BY NsimFibAssumption DEF NsimFibAssumption, Prefixes
<1>2. Cardinality(W[Total] \cap PrefixesOf(f)) \in Nat
  BY <1>1, FS_Subset, FS_CardinalityType
<1>3. Cardinality(Surplus(W, f)) \in Nat
  BY SurplusIs
<1> QED
  BY <1>2, <1>3 DEF Bill

\* An event is announced.
LEMMA BillExtended ==
  ASSUME FibTypeOK, NEW e \in Events, ScheduleEvent(e), NEW f \in Families,
         NEW W \in [0..Total -> SUBSET Prefixes], NEW X \in [0..Total' -> SUBSET Prefixes],
         \A k \in 0..Total : X[k] = W[k],
         \A q \in Prefixes : q # e.prefix => (q \in W[Total] <=> q \in X[Total'])
  PROVE  LET p == e.prefix
         IN  /\ Bill(W, f) \in Nat /\ Bill(X, f)' \in Nat
             /\ f # Family(p) => Bill(X, f)' = Bill(W, f)
             /\ f = Family(p) /\ e.kind = "replace" /\ p \in X[Total'] => Bill(X, f)' = Bill(W, f) + 1
             /\ e.kind # "replace" /\ (p \in W[Total] <=> p \in X[Total']) => Bill(X, f)' = Bill(W, f)
             /\ f = Family(p) /\ e.kind = "del" /\ p \in W[Total] /\ p \notin X[Total'] => Bill(W, f) = Bill(X, f)' + 1
<1> DEFINE p == e.prefix
<1>1. PICK n \in Nat : /\ Total = n /\ Total' = n + 1 /\ At(Total)' = e /\ \A k \in 1..n : At(k)' = At(k)
  BY ScheduledIs
<1>2. p \in Prefixes
  BY EventHas
<1> DEFINE A == W[n]
           B == X[n + 1]
           S == Surplus(W, f)
           T == Surplus(X, f)'
<1>3. A \in SUBSET Prefixes /\ B \in SUBSET Prefixes /\ \A q \in Prefixes : q # p => (q \in A <=> q \in B)
  <2>1. n \in 0..n /\ n + 1 \in 0..(n + 1)
    OBVIOUS
  <2> QED
    BY <1>1, <2>1
<1>4. IsFiniteSet(S) /\ Cardinality(S) \in Nat
  BY SurplusIs
<1>5. S = {k \in 1..n : At(k).kind = "replace" /\ Family(At(k).prefix) = f /\ At(k).prefix \in W[k - 1]}
  BY <1>1 DEF Surplus
<1>6. T = {k \in 1..(n + 1) : At(k)'.kind = "replace" /\ Family(At(k)'.prefix) = f /\ At(k)'.prefix \in X[k - 1]}
  BY <1>1 DEF Surplus
<1>7. \A k \in 1..n : At(k)' = At(k) /\ X[k - 1] = W[k - 1] /\ k \in 1..(n + 1)
  <2>1. \A k \in 1..n : k - 1 \in 0..n /\ k \in 1..(n + 1)
    OBVIOUS
  <2> QED
    BY <1>1, <2>1
<1>8. At(n + 1)' = e /\ X[(n + 1) - 1] = A /\ n + 1 \in 1..(n + 1) /\ n + 1 \notin 1..n
  <2>1. (n + 1) - 1 = n /\ n \in 0..n /\ n + 1 \in 1..(n + 1) /\ n + 1 \notin 1..n
    OBVIOUS
  <2> QED
    BY <1>1, <2>1
<1>9. \A k \in 1..(n + 1) : k \in 1..n \/ k = n + 1
  OBVIOUS
<1> HIDE DEF S, T, A, B
<1>10. CASE e.kind = "replace" /\ Family(p) = f /\ p \in A
  <2>1. T = S \cup {n + 1}
    BY <1>5, <1>6, <1>7, <1>8, <1>9, <1>10
  <2>2. n + 1 \notin S
    BY <1>5, <1>8
  <2>3. Cardinality(T) = Cardinality(S) + 1
    BY <1>4, <2>1, <2>2, FS_AddElement
  <2>4. p \in B => Cardinality(B \cap PrefixesOf(f)) = Cardinality(A \cap PrefixesOf(f))
    BY <1>2, <1>3, <1>10, OneOfFamily
  <2>5. Cardinality(A \cap PrefixesOf(f)) \in Nat /\ Cardinality(B \cap PrefixesOf(f)) \in Nat
    BY <1>2, <1>3, OneOfFamily
  <2>6. /\ Bill(W, f) = Cardinality(A \cap PrefixesOf(f)) + Cardinality(S)
        /\ Bill(X, f)' = Cardinality(B \cap PrefixesOf(f)) + Cardinality(T)
    BY <1>1 DEF Bill, A, B, S, T
  <2>7. p \in B => Bill(X, f)' = Bill(W, f) + 1
    BY <1>4, <2>3, <2>4, <2>5, <2>6
  <2>8. Bill(W, f) \in Nat /\ Bill(X, f)' \in Nat
    BY <1>4, <2>3, <2>5, <2>6
  <2> QED
    BY <1>1, <1>10, <2>7, <2>8 DEF B
<1>11. CASE ~(e.kind = "replace" /\ Family(p) = f /\ p \in A)
  <2>1. T = S
    BY <1>5, <1>6, <1>7, <1>8, <1>9, <1>11
  <2>2. PICK a \in Nat, b \in Nat, s \in Nat :
          a = Cardinality(A \cap PrefixesOf(f)) /\ b = Cardinality(B \cap PrefixesOf(f)) /\ s = Cardinality(S)
    BY <1>2, <1>3, <1>4, OneOfFamily
  <2>3. /\ f # Family(p) => b = a
        /\ (p \in A <=> p \in B) => b = a
        /\ f = Family(p) /\ p \in A /\ p \notin B => a = b + 1
        /\ f = Family(p) /\ p \notin A /\ p \in B => b = a + 1
    <3>1. /\ f # Family(p) => Cardinality(B \cap PrefixesOf(f)) = Cardinality(A \cap PrefixesOf(f))
          /\ (p \in A <=> p \in B) => Cardinality(B \cap PrefixesOf(f)) = Cardinality(A \cap PrefixesOf(f))
          /\ f = Family(p) =>
              /\ p \in A /\ p \notin B => Cardinality(A \cap PrefixesOf(f)) = Cardinality(B \cap PrefixesOf(f)) + 1
              /\ p \notin A /\ p \in B => Cardinality(B \cap PrefixesOf(f)) = Cardinality(A \cap PrefixesOf(f)) + 1
      <4> HIDE DEF p
      <4> QED
        BY <1>2, <1>3, OneOfFamily
    <3> HIDE DEF p
    <3> QED
      BY <2>2, <3>1
  <2>4. Bill(W, f) = a + s /\ Bill(X, f)' = b + s
    BY <1>1, <2>1, <2>2 DEF Bill, A, B, S, T
  <2>5. /\ Bill(W, f) \in Nat /\ Bill(X, f)' \in Nat
        /\ f # Family(p) => Bill(X, f)' = Bill(W, f)
        /\ (p \in A <=> p \in B) => Bill(X, f)' = Bill(W, f)
        /\ f = Family(p) /\ p \in A /\ p \notin B => Bill(W, f) = Bill(X, f)' + 1
        /\ f = Family(p) /\ p \notin A /\ p \in B => Bill(X, f)' = Bill(W, f) + 1
    <3>1. a + s \in Nat /\ b + s \in Nat /\ (b + 1) + s = (b + s) + 1 /\ (a + 1) + s = (a + s) + 1
      OBVIOUS
    <3> QED
      BY <2>3, <2>4, <3>1
  <2>6. W[Total] = A /\ X[Total'] = B
    BY <1>1 DEF A, B
  <2> QED
    BY <1>11, <2>5, <2>6
<1> QED
  BY <1>10, <1>11

\* The first event is carried out.
LEMMA BillTaken ==
  ASSUME FibTypeOK, ev.batch # <<>>, NextEvent, queue' = queue, NEW f \in Families,
         NEW W \in [0..Total -> SUBSET Prefixes], NEW X \in [0..Total' -> SUBSET Prefixes],
         \A k \in 0..Total' : X[k] = W[k + 1]
  PROVE  /\ Bill(W, f) \in Nat /\ Bill(X, f)' \in Nat
         /\ IF At(1).kind = "replace" /\ Family(At(1).prefix) = f /\ At(1).prefix \in W[0]
              THEN Bill(W, f) = Bill(X, f)' + 1
              ELSE Bill(X, f)' = Bill(W, f)
<1>1. PICK n \in Nat : Total = n /\ n >= 1 /\ Total' = n - 1 /\ \A k \in 1..(n - 1) : At(k)' = At(k + 1)
  BY TookIs
<1> DEFINE S == Surplus(W, f)
           T == Surplus(X, f)'
           g == [k \in T |-> k + 1]
<1>2. IsFiniteSet(S) /\ Cardinality(S) \in Nat
  BY SurplusIs
<1>3. S = {k \in 1..n : At(k).kind = "replace" /\ Family(At(k).prefix) = f /\ At(k).prefix \in W[k - 1]}
  BY <1>1 DEF Surplus
<1>4. T = {k \in 1..(n - 1) : At(k)'.kind = "replace" /\ Family(At(k)'.prefix) = f /\ At(k)'.prefix \in X[k - 1]}
  BY <1>1 DEF Surplus
<1>5. ASSUME NEW k \in 1..(n - 1) PROVE k \in T <=> k + 1 \in S
  <2>1. k - 1 \in 0..(n - 1) /\ (k - 1) + 1 = k /\ k + 1 \in 1..n /\ (k + 1) - 1 = k
    BY <1>1
  <2>2. X[k - 1] = W[k] /\ At(k)' = At(k + 1)
    BY <1>1, <2>1
  <2> HIDE DEF S, T
  <2> QED
    BY <1>3, <1>4, <2>1, <2>2
<1>6. S \subseteq 1..n /\ T \subseteq 1..(n - 1)
  BY <1>3, <1>4
<1>7. 1 \in S <=> At(1).kind = "replace" /\ Family(At(1).prefix) = f /\ At(1).prefix \in W[0]
  <2>1. 1 \in 1..n /\ 1 - 1 = 0
    BY <1>1
  <2> HIDE DEF S, T
  <2> QED
    BY <1>3, <2>1
<1>8. IsFiniteSet(T)
  <2>1. n - 1 \in Int /\ 1 \in Int
    BY <1>1
  <2>2. IsFiniteSet(1..(n - 1))
    BY <2>1, FS_Interval
  <2> HIDE DEF S, T
  <2> QED
    BY <1>6, <2>2, FS_Subset
<1> HIDE DEF S, T
<1>9. g \in Bijection(T, S \ {1})
  <2>1. g \in [T -> S \ {1}]
    <3>1. ASSUME NEW k \in T PROVE k + 1 \in S \ {1}
      <4>1. k \in 1..(n - 1) /\ k + 1 # 1
        BY <1>6
      <4> QED
        BY <1>5, <4>1
    <3> QED
      BY <3>1
  <2>2. \A a, b \in T : g[a] = g[b] => a = b
    BY <1>6
  <2>3. ASSUME NEW t \in S \ {1} PROVE \E s \in T : g[s] = t
    <3>1. t - 1 \in 1..(n - 1) /\ (t - 1) + 1 = t
      BY <1>6
    <3>2. t - 1 \in T
      BY <1>5, <3>1
    <3> QED
      BY <3>1, <3>2
  <2> HIDE DEF g
  <2> QED
    BY <2>1, <2>2, <2>3 DEF Bijection, Injection, Surjection, IsInjective
<1>10. Cardinality(T) = Cardinality(S \ {1})
  <2>1. ExistsBijection(T, S \ {1})
    BY <1>9 DEF ExistsBijection
  <2> QED
    BY <1>8, <2>1, FS_Bijection
<1>11. Cardinality(T) \in Nat /\ Cardinality(T) = IF 1 \in S THEN Cardinality(S) - 1 ELSE Cardinality(S)
  BY <1>2, <1>8, <1>10, FS_RemoveElement, FS_CardinalityType
<1>12. X[Total'] = W[Total]
  <2>1. n - 1 \in 0..(n - 1) /\ (n - 1) + 1 = n
    BY <1>1
  <2> QED
    BY <1>1, <2>1
<1>13. W[Total] \in SUBSET Prefixes
  <2>1. n \in 0..n
    OBVIOUS
  <2> QED
    BY <1>1, <2>1
<1>14. PICK a \in Nat : a = Cardinality(W[Total] \cap PrefixesOf(f))
  <2>1. W[Total] \cap PrefixesOf(f) \subseteq Prefixes /\ IsFiniteSet(Prefixes)
    BY <1>13, NsimFibAssumption DEF NsimFibAssumption, Prefixes
  <2> QED
    BY <2>1, FS_Subset, FS_CardinalityType
<1>15. Bill(W, f) = a + Cardinality(S) /\ Bill(X, f)' = a + Cardinality(T)
  BY <1>12, <1>14 DEF Bill, S, T
<1> QED
  BY <1>2, <1>7, <1>11, <1>15

\* A history gains a state at its end, or loses its first.
Longer(F, n, x) == [k \in 0..(n + 1) |-> IF k <= n THEN F[k] ELSE x]

\* The history without its first state.
Shorter(F, n) == [k \in 0..(n - 1) |-> F[k + 1]]

\* What that is.
LEMMA ShorterIs ==
  ASSUME NEW n \in Nat, n >= 1, NEW V, NEW F \in [0..n -> V]
  PROVE  Shorter(F, n) \in [0..(n - 1) -> V] /\ \A k \in 0..(n - 1) : Shorter(F, n)[k] = F[k + 1]
<1>1. \A k \in 0..(n - 1) : k + 1 \in 0..n
  OBVIOUS
<1> QED
  BY <1>1 DEF Shorter

\* What an event makes of the entry x of its prefix.
Result(e, x) ==
  IF e.kind = "replace" THEN e.infos
  ELSE IF x = None THEN None
  ELSE IF e.kind = "append" THEN x \cup e.infos
  ELSE IF e.prefix \in Prefixes6 /\ Cardinality(e.infos) # Cardinality(x) THEN x \ e.infos
  ELSE None

\* The tables of entries.
Tables == [Prefixes -> (SUBSET Infos) \cup {None}]

\* The table with an event carried out.
Carried(e, t) == [t EXCEPT ![e.prefix] = Result(e, t[e.prefix])]

\* The prefixes with an entry in each of the tables.
Held(T) == [k \in 0..Total |-> {p \in Prefixes : T[k][p] # None}]

\* T are the table and what the events will make of it: no more is counted.
Upper(T) ==
  /\ T \in [0..Total -> Tables] /\ T[0] = table
  /\ \A k \in 1..Total : T[k] = Carried(At(k), T[k - 1])
  /\ \A f \in Families : num[f] <= Bill(Held(T), f)

\* As long as nothing has failed.
UpperInv == failed = {} => \E T : Upper(T)

\* What an event does to the entries.
LEMMA CarriedIs ==
  ASSUME NEW e \in Events, NEW t \in Tables
  PROVE  LET p == e.prefix
             u == Carried(e, t)
         IN  /\ u \in Tables /\ \A q \in Prefixes : q # p => u[q] = t[q]
             /\ u[p] = Result(e, t[p])
             /\ e.kind = "replace" => u[p] # None
             /\ e.kind = "append" => (u[p] = None <=> t[p] = None)
<1> DEFINE p == e.prefix
           x == t[p]
<1>1. p \in Prefixes /\ e.infos \in SUBSET Infos /\ x \in (SUBSET Infos) \cup {None}
  BY EventHas DEF Tables
<1>2. Result(e, x) \in (SUBSET Infos) \cup {None}
  BY <1>1 DEF Result
<1>3. /\ Carried(e, t) \in Tables /\ \A q \in Prefixes : q # p => Carried(e, t)[q] = t[q]
      /\ Carried(e, t)[p] = Result(e, x)
  BY <1>1, <1>2 DEF Carried, Tables
<1>4. e.kind = "replace" => Result(e, x) # None
  BY <1>1, NotNone DEF Result
<1>5. e.kind = "append" => (Result(e, x) = None <=> x = None)
  <2>1. x # None => x \cup e.infos \in SUBSET Infos
    BY <1>1
  <2> QED
    BY <2>1, NotNone DEF Result
<1> QED
  BY <1>3, <1>4, <1>5

\* The prefixes with an entry, as a history.
LEMMA HeldIs ==
  ASSUME NEW n \in Nat, n = Total, NEW T
  PROVE  /\ Held(T) \in [0..Total -> SUBSET Prefixes]
         /\ \A k \in 0..n : Held(T)[k] = {p \in Prefixes : T[k][p] # None}
BY DEF Held

\* The same events, table and count.
LEMMA UpperKept ==
  ASSUME NEW T, Upper(T), Total' = Total, \A k \in 1..Total : At(k)' = At(k), table' = table, num' = num
  PROVE  Upper(T)'
<1>1. Held(T)' = Held(T)
  BY DEF Held
<1>2. ASSUME NEW f \in Families PROVE Bill(Held(T), f)' = Bill(Held(T), f)
  <2>1. Surplus(Held(T), f)' = Surplus(Held(T), f)
    BY <1>1 DEF Surplus
  <2> QED
    BY <1>1, <2>1 DEF Bill
<1> QED
  BY <1>2 DEF Upper

\* An event is announced, and counted.
LEMMA UpperExtended ==
  ASSUME FibTypeOK, NEW T, Upper(T), NEW e \in Events, ScheduleEvent(e), table' = table,
         \/ e.kind = "replace" /\ num' = Account(e.prefix)
         \/ e.kind = "append" /\ num' = num
         \/ e.kind = "del" /\ num' = Unaccount(e.prefix, 1)
  PROVE  \E L : Upper(L)'
<1> DEFINE p == e.prefix
<1>1. PICK n \in Nat : Total = n /\ Total' = n + 1 /\ At(Total)' = e /\ \A k \in 1..n : At(k)' = At(k)
  BY ScheduledIs
<1>2. /\ T \in [0..n -> Tables] /\ T[0] = table /\ \A k \in 1..n : T[k] = Carried(At(k), T[k - 1])
      /\ \A f \in Families : num[f] <= Bill(Held(T), f)
  BY <1>1 DEF Upper
<1>3. T[n] \in Tables
  <2>1. n \in 0..n
    OBVIOUS
  <2> QED
    BY <1>2, <2>1
<1>4. /\ Carried(e, T[n]) \in Tables /\ \A q \in Prefixes : q # p => Carried(e, T[n])[q] = T[n][q]
      /\ e.kind = "replace" => Carried(e, T[n])[p] # None
      /\ e.kind = "append" => (Carried(e, T[n])[p] = None <=> T[n][p] = None)
  BY <1>3, CarriedIs
<1>5. PICK L \in [0..(n + 1) -> Tables] : L[n + 1] = Carried(e, T[n]) /\ \A k \in 0..n : L[k] = T[k]
  <2>1. PICK x \in Tables : x = Carried(e, T[n])
    BY <1>4
  <2>2. n \in Nat /\ T \in [0..n -> Tables] /\ x \in Tables
    BY <1>2
  <2>3. /\ Longer(T, n, x) \in [0..(n + 1) -> Tables] /\ Longer(T, n, x)[n + 1] = x
        /\ \A k \in 0..n : Longer(T, n, x)[k] = T[k]
    <3>1. \A k \in 0..(n + 1) : k <= n => k \in 0..n
      OBVIOUS
    <3> QED
      BY <2>2, <3>1 DEF Longer
  <2> QED
    BY <2>1, <2>3
<1>6. ASSUME NEW k \in 1..(n + 1) PROVE L[k] = Carried(At(k)', L[k - 1])
  <2>1. CASE k \in 1..n
    <3>1. k \in 0..n /\ k - 1 \in 0..n
      BY <2>1
    <3> QED
      BY <1>1, <1>2, <1>5, <2>1, <3>1
  <2>2. CASE k = n + 1
    <3>1. k - 1 = n /\ n \in 0..n
      BY <2>2
    <3>2. At(k)' = e /\ L[k - 1] = T[n]
      BY <1>1, <1>5, <2>2, <3>1
    <3> QED
      BY <1>5, <2>2, <3>2
  <2> QED
    BY <2>1, <2>2
<1>w. PICK W, X : W = Held(T) /\ X = Held(L)'
  OBVIOUS
<1>7. W \in [0..Total -> SUBSET Prefixes] /\ \A k \in 0..n : W[k] = {q \in Prefixes : T[k][q] # None}
  BY <1>1, <1>w, HeldIs
<1>8. X = [k \in 0..(n + 1) |-> {q \in Prefixes : L[k][q] # None}]
  BY <1>1, <1>w DEF Held
<1>9. X \in [0..Total' -> SUBSET Prefixes] /\ \A k \in 0..(n + 1) : X[k] = {q \in Prefixes : L[k][q] # None}
  BY <1>1, <1>8
<1>10. ASSUME NEW k \in 0..Total PROVE X[k] = W[k]
  <2>1. k \in 0..n /\ k \in 0..(n + 1)
    BY <1>1
  <2>2. X[k] = {q \in Prefixes : L[k][q] # None} /\ W[k] = {q \in Prefixes : T[k][q] # None} /\ L[k] = T[k]
    BY <1>5, <1>7, <1>9, <2>1
  <2> QED
    BY <2>2
<1>11. /\ p \in Prefixes /\ \A q \in Prefixes : q # p => (q \in W[Total] <=> q \in X[Total'])
       /\ e.kind = "replace" => p \in X[Total']
       /\ e.kind = "append" => (p \in W[Total] <=> p \in X[Total'])
  <2>1. n \in 0..n /\ n + 1 \in 0..(n + 1)
    OBVIOUS
  <2>2. W[Total] = {q \in Prefixes : T[n][q] # None} /\ X[Total'] = {q \in Prefixes : Carried(e, T[n])[q] # None}
    BY <1>1, <1>5, <1>7, <1>9, <2>1
  <2>3. p \in Prefixes
    BY EventHas
  <2> QED
    BY <1>4, <2>2, <2>3
<1>12. ASSUME NEW f \in Families PROVE num'[f] <= Bill(X, f)'
  <2>1. num \in [Families -> Nat] /\ num[f] \in Nat /\ num[f] <= Bill(W, f)
    BY <1>2, <1>w DEF FibTypeOK
  <2>2. /\ Bill(W, f) \in Nat /\ Bill(X, f)' \in Nat
        /\ f # Family(p) => Bill(X, f)' = Bill(W, f)
        /\ f = Family(p) /\ e.kind = "replace" => Bill(X, f)' = Bill(W, f) + 1
        /\ e.kind = "append" => Bill(X, f)' = Bill(W, f)
        /\ e.kind = "del" /\ (p \in W[Total] <=> p \in X[Total']) => Bill(X, f)' = Bill(W, f)
        /\ f = Family(p) /\ e.kind = "del" /\ p \in W[Total] /\ p \notin X[Total'] => Bill(W, f) = Bill(X, f)' + 1
    BY <1>1, <1>7, <1>9, <1>10, <1>11, BillExtended
  <2>3. CASE e.kind = "replace" /\ num' = Account(p)
    BY <1>11, <2>1, <2>2, <2>3, AccountIs
  <2>4. CASE e.kind = "append" /\ num' = num
    BY <2>1, <2>2, <2>4
  <2>5. CASE e.kind = "del" /\ num' = Unaccount(p, 1)
    <3>1. (f = Family(p) => num'[f] = IF num[f] > 1 THEN num[f] - 1 ELSE 0) /\ (f # Family(p) => num'[f] = num[f])
      BY <1>11, <2>1, <2>5, AccountIs
    <3>2. e.kind = "del" /\ p \notin W[Total] => p \notin X[Total']
      <4>1. n \in 0..n /\ n + 1 \in 0..(n + 1)
        OBVIOUS
      <4>2. W[Total] = {q \in Prefixes : T[n][q] # None} /\ X[Total'] = {q \in Prefixes : Carried(e, T[n])[q] # None}
        BY <1>1, <1>5, <1>7, <1>9, <4>1
      <4>3. Carried(e, T[n])[p] = Result(e, T[n][p])
        BY <1>3, CarriedIs
      <4> QED
        BY <1>11, <4>2, <4>3 DEF Result
    <3> QED
      BY <2>1, <2>2, <2>5, <3>1, <3>2
  <2> QED
    BY <2>3, <2>4, <2>5
<1>13. L[0] = table
  <2>1. 0 \in 0..n
    OBVIOUS
  <2> QED
    BY <1>2, <1>5, <2>1
<1>14. Upper(L)'
  BY <1>1, <1>5, <1>6, <1>12, <1>13, <1>w DEF Upper
<1> QED
  BY <1>14

\* The first event is carried out, and a replacement given back.
LEMMA UpperTaken ==
  ASSUME FibTypeOK, NEW T, Upper(T), Takes, table' = Carried(At(1), table),
         IF At(1).kind = "replace" /\ table[At(1).prefix] # None THEN num' = Unaccount(At(1).prefix, 1) ELSE num' = num
  PROVE  \E L : Upper(L)'
<1> DEFINE e == At(1)
           p == e.prefix
<1>1. PICK n \in Nat : Total = n /\ n >= 1 /\ Total' = n - 1 /\ \A k \in 1..(n - 1) : At(k)' = At(k + 1)
  BY TookIs DEF Takes
<1>2. /\ T \in [0..n -> Tables] /\ T[0] = table /\ \A k \in 1..n : T[k] = Carried(At(k), T[k - 1])
      /\ \A f \in Families : num[f] <= Bill(Held(T), f)
  BY <1>1 DEF Upper
<1>3. e \in Events /\ p \in Prefixes
  BY TookIs, EventHas DEF Takes
<1>4. PICK L \in [0..(n - 1) -> Tables] : \A k \in 0..(n - 1) : L[k] = T[k + 1]
  <2>1. n \in Nat /\ T \in [0..n -> Tables] /\ n >= 1
    BY <1>1, <1>2
  <2> QED
    <3>1. Shorter(T, n) \in [0..(n - 1) -> Tables] /\ \A k \in 0..(n - 1) : Shorter(T, n)[k] = T[k + 1]
      BY ONLY <2>1, ShorterIs, Zenon
    <3> QED
      BY <3>1
<1>5. ASSUME NEW k \in 1..(n - 1) PROVE L[k] = Carried(At(k)', L[k - 1])
  <2>1. k - 1 \in 0..(n - 1) /\ k \in 0..(n - 1) /\ (k - 1) + 1 = k /\ k + 1 \in 1..n /\ (k + 1) - 1 = k
    BY <1>1
  <2>2. L[k - 1] = T[k] /\ L[k] = T[k + 1] /\ At(k)' = At(k + 1)
    BY <1>1, <1>4, <2>1
  <2> QED
    BY <1>2, <2>1, <2>2
<1>6. L[0] = table'
  <2>1. 0 \in 0..(n - 1) /\ 0 + 1 = 1 /\ 1 \in 1..n /\ 1 - 1 = 0
    BY <1>1
  <2> QED
    BY <1>2, <1>4, <2>1
<1>w. PICK W, X : W = Held(T) /\ X = Held(L)'
  OBVIOUS
<1>7. W \in [0..Total -> SUBSET Prefixes] /\ \A k \in 0..n : W[k] = {q \in Prefixes : T[k][q] # None}
  BY <1>1, <1>w, HeldIs
<1>8. X = [k \in 0..(n - 1) |-> {q \in Prefixes : L[k][q] # None}]
  BY <1>1, <1>w DEF Held
<1>9. X \in [0..Total' -> SUBSET Prefixes] /\ \A k \in 0..(n - 1) : X[k] = {q \in Prefixes : L[k][q] # None}
  BY <1>1, <1>8
<1>10. ASSUME NEW k \in 0..Total' PROVE X[k] = W[k + 1]
  <2>1. k + 1 \in 0..n /\ k \in 0..(n - 1)
    BY <1>1
  <2>2. X[k] = {q \in Prefixes : L[k][q] # None} /\ W[k + 1] = {q \in Prefixes : T[k + 1][q] # None} /\ L[k] = T[k + 1]
    BY <1>4, <1>7, <1>9, <2>1
  <2> QED
    BY <2>2
<1>11. p \in W[0] <=> table[p] # None
  <2>1. 0 \in 0..n
    OBVIOUS
  <2> QED
    BY <1>2, <1>3, <1>7, <2>1
<1>12. ASSUME NEW f \in Families PROVE num'[f] <= Bill(X, f)'
  <2>1. num \in [Families -> Nat] /\ num[f] \in Nat /\ num[f] <= Bill(W, f)
    BY <1>2, <1>w DEF FibTypeOK
  <2>2. /\ Bill(W, f) \in Nat /\ Bill(X, f)' \in Nat
        /\ IF At(1).kind = "replace" /\ Family(At(1).prefix) = f /\ At(1).prefix \in W[0]
             THEN Bill(W, f) = Bill(X, f)' + 1
             ELSE Bill(X, f)' = Bill(W, f)
    BY <1>7, <1>9, <1>10, BillTaken DEF Takes
  <2>3. CASE e.kind = "replace" /\ table[p] # None
    <3>1. (f = Family(p) => num'[f] = IF num[f] > 1 THEN num[f] - 1 ELSE 0) /\ (f # Family(p) => num'[f] = num[f])
      BY <1>3, <2>1, <2>3, AccountIs
    <3>2. IF f = Family(p) THEN Bill(W, f) = Bill(X, f)' + 1 ELSE Bill(X, f)' = Bill(W, f)
      BY <1>11, <2>2, <2>3
    <3> QED
      BY <2>1, <2>2, <3>1, <3>2
  <2>4. CASE ~(e.kind = "replace" /\ table[p] # None)
    <3>1. num' = num /\ Bill(X, f)' = Bill(W, f)
      BY <1>11, <2>2, <2>4
    <3> QED
      BY <2>1, <3>1
  <2> QED
    BY <2>3, <2>4
<1>13. Upper(L)'
  BY <1>1, <1>4, <1>5, <1>6, <1>12, <1>w DEF Upper
<1> QED
  BY <1>13

\* The work makes of the table what its event says.
LEMMA CarriedOut ==
  ASSUME FibBase, FibBase', At(1) \in Events, table'[At(1).prefix] = Result(At(1), table[At(1).prefix]),
         \A q \in Prefixes : q # At(1).prefix => table'[q] = table[q]
  PROVE  table' = Carried(At(1), table)
<1>1. table \in Tables /\ table' \in Tables
  BY DEF FibBase, FibTypeOK, Tables
<1>2. /\ Carried(At(1), table) \in Tables
      /\ \A q \in Prefixes : q # At(1).prefix => Carried(At(1), table)[q] = table[q]
      /\ Carried(At(1), table)[At(1).prefix] = Result(At(1), table[At(1).prefix])
  BY <1>1, CarriedIs
<1>3. \A q \in Prefixes : table'[q] = Carried(At(1), table)[q]
  BY <1>2
<1> QED
  BY <1>1, <1>2, <1>3 DEF Tables

\* The tables are empty and nothing is counted.
LEMMA UpperNew ==
  ASSUME FibTypeOK', Total' = 0, \A f \in Families : num'[f] = 0
  PROVE  \E T : Upper(T)'
<1> DEFINE T == [k \in 0..0 |-> table']
<1>1. table' \in Tables
  BY DEF FibTypeOK, Tables
<1>2. T \in [0..0 -> Tables] /\ T[0] = table' /\ 1..0 = {}
  BY <1>1
<1>3. PICK U : U = T
  OBVIOUS
<1>4. U \in [0..0 -> Tables] /\ U[0] = table' /\ 1..0 = {}
  BY <1>2, <1>3
<1>5. PICK X : X = Held(U)'
  OBVIOUS
<1>6. X = [k \in 0..0 |-> {p \in Prefixes : U[k][p] # None}]
  BY <1>5 DEF Held
<1>7. ASSUME NEW f \in Families PROVE 0 <= Bill(X, f)'
  <2>1. Surplus(X, f)' = {}
    BY <1>4 DEF Surplus
  <2>2. X[0] \cap PrefixesOf(f) \subseteq Prefixes /\ IsFiniteSet(Prefixes)
    BY <1>6, NsimFibAssumption DEF NsimFibAssumption, Prefixes
  <2>3. Cardinality(X[0] \cap PrefixesOf(f)) \in Nat
    BY <2>2, FS_Subset, FS_CardinalityType
  <2>4. Bill(X, f)' = Cardinality(X[0] \cap PrefixesOf(f)) + 0
    BY <2>1, FS_EmptySet DEF Bill
  <2> QED
    BY <2>3, <2>4
<1>8. Upper(U)'
  BY <1>4, <1>5, <1>7 DEF Upper
<1> QED
  BY <1>8

\* With no event outstanding, no more is counted than there are entries.
LEMMA UpperSettled ==
  ASSUME FibTypeOK, Total = 0, NEW T, Upper(T), NEW f \in Families
  PROVE  num[f] <= Cardinality({p \in PrefixesOf(f) : table[p] # None})
<1>1. T[0] = table /\ num[f] <= Bill(Held(T), f)
  BY DEF Upper
<1>2. Held(T)[Total] = {p \in Prefixes : table[p] # None}
  <2>1. \A k \in 0..0 : Held(T)[k] = {p \in Prefixes : T[k][p] # None}
    BY HeldIs
  <2> QED
    BY <1>1, <2>1
<1>3. Held(T)[Total] \cap PrefixesOf(f) = {p \in PrefixesOf(f) : table[p] # None}
  BY <1>2 DEF PrefixesOf
<1>4. Surplus(Held(T), f) = {}
  BY DEF Surplus
<1>5. Cardinality({p \in PrefixesOf(f) : table[p] # None}) \in Nat
  <2>1. {p \in PrefixesOf(f) : table[p] # None} \subseteq Prefixes
    BY DEF PrefixesOf
  <2> QED
    BY <2>1, NsimFibAssumption, FS_Subset, FS_CardinalityType DEF NsimFibAssumption, Prefixes
<1>6. Bill(Held(T), f) = Cardinality({p \in PrefixesOf(f) : table[p] # None})
  <2>1. PICK a \in Nat : a = Cardinality({p \in PrefixesOf(f) : table[p] # None})
    BY <1>5
  <2>2. Cardinality(Held(T)[Total] \cap PrefixesOf(f)) = a
    BY <1>3, <2>1
  <2>3. Cardinality(Surplus(Held(T), f)) = 0
    BY <1>4, FS_EmptySet
  <2>4. Bill(Held(T), f) = a + 0
    BY <2>2, <2>3 DEF Bill
  <2> QED
    BY <2>1, <2>4
<1> QED
  BY <1>1, <1>6

\* Every step keeps the upper bound.
LEMMA UpperStep ==
  ASSUME FibBase, UpperInv, [FibNext]_fibVars
  PROVE  UpperInv'
<1> SUFFICES ASSUME failed' = {} PROVE \E T : Upper(T)'
  BY DEF UpperInv
<1>0. FibTypeOK /\ num \in [Families -> Nat]
  BY DEF FibBase, FibTypeOK
<1>b. FibBase' /\ FibTypeOK'
  BY BaseStep DEF FibBase
<1>h. ASSUME failed \subseteq failed' PROVE \E T : Upper(T)
  BY <1>h DEF UpperInv
<1>s. ASSUME Total' = Total, \A k \in 1..Total : At(k)' = At(k), table' = table, num' = num, failed' = failed
      PROVE  \E T : Upper(T)'
  BY <1>h, <1>s, UpperKept
<1>e. ASSUME ev' = ev, queue' = queue, table' = table, num' = num, failed' = failed PROVE \E T : Upper(T)'
  BY <1>e, <1>s, SameEvents
<1>1. CASE UNCHANGED fibVars
  BY <1>1, <1>e DEF fibVars
<1>2. ASSUME NEW p \in Prefixes, NEW e \in Events, NEW R, RouteChange(p, e, R), failed \subseteq failed', e.prefix = p,
             Registered =>
               \/ e.kind = "replace" /\ num' = Account(p)
               \/ e.kind = "append" /\ num' = num
               \/ e.kind = "del" /\ num' = Unaccount(p, 1)
      PROVE  \E T : Upper(T)'
  <2>1. PICK T : Upper(T)
    BY <1>h, <1>2
  <2>2. CASE Registered
    BY <1>0, <1>2, <2>1, <2>2, UpperExtended DEF RouteChange
  <2>3. CASE ~Registered
    BY <2>1, <2>3, <1>2, SameEvents, UpperKept DEF RouteChange
  <2> QED
    BY <2>2, <2>3
<1>3. ASSUME NEW p \in Prefixes, RouteReplace(p) PROVE \E T : Upper(T)'
  <2>1. PICK S \in SUBSET InfosOf(p) :
           /\ Event("replace", p, S) \in Events /\ RouteChange(p, Event("replace", p, S), S)
           /\ (Registered => num' = Account(p)) /\ failed' = failed
    BY <1>0, <1>3, ReplaceIs
  <2>2. Event("replace", p, S).prefix = p /\ Event("replace", p, S).kind = "replace"
    BY DEF Event
  <2> QED
    BY <1>2, <2>1, <2>2
<1>4. ASSUME NEW p \in Prefixes, RouteAppend(p) PROVE \E T : Upper(T)'
  <2>1. PICK S \in SUBSET InfosOf(p) :
           /\ Event("append", p, S) \in Events /\ RouteChange(p, Event("append", p, S), kernel[p] \cup S)
           /\ num' = num /\ failed' = failed
    BY <1>0, <1>4, AppendIs
  <2>2. Event("append", p, S).prefix = p /\ Event("append", p, S).kind = "append"
    BY DEF Event
  <2> QED
    BY <1>2, <2>1, <2>2
<1>5. ASSUME NEW p \in Prefixes, NEW S \in SUBSET kernel[p], RouteDel(p, S) PROVE \E T : Upper(T)'
  <2>1. /\ Event("del", p, S) \in Events /\ RouteChange(p, Event("del", p, S), kernel[p] \ S)
        /\ (Registered => num' = Unaccount(p, 1)) /\ failed \subseteq failed'
    BY <1>0, <1>5, DelIs
  <2>2. Event("del", p, S).prefix = p /\ Event("del", p, S).kind = "del"
    BY DEF Event
  <2> QED
    BY <1>2, <2>1, <2>2
<1>6. ASSUME NEW p \in Prefixes, NEW S \in SUBSET kernel[p], RouteDelFails(p, S) PROVE \E T : Upper(T)'
  BY <1>6, BaseDelFails
<1>v. ASSUME NEW p \in Prefixes, RouteVeto(p) PROVE \E T : Upper(T)'
  BY <1>v, BaseVeto
<1>7. ASSUME NEW p \in Prefixes, DumpEntry(p) PROVE \E T : Upper(T)'
  <2>1. CASE Dumped(p) /\ kernel[p] = {} /\ num' = num /\ queue' = queue /\ ev' = ev
    BY <1>e, <2>1 DEF Dumped
  <2>2. CASE /\ Dumped(p) /\ kernel[p] # {} /\ num' = Account(p)
             /\ Event("replace", p, kernel[p]) \in Events
             /\ ScheduleEvent(Event("replace", p, kernel[p]))
    <3>1. PICK T : Upper(T)
      BY <1>h, <2>2 DEF Dumped
    <3>2. Event("replace", p, kernel[p]).prefix = p /\ Event("replace", p, kernel[p]).kind = "replace" /\ table' = table
      BY <2>2 DEF Event, Dumped
    <3> QED
      BY <1>0, <2>2, <3>1, <3>2, UpperExtended
  <2>3. CASE phase' = "cancel"
    <3>1. num' = num /\ queue' = queue /\ ev' = ev /\ table' = table /\ failed' = failed
      BY <1>7, <2>3 DEF DumpEntry
    <3> QED
      BY <1>e, <3>1
  <2> QED
    BY <1>7, <2>1, <2>2, <2>3, DumpEntryIs
<1>8. CASE WorkAdd \/ WorkReplace \/ WorkInsertFails \/ WorkAppend \/ WorkAppendFails \/ WorkDel4 \/ WorkDel6
  <2> DEFINE e == At(1)
             p == e.prefix
  <2>0. /\ Takes /\ failed' = failed /\ table'[p] = Result(e, table[p]) /\ \A q \in Prefixes : q # p => table'[q] = table[q]
        /\ IF e.kind = "replace" /\ table[p] # None THEN num' = Unaccount(p, 1) ELSE num' = num
    <3>1. CASE WorkAdd
      BY <3>1, AddIs DEF Result
    <3>2. CASE WorkReplace
      BY <3>2, ReplacedIs DEF Result
    <3>3. CASE WorkInsertFails
      BY <3>3, InsertFailsIs
    <3>4. CASE WorkAppend
      BY <3>4, AppendedIs DEF Result
    <3>5. CASE WorkAppendFails
      BY <3>5, AppendFailsIs DEF Result
    <3>6. CASE WorkDel4
      <4>1. /\ Takes /\ failed' = failed /\ table'[p] = None /\ \A q \in Prefixes : q # p => table'[q] = table[q]
            /\ e.kind = "del" /\ p \notin Prefixes6 /\ num' = num
        BY <3>6, Del4Is, NsimFibAssumption DEF NsimFibAssumption
      <4> QED
        BY <4>1 DEF Result
    <3>7. CASE WorkDel6
      BY <3>7, Del6Is DEF Result
    <3> QED
      BY <1>8, <3>1, <3>2, <3>3, <3>4, <3>5, <3>6, <3>7
  <2>1. PICK T : Upper(T)
    BY <1>h, <2>0
  <2>2. At(1) \in Events
    BY <1>0, <2>0, TookIs DEF Takes
  <2>3. table' = Carried(At(1), table)
    BY <1>b, <2>0, <2>2, CarriedOut
  <2> QED
    BY <1>0, <2>0, <2>1, <2>3, UpperTaken
<1>9. CASE WorkSplice
  BY <1>9, <1>s, SpliceIs
<1>10. CASE WorkLock \/ WorkEnd
  BY <1>10, <1>s, LockIs, EndIs, SameEvents
<1>11. CASE FlushBegin
  BY <1>11, <1>e, FlushBeginIs
<1>12. CASE FlushTable
  BY <1>12, FlushTableIs
<1>13. CASE DumpRegister \/ DumpCheck \/ DestroyUnregister \/ DestroyCancel
  BY <1>13, <1>e, PhasesAre
<1>14. CASE CreateBegin
  <2>1. Total' = 0 /\ num' = [f \in Families |-> 0]
    BY <1>14, CreateIs
  <2> QED
    BY <1>b, <2>1, UpperNew
<1>15. CASE DumpInconsistent \/ DestroyFree
  <2>1. Total = 0 /\ Total' = 0 /\ FreeTable /\ failed' = failed
    BY <1>15, EmptiedIs
  <2>2. PICK T : Upper(T)
    BY <1>h, <2>1
  <2>3. ASSUME NEW f \in Families PROVE num'[f] = 0
    <3> DEFINE c == Cardinality({p \in PrefixesOf(f) : table[p] # None})
    <3>1. num[f] <= c
      BY <1>0, <2>1, <2>2, UpperSettled
    <3>2. num'[f] = IF num[f] > c THEN num[f] - c ELSE 0
      BY <2>1 DEF FreeTable
    <3>3. num[f] \in Nat /\ c \in Nat
      <4>1. {p \in PrefixesOf(f) : table[p] # None} \subseteq Prefixes
        BY DEF PrefixesOf
      <4> QED
        BY <1>0, <4>1, NsimFibAssumption, FS_Subset, FS_CardinalityType DEF NsimFibAssumption, Prefixes
    <3> HIDE DEF c
    <3> QED
      BY <3>1, <3>2, <3>3
  <2> QED
    BY <1>b, <2>1, <2>3, UpperNew
<1> QED
  BY <1>1, <1>3, <1>4, <1>5, <1>6, <1>v, <1>7, <1>8, <1>9, <1>10, <1>11, <1>12, <1>13, <1>14, <1>15 DEF FibNext

\* It holds of the initial state, which has one table.
LEMMA UpperInit ==
  ASSUME FibInit
  PROVE  UpperInv
<1>0. FibTypeOK /\ Total = 0 /\ \A f \in Families : num[f] = 0
  <2>1. FibTypeOK /\ WorkInv /\ EventWorkDone
    BY BaseInit DEF FibBase, FibInit, EventWorkDone
  <2> QED
    BY <2>1, NoneLeft DEF FibInit
<1> DEFINE J == [k \in 0..0 |-> table]
<1>1. table \in Tables
  BY <1>0 DEF FibTypeOK, Tables
<1>2. PICK T : T \in [0..0 -> Tables] /\ T[0] = table
  <2>1. J \in [0..0 -> Tables] /\ J[0] = table
    BY <1>1
  <2> QED
    BY <2>1
<1>3. 1..0 = {}
  OBVIOUS
<1>4. ASSUME NEW f \in Families PROVE num[f] <= Bill(Held(T), f)
  <2>1. Held(T)[Total] \in SUBSET Prefixes
    BY <1>0, HeldIs
  <2>2. Bill(Held(T), f) \in Nat
    BY <1>0, <2>1, BillIs
  <2> QED
    BY <1>0, <2>2
<1>5. Upper(T)
  BY <1>0, <1>2, <1>3, <1>4 DEF Upper
<1> QED
  BY <1>5 DEF UpperInv

-----------------------------------------------------------------------------
(* What the notifier has counted at least. *)

\* The kernel's routes.
Routings == [Prefixes -> SUBSET Infos]

\* The prefixes with a route in each of the kernel's tables.
Live(K) == [k \in 0..Total |-> {p \in Prefixes : K[k][p] # {}}]

\* An event that makes of the routes A the routes B, if no sibling is deleted.
Passes(e, A, B) ==
  /\ \A q \in Prefixes : q # e.prefix => B[q] = A[q]
  /\ e.kind = "replace" => B[e.prefix] = e.infos
  /\ e.kind = "append" => A[e.prefix] # {} /\ B[e.prefix] = A[e.prefix] \cup e.infos
  /\ e.kind = "del" => A[e.prefix] = e.infos /\ B[e.prefix] = {}

\* Entries that are not the route, which the next replacement gives back too.
Stale(A) == {p \in Prefixes : table[p] # None /\ (table[p] # A[p] \/ A[p] = {})}

\* K are the kernel's routes before and after each event: no less is counted.
Lower(K) ==
  /\ K \in [0..Total -> Routings]
  /\ \A k \in 1..Total : Passes(At(k), K[k - 1], K[k])
  /\ \A p \in Prefixes : K[Total][p] = IF p \in dump.todo THEN {} ELSE kernel[p]
  /\ \A f \in Families : num[f] >= Bill(Live(K), f) + Cardinality(Stale(K[0]) \cap PrefixesOf(f))

\* None of the failures that count too little.
Counted == failed \cap {"delete", "insertion", "sibling", "veto", "append"} = {}

\* Of every event the notifier has heard of.
LowerInv == Told /\ Counted => \E K : Lower(K)

\* The entries that are not the route are finitely many.
LEMMA StaleIs ==
  ASSUME NEW A \in SUBSET Prefixes, NEW f
  PROVE  Cardinality(A \cap PrefixesOf(f)) \in Nat
<1>1. A \cap PrefixesOf(f) \subseteq Prefixes /\ IsFiniteSet(Prefixes)
  BY NsimFibAssumption DEF NsimFibAssumption, Prefixes
<1> QED
  BY <1>1, FS_Subset, FS_CardinalityType

\* The prefixes with a route, as a history.
LEMMA LiveIs ==
  ASSUME NEW n \in Nat, n = Total, NEW K
  PROVE  /\ Live(K) \in [0..Total -> SUBSET Prefixes]
         /\ \A k \in 0..n : Live(K)[k] = {p \in Prefixes : K[k][p] # {}}
BY DEF Live

\* The same events, table, routes and count.
LEMMA LowerKept ==
  ASSUME NEW K, Lower(K), Total' = Total, \A k \in 1..Total : At(k)' = At(k), table' = table, num' = num,
         \A p \in Prefixes :
           (IF p \in dump'.todo THEN {} ELSE kernel'[p]) = (IF p \in dump.todo THEN {} ELSE kernel[p])
  PROVE  Lower(K)'
<1>1. Live(K)' = Live(K) /\ Stale(K[0])' = Stale(K[0])
  BY DEF Live, Stale
<1>2. ASSUME NEW f \in Families
      PROVE  Bill(Live(K), f)' = Bill(Live(K), f)
  <2>1. Surplus(Live(K), f)' = Surplus(Live(K), f)
    BY <1>1 DEF Surplus
  <2> QED
    BY <1>1, <2>1 DEF Bill
<1>3. ASSUME NEW f \in Families
      PROVE  num'[f] >= Bill(Live(K), f)' + Cardinality(Stale(K[0])' \cap PrefixesOf(f))
  BY <1>1, <1>2 DEF Lower
<1>4. \A p \in Prefixes : K[Total'][p] = IF p \in dump'.todo THEN {} ELSE kernel'[p]
  BY DEF Lower
<1>5. K \in [0..Total' -> Routings]
  BY DEF Lower
<1>6. ASSUME NEW k \in 1..Total' PROVE Passes(At(k), K[k - 1], K[k])'
  <2>1. At(k)' = At(k) /\ Passes(At(k), K[k - 1], K[k])
    BY DEF Lower
  <2> QED
    BY <2>1 DEF Passes
<1> QED
  BY <1>3, <1>4, <1>5, <1>6 DEF Lower

\* An event is announced, and counted.
LEMMA LowerExtended ==
  ASSUME FibTypeOK, NEW K, Lower(K), NEW e \in Events, ScheduleEvent(e), table' = table,
         NEW B \in Routings, Passes(e, K[Total], B),
         \A q \in Prefixes : B[q] = IF q \in dump'.todo THEN {} ELSE kernel'[q],
         \/ e.kind = "replace" /\ num' = Account(e.prefix)
         \/ e.kind = "append" /\ num' = num
         \/ e.kind = "del" /\ num' = Unaccount(e.prefix, 1)
  PROVE  \E L : Lower(L)'
<1> DEFINE p == e.prefix
<1>1. PICK n \in Nat : Total = n /\ Total' = n + 1 /\ At(Total)' = e /\ \A k \in 1..n : At(k)' = At(k)
  BY ScheduledIs
<1>2. /\ K \in [0..n -> Routings] /\ \A k \in 1..n : Passes(At(k), K[k - 1], K[k])
      /\ \A f \in Families : num[f] >= Bill(Live(K), f) + Cardinality(Stale(K[0]) \cap PrefixesOf(f))
  BY <1>1 DEF Lower
<1>3. p \in Prefixes /\ e.infos # {} /\ e.kind \in Kinds
  BY EventHas
<1>4. PICK L \in [0..(n + 1) -> Routings] : L[n + 1] = B /\ \A k \in 0..n : L[k] = K[k]
  <2>1. \A k \in 0..(n + 1) : k <= n => k \in 0..n
    OBVIOUS
  <2>2. /\ Longer(K, n, B) \in [0..(n + 1) -> Routings] /\ Longer(K, n, B)[n + 1] = B
        /\ \A k \in 0..n : Longer(K, n, B)[k] = K[k]
    BY <1>2, <2>1 DEF Longer
  <2> QED
    BY <2>2
<1>5. ASSUME NEW k \in 1..(n + 1) PROVE Passes(At(k)', L[k - 1], L[k])
  <2>1. CASE k \in 1..n
    <3>1. k \in 0..n /\ k - 1 \in 0..n
      BY <2>1
    <3>2. L[k] = K[k] /\ L[k - 1] = K[k - 1] /\ At(k)' = At(k)
      BY <1>1, <1>4, <2>1, <3>1
    <3> QED
      BY <1>2, <2>1, <3>2
  <2>2. CASE k = n + 1
    <3>1. k - 1 = n /\ n \in 0..n
      BY <2>2
    <3>2. At(k)' = e /\ L[k - 1] = K[Total] /\ L[k] = B
      BY <1>1, <1>4, <2>2, <3>1
    <3> QED
      BY <3>2
  <2> QED
    BY <2>1, <2>2
<1>w. PICK W, X : W = Live(K) /\ X = Live(L)'
  OBVIOUS
<1>7. W \in [0..Total -> SUBSET Prefixes] /\ \A k \in 0..n : W[k] = {q \in Prefixes : K[k][q] # {}}
  BY <1>1, <1>w, LiveIs
<1>8. X = [k \in 0..(n + 1) |-> {q \in Prefixes : L[k][q] # {}}]
  BY <1>1, <1>w DEF Live
<1>9. X \in [0..Total' -> SUBSET Prefixes] /\ \A k \in 0..(n + 1) : X[k] = {q \in Prefixes : L[k][q] # {}}
  BY <1>1, <1>8
<1>10. ASSUME NEW k \in 0..Total PROVE X[k] = W[k]
  <2>1. k \in 0..n /\ k \in 0..(n + 1)
    BY <1>1
  <2>2. X[k] = {q \in Prefixes : L[k][q] # {}} /\ W[k] = {q \in Prefixes : K[k][q] # {}} /\ L[k] = K[k]
    BY <1>4, <1>7, <1>9, <2>1
  <2> QED
    BY <2>2
<1>11. /\ \A q \in Prefixes : q # p => (q \in W[Total] <=> q \in X[Total'])
       /\ e.kind = "replace" => p \in X[Total']
       /\ e.kind = "append" => (p \in W[Total] <=> p \in X[Total'])
       /\ e.kind = "del" => p \in W[Total] /\ p \notin X[Total']
  <2>1. n \in 0..n /\ n + 1 \in 0..(n + 1)
    OBVIOUS
  <2>2. W[Total] = {q \in Prefixes : K[Total][q] # {}} /\ X[Total'] = {q \in Prefixes : B[q] # {}}
    BY <1>1, <1>4, <1>7, <1>9, <2>1
  <2> QED
    BY <1>3, <2>2 DEF Passes
<1>12. Stale(L[0])' = Stale(K[0])
  <2>1. 0 \in 0..n
    OBVIOUS
  <2>2. L[0] = K[0]
    BY <1>4, <2>1
  <2> QED
    BY <2>2 DEF Stale
<1>13. ASSUME NEW f \in Families PROVE num'[f] >= Bill(X, f)' + Cardinality(Stale(K[0]) \cap PrefixesOf(f))
  <2>0. PICK s \in Nat : s = Cardinality(Stale(K[0]) \cap PrefixesOf(f))
    <3>1. Stale(K[0]) \in SUBSET Prefixes
      BY DEF Stale
    <3> QED
      BY <3>1, StaleIs
  <2>1. num \in [Families -> Nat] /\ num[f] \in Nat /\ num[f] >= Bill(W, f) + s
    BY <1>2, <1>w, <2>0 DEF FibTypeOK
  <2>2. /\ Bill(W, f) \in Nat /\ Bill(X, f)' \in Nat
        /\ f # Family(p) => Bill(X, f)' = Bill(W, f)
        /\ f = Family(p) /\ e.kind = "replace" => Bill(X, f)' = Bill(W, f) + 1
        /\ e.kind = "append" => Bill(X, f)' = Bill(W, f)
        /\ f = Family(p) /\ e.kind = "del" => Bill(W, f) = Bill(X, f)' + 1
    <3>1. /\ Bill(W, f) \in Nat /\ Bill(X, f)' \in Nat
          /\ f # Family(e.prefix) => Bill(X, f)' = Bill(W, f)
          /\ f = Family(e.prefix) /\ e.kind = "replace" /\ e.prefix \in X[Total'] => Bill(X, f)' = Bill(W, f) + 1
          /\ e.kind # "replace" /\ (e.prefix \in W[Total] <=> e.prefix \in X[Total']) => Bill(X, f)' = Bill(W, f)
          /\ f = Family(e.prefix) /\ e.kind = "del" /\ e.prefix \in W[Total] /\ e.prefix \notin X[Total']
               => Bill(W, f) = Bill(X, f)' + 1
      BY <1>7, <1>9, <1>10, <1>11, BillExtended
    <3> QED
      BY <1>11, <3>1
  <2>3. CASE e.kind = "replace" /\ num' = Account(p)
    <3>1. (f = Family(p) => num'[f] = num[f] + 1) /\ (f # Family(p) => num'[f] = num[f])
      BY <1>3, <2>1, <2>3, AccountIs
    <3>2. num'[f] >= Bill(X, f)' + s
      BY <2>1, <2>2, <2>3, <3>1
    <3> QED
      BY <2>0, <3>2
  <2>4. CASE e.kind = "append" /\ num' = num
    BY <2>0, <2>1, <2>2, <2>4
  <2>5. CASE e.kind = "del" /\ num' = Unaccount(p, 1)
    <3>1. (f = Family(p) => num'[f] = IF num[f] > 1 THEN num[f] - 1 ELSE 0) /\ (f # Family(p) => num'[f] = num[f])
      BY <1>3, <2>1, <2>5, AccountIs
    <3>2. num'[f] >= Bill(X, f)' + s
      BY <2>1, <2>2, <2>5, <3>1
    <3> QED
      BY <2>0, <3>2
  <2> QED
    BY <2>3, <2>4, <2>5
<1>14. \A q \in Prefixes : L[Total'][q] = IF q \in dump'.todo THEN {} ELSE kernel'[q]
  BY <1>1, <1>4
<1>15. \A k \in 1..Total' : Passes(At(k), L[k - 1], L[k])'
  BY <1>1, <1>5 DEF Passes
<1>16. Lower(L)'
  BY <1>1, <1>4, <1>12, <1>13, <1>14, <1>15, <1>w DEF Lower
<1> QED
  BY <1>16

\* What the work does with an event, if it fails in no way that is not counted.
Does(e, p) ==
  \/ e.kind = "replace" /\ table[p] = None /\ table'[p] = e.infos /\ num' = num
  \/ e.kind = "replace" /\ table[p] # None /\ table'[p] = e.infos /\ num' = Unaccount(p, 1)
  \/ e.kind = "replace" /\ table'[p] = table[p] /\ num' = num
  \/ e.kind = "append" /\ table[p] = None /\ table'[p] = None /\ num' = num
  \/ e.kind = "append" /\ table[p] # None /\ table'[p] = table[p] \cup e.infos /\ num' = num
  \/ e.kind = "del" /\ table'[p] = None /\ num' = num
  \/ e.kind = "del" /\ Cardinality(e.infos) # Cardinality(table[p]) /\ table[p] # None /\ num' = num

\* An entry is no route after an event only if it was none before, or if the
\* replacement of a route failed.
LEMMA StaleTaken ==
  ASSUME NEW e \in Events, NEW A, NEW B, Passes(e, A, B), Does(e, e.prefix),
         \A q \in Prefixes : q # e.prefix => table'[q] = table[q]
  PROVE  LET p == e.prefix
             S == Stale(A)
             T == Stale(B)'
         IN  /\ S \in SUBSET Prefixes /\ T \in SUBSET Prefixes
             /\ \A q \in Prefixes : q # p => (q \in S <=> q \in T)
             /\ \/ num' = num /\ (p \in T => p \in S)
                \/ num' = num /\ e.kind = "replace" /\ A[p] # {}
                \/ num' = Unaccount(p, 1) /\ p \notin T /\ e.kind = "replace" /\ (A[p] # {} \/ p \in S)
<1> DEFINE p == e.prefix
           S == Stale(A)
           T == Stale(B)'
<1>1. p \in Prefixes /\ e.infos # {} /\ e.infos # None
  BY EventHas, NotNone
<1>2. S = {q \in Prefixes : table[q] # None /\ (table[q] # A[q] \/ A[q] = {})}
  BY DEF Stale
<1>3. T = {q \in Prefixes : table'[q] # None /\ (table'[q] # B[q] \/ B[q] = {})}
  BY DEF Stale
<1> HIDE DEF S, T
<1>4. S \in SUBSET Prefixes /\ T \in SUBSET Prefixes
  BY <1>2, <1>3
<1>5. ASSUME NEW q \in Prefixes, q # p PROVE q \in S <=> q \in T
  <2>1. table'[q] = table[q] /\ B[q] = A[q]
    BY <1>5 DEF Passes
  <2> QED
    BY <1>2, <1>3, <2>1
<1>6. /\ p \in S <=> table[p] # None /\ (table[p] # A[p] \/ A[p] = {})
      /\ p \in T <=> table'[p] # None /\ (table'[p] # B[p] \/ B[p] = {})
  BY <1>1, <1>2, <1>3
<1>7. /\ e.kind = "replace" => B[p] = e.infos
      /\ e.kind = "append" => A[p] # {} /\ B[p] = A[p] \cup e.infos
      /\ e.kind = "del" => A[p] = e.infos
  BY DEF Passes
<1>8. \/ num' = num /\ (p \in T => p \in S)
      \/ num' = num /\ e.kind = "replace" /\ A[p] # {}
      \/ num' = Unaccount(p, 1) /\ p \notin T /\ e.kind = "replace" /\ (A[p] # {} \/ p \in S)
  <2>1. CASE e.kind = "replace"
    BY <1>1, <1>6, <1>7, <2>1 DEF Does
  <2>2. CASE e.kind = "append"
    BY <1>1, <1>6, <1>7, <2>2 DEF Does
  <2>3. CASE e.kind = "del"
    BY <1>6, <1>7, <2>3 DEF Does
  <2> QED
    BY <2>1, <2>2, <2>3 DEF Does
<1> QED
  BY <1>4, <1>5, <1>8 DEF S, T

\* The first event is carried out.
LEMMA LowerTaken ==
  ASSUME FibTypeOK, NEW K, Lower(K), Takes, Does(At(1), At(1).prefix),
         \A q \in Prefixes : q # At(1).prefix => table'[q] = table[q]
  PROVE  \E L : Lower(L)'
<1>0. PICK e, p : e = At(1) /\ p = e.prefix
  OBVIOUS
<1>1. PICK n \in Nat : Total = n /\ n >= 1 /\ Total' = n - 1 /\ \A k \in 1..(n - 1) : At(k)' = At(k + 1)
  BY TookIs DEF Takes
<1>2. /\ K \in [0..n -> Routings] /\ \A k \in 1..n : Passes(At(k), K[k - 1], K[k])
      /\ \A q \in Prefixes : K[n][q] = IF q \in dump.todo THEN {} ELSE kernel[q]
      /\ \A f \in Families : num[f] >= Bill(Live(K), f) + Cardinality(Stale(K[0]) \cap PrefixesOf(f))
  BY <1>1 DEF Lower
<1>3. e \in Events /\ p \in Prefixes
  BY <1>0, TookIs, EventHas DEF Takes
<1>4. PICK L \in [0..(n - 1) -> Routings] : \A k \in 0..(n - 1) : L[k] = K[k + 1]
  <2>1. n \in Nat /\ K \in [0..n -> Routings] /\ n >= 1
    BY <1>1, <1>2
  <2>2. Shorter(K, n) \in [0..(n - 1) -> Routings] /\ \A k \in 0..(n - 1) : Shorter(K, n)[k] = K[k + 1]
    BY ONLY <2>1, ShorterIs, Zenon
  <2> QED
    BY <2>2
<1>5. ASSUME NEW k \in 1..(n - 1) PROVE Passes(At(k)', L[k - 1], L[k])
  <2>1. k - 1 \in 0..(n - 1) /\ k \in 0..(n - 1) /\ (k - 1) + 1 = k /\ k + 1 \in 1..n /\ (k + 1) - 1 = k
    BY <1>1
  <2>2. L[k - 1] = K[k] /\ L[k] = K[k + 1] /\ At(k)' = At(k + 1)
    BY <1>1, <1>4, <2>1
  <2> QED
    BY <1>2, <2>1, <2>2
<1>6. Passes(e, K[0], L[0])
  <2>1. 0 \in 0..(n - 1) /\ 0 + 1 = 1 /\ 1 \in 1..n /\ 1 - 1 = 0
    BY <1>1
  <2> QED
    BY <1>0, <1>2, <1>4, <2>1
<1>w. PICK W, X, S, T : W = Live(K) /\ X = Live(L)' /\ S = Stale(K[0]) /\ T = Stale(L[0])'
  OBVIOUS
<1>7. W \in [0..Total -> SUBSET Prefixes] /\ \A k \in 0..n : W[k] = {q \in Prefixes : K[k][q] # {}}
  BY <1>1, <1>w, LiveIs
<1>8. X = [k \in 0..(n - 1) |-> {q \in Prefixes : L[k][q] # {}}]
  BY <1>1, <1>w DEF Live
<1>9. X \in [0..Total' -> SUBSET Prefixes] /\ \A k \in 0..(n - 1) : X[k] = {q \in Prefixes : L[k][q] # {}}
  BY <1>1, <1>8
<1>10. ASSUME NEW k \in 0..Total' PROVE X[k] = W[k + 1]
  <2>1. k + 1 \in 0..n /\ k \in 0..(n - 1)
    BY <1>1
  <2>2. X[k] = {q \in Prefixes : L[k][q] # {}} /\ W[k + 1] = {q \in Prefixes : K[k + 1][q] # {}} /\ L[k] = K[k + 1]
    BY <1>4, <1>7, <1>9, <2>1
  <2> QED
    BY <2>2
<1>11. p \in W[0] <=> K[0][p] # {}
  <2>1. 0 \in 0..n
    OBVIOUS
  <2> QED
    BY <1>3, <1>7, <2>1
<1>12. /\ S \in SUBSET Prefixes /\ T \in SUBSET Prefixes
       /\ \A q \in Prefixes : q # p => (q \in S <=> q \in T)
       /\ \/ num' = num /\ (p \in T => p \in S)
          \/ num' = num /\ e.kind = "replace" /\ p \in W[0]
          \/ num' = Unaccount(p, 1) /\ p \notin T /\ e.kind = "replace" /\ (p \in W[0] \/ p \in S)
  <2>1. /\ Stale(K[0]) \in SUBSET Prefixes /\ Stale(L[0])' \in SUBSET Prefixes
        /\ \A q \in Prefixes : q # e.prefix => (q \in Stale(K[0]) <=> q \in Stale(L[0])')
        /\ \/ num' = num /\ (e.prefix \in Stale(L[0])' => e.prefix \in Stale(K[0]))
           \/ num' = num /\ e.kind = "replace" /\ K[0][e.prefix] # {}
           \/ /\ num' = Unaccount(e.prefix, 1) /\ e.prefix \notin Stale(L[0])'
              /\ e.kind = "replace" /\ (K[0][e.prefix] # {} \/ e.prefix \in Stale(K[0]))
    <3>1. Does(e, e.prefix) /\ \A q \in Prefixes : q # e.prefix => table'[q] = table[q]
      BY <1>0
    <3> QED
      BY <1>3, <1>6, <3>1, StaleTaken
  <2> QED
    BY <1>0, <1>11, <1>w, <2>1
<1>13. ASSUME NEW f \in Families PROVE num'[f] >= Bill(X, f)' + Cardinality(T \cap PrefixesOf(f))
  <2>1. /\ Cardinality(S \cap PrefixesOf(f)) \in Nat /\ Cardinality(T \cap PrefixesOf(f)) \in Nat
        /\ f # Family(p) => Cardinality(T \cap PrefixesOf(f)) = Cardinality(S \cap PrefixesOf(f))
        /\ (p \in S <=> p \in T) => Cardinality(T \cap PrefixesOf(f)) = Cardinality(S \cap PrefixesOf(f))
        /\ f = Family(p) =>
              /\ p \in S /\ p \notin T => Cardinality(S \cap PrefixesOf(f)) = Cardinality(T \cap PrefixesOf(f)) + 1
              /\ p \notin S /\ p \in T => Cardinality(T \cap PrefixesOf(f)) = Cardinality(S \cap PrefixesOf(f)) + 1
    BY <1>3, <1>12, OneOfFamily
  <2>2. PICK s \in Nat, t \in Nat : s = Cardinality(S \cap PrefixesOf(f)) /\ t = Cardinality(T \cap PrefixesOf(f))
    BY <2>1
  <2>3. /\ f # Family(p) => t = s
        /\ (p \in S <=> p \in T) => t = s
        /\ f = Family(p) /\ p \in S /\ p \notin T => s = t + 1
        /\ f = Family(p) /\ p \notin S /\ p \in T => t = s + 1
    BY <2>1, <2>2
  <2>4. PICK b \in Nat, c \in Nat : /\ b = Bill(W, f) /\ c = Bill(X, f)'
          /\ IF e.kind = "replace" /\ Family(p) = f /\ p \in W[0] THEN b = c + 1 ELSE c = b
    <3>1. /\ Bill(W, f) \in Nat /\ Bill(X, f)' \in Nat
          /\ IF At(1).kind = "replace" /\ Family(At(1).prefix) = f /\ At(1).prefix \in W[0]
               THEN Bill(W, f) = Bill(X, f)' + 1
               ELSE Bill(X, f)' = Bill(W, f)
      BY <1>7, <1>9, <1>10, BillTaken DEF Takes
    <3> QED
      BY <1>0, <3>1
  <2>5. num \in [Families -> Nat] /\ num[f] \in Nat /\ num[f] >= b + s
    BY <1>2, <1>w, <2>2, <2>4 DEF FibTypeOK
  <2>6. CASE num' = num /\ (p \in T => p \in S)
    <3>1. t <= s
      BY <2>3, <2>6
    <3>2. c <= b
      BY <2>4
    <3>3. num'[f] >= c + t
      BY <2>5, <2>6, <3>1, <3>2
    <3> QED
      BY <2>2, <2>4, <3>3
  <2>7. CASE num' = num /\ e.kind = "replace" /\ p \in W[0]
    <3>1. num'[f] >= c + t
      BY <2>3, <2>4, <2>5, <2>7
    <3> QED
      BY <2>2, <2>4, <3>1
  <2>8. CASE num' = Unaccount(p, 1) /\ p \notin T /\ e.kind = "replace" /\ (p \in W[0] \/ p \in S)
    <3>1. (f = Family(p) => num'[f] = IF num[f] > 1 THEN num[f] - 1 ELSE 0) /\ (f # Family(p) => num'[f] = num[f])
      <4>1. /\ Unaccount(p, 1)[Family(p)] = IF num[Family(p)] > 1 THEN num[Family(p)] - 1 ELSE 0
            /\ \A g \in Families : g # Family(p) => Unaccount(p, 1)[g] = num[g]
        BY <1>3, <2>5, AccountIs
      <4> QED
        BY <2>8, <4>1
    <3>2. num'[f] >= c + t
      BY <2>3, <2>4, <2>5, <2>8, <3>1
    <3> QED
      BY <2>2, <2>4, <3>2
  <2> QED
    BY <1>12, <2>6, <2>7, <2>8
<1>14. \A q \in Prefixes : L[Total'][q] = IF q \in dump'.todo THEN {} ELSE kernel'[q]
  <2>1. n - 1 \in 0..(n - 1) /\ (n - 1) + 1 = n
    BY <1>1
  <2>2. L[Total'] = K[n] /\ dump' = dump /\ kernel' = kernel
    BY <1>1, <1>4, <2>1 DEF Takes
  <2> QED
    BY <1>2, <2>2
<1>15. \A k \in 1..Total' : Passes(At(k), L[k - 1], L[k])'
  BY <1>1, <1>5 DEF Passes
<1>16. Lower(L)'
  BY <1>1, <1>4, <1>13, <1>14, <1>15, <1>w DEF Lower
<1> QED
  BY <1>16

\* The tables are empty, and everything is to be dumped.
LEMMA LowerNew ==
  ASSUME FibTypeOK', Total' = 0, \A p \in Prefixes : table'[p] = None,
         dump'.todo = {p \in Prefixes : kernel'[p] # {}}
  PROVE  \E K : Lower(K)'
<1> DEFINE Z == [p \in Prefixes |-> {}]
           J == [k \in 0..0 |-> Z]
<1>1. Z \in Routings /\ \A p \in Prefixes : Z[p] = {}
  BY DEF Routings
<1> HIDE DEF Z
<1>2. PICK K : K \in [0..0 -> Routings] /\ K[0] = Z
  <2>1. J \in [0..0 -> Routings] /\ J[0] = Z
    BY <1>1
  <2> QED
    BY <2>1
<1>3. PICK X : X = Live(K)'
  OBVIOUS
<1>4. X = [k \in 0..0 |-> {p \in Prefixes : K[k][p] # {}}]
  BY <1>3 DEF Live
<1>5. X[0] = {}
  BY <1>1, <1>2, <1>4
<1>6. Stale(K[0])' = {}
  BY DEF Stale
<1>7. ASSUME NEW f \in Families PROVE num'[f] >= Bill(X, f)' + Cardinality(Stale(K[0])' \cap PrefixesOf(f))
  <2>1. Surplus(X, f)' = {}
    BY DEF Surplus
  <2>2. X[0] \cap PrefixesOf(f) = {} /\ Stale(K[0])' \cap PrefixesOf(f) = {} /\ X[Total'] = X[0]
    BY <1>5, <1>6
  <2>3. Bill(X, f)' = 0 + 0
    BY <2>1, <2>2, FS_EmptySet DEF Bill
  <2>4. num'[f] \in Nat /\ Cardinality(Stale(K[0])' \cap PrefixesOf(f)) = 0
    BY <2>2, FS_EmptySet DEF FibTypeOK
  <2> QED
    BY <2>3, <2>4
<1>8. \A p \in Prefixes : K[Total'][p] = IF p \in dump'.todo THEN {} ELSE kernel'[p]
  BY <1>1, <1>2
<1>9. Lower(K)'
  BY <1>2, <1>3, <1>7, <1>8 DEF Lower
<1> QED
  BY <1>9

\* Every step keeps the lower bound.
LEMMA LowerStep ==
  ASSUME FibBase, LowerInv, [FibNext]_fibVars
  PROVE  LowerInv'
<1> SUFFICES ASSUME Told', Counted' PROVE \E K : Lower(K)'
  BY DEF LowerInv
<1>0. FibTypeOK /\ WorkInv /\ PhaseInv /\ dump.todo \subseteq Prefixes
  BY DEF FibBase, FibTypeOK, DumpType
<1>b. FibBase' /\ FibTypeOK' /\ PhaseInv'
  BY BaseStep DEF FibBase
<1>h. ASSUME Told, failed \subseteq failed' PROVE \E K : Lower(K)
  BY <1>h DEF LowerInv, Counted
<1>s. ASSUME Total' = Total, \A k \in 1..Total : At(k)' = At(k), Told, dump'.todo = dump.todo, kernel' = kernel,
             table' = table, num' = num, failed' = failed
      PROVE  \E K : Lower(K)'
  <2>1. PICK K : Lower(K)
    BY <1>h, <1>s
  <2>2. Lower(K)'
    BY <1>s, <2>1, LowerKept
  <2> QED
    BY <2>2
<1>1. CASE UNCHANGED fibVars
  <2>1. /\ dump' = dump /\ phase' = phase /\ table' = table /\ kernel' = kernel /\ failed' = failed
        /\ ev' = ev /\ queue' = queue /\ num' = num
    BY <1>1 DEF fibVars, kernelVars
  <2>2. Total' = Total /\ \A k \in 1..Total : At(k)' = At(k)
    BY <2>1, SameEvents
  <2> QED
    BY <1>s, <2>1, <2>2 DEF Told
<1>2. ASSUME NEW p \in Prefixes, NEW e \in Events, NEW R \in SUBSET InfosOf(p), RouteChange(p, e, R),
             p \in Prefixes4 => \A i, j \in R : i = j, e.prefix = p, failed \subseteq failed',
             e.kind = "replace" => R = e.infos,
             e.kind = "append" => kernel[p] # {} /\ R = kernel[p] \cup e.infos,
             e.kind = "del" => kernel[p] = e.infos /\ R = {},
             \/ e.kind = "replace" /\ (Registered => num' = Account(p))
             \/ e.kind = "append" /\ num' = num
             \/ e.kind = "del" /\ (Registered => num' = Unaccount(p, 1))
      PROVE  \E K : Lower(K)'
  <2>1. KernelSet(p, R) /\ phase' = phase /\ flush' = flush /\ table' = table
    BY <1>2 DEF RouteChange
  <2>2. phase = "live" /\ Told /\ dump.todo = {} /\ Registered
    BY <1>0, <1>2, <2>1, ChangeSeen DEF Told, PhaseInv, Registered
  <2>3. ScheduleEvent(e) /\ dump'.todo = {}
    BY <1>b, <1>2, <2>1, <2>2 DEF RouteChange, PhaseInv
  <2>4. PICK K : Lower(K)
    BY <1>h, <1>2, <2>2
  <2>5. kernel'[p] = R /\ \A s \in Prefixes : s # p => kernel'[s] = kernel[s]
    BY <1>0, <1>2, <2>1, KernelSetIs
  <2>6. kernel' \in Routings
    BY <1>b DEF FibTypeOK, Routings
  <2>7. \A q \in Prefixes : K[Total][q] = kernel[q]
    BY <2>2, <2>4 DEF Lower
  <2>8. Passes(e, K[Total], kernel')
    BY <1>2, <2>5, <2>7 DEF Passes
  <2>9. \A q \in Prefixes : kernel'[q] = IF q \in dump'.todo THEN {} ELSE kernel'[q]
    BY <2>3
  <2> QED
    BY <1>0, <1>2, <2>1, <2>2, <2>3, <2>4, <2>6, <2>8, <2>9, LowerExtended
<1>3. ASSUME NEW p \in Prefixes, RouteReplace(p) PROVE \E K : Lower(K)'
  <2>1. PICK S \in SUBSET InfosOf(p) :
           /\ (p \in Prefixes4 => \A i, j \in S : i = j)
           /\ Event("replace", p, S) \in Events /\ RouteChange(p, Event("replace", p, S), S)
           /\ (Registered => num' = Account(p)) /\ failed' = failed
    BY <1>0, <1>3, ReplaceIs
  <2>2. Event("replace", p, S).prefix = p /\ Event("replace", p, S).kind = "replace" /\ Event("replace", p, S).infos = S
    BY DEF Event
  <2> QED
    BY <1>2, <2>1, <2>2
<1>4. ASSUME NEW p \in Prefixes, RouteAppend(p) PROVE \E K : Lower(K)'
  <2>1. PICK S \in SUBSET InfosOf(p) :
           /\ p \in Prefixes6 /\ kernel[p] # {} /\ kernel[p] \cup S \in SUBSET InfosOf(p)
           /\ Event("append", p, S) \in Events /\ RouteChange(p, Event("append", p, S), kernel[p] \cup S)
           /\ num' = num /\ failed' = failed
    BY <1>0, <1>4, AppendIs
  <2>2. Event("append", p, S).prefix = p /\ Event("append", p, S).kind = "append" /\ Event("append", p, S).infos = S
    BY DEF Event
  <2>3. p \notin Prefixes4
    BY <2>1, NsimFibAssumption DEF NsimFibAssumption
  <2> QED
    BY <1>2, <2>1, <2>2, <2>3
<1>5. ASSUME NEW p \in Prefixes, NEW S \in SUBSET kernel[p], RouteDel(p, S) PROVE \E K : Lower(K)'
  <2>1. /\ Deletable(p, S) /\ Event("del", p, S) \in Events /\ RouteChange(p, Event("del", p, S), kernel[p] \ S)
        /\ Registered => num' = Unaccount(p, 1) /\ ((S = kernel[p] /\ failed' = failed) \/ failed' = failed \cup {"sibling"})
    BY <1>0, <1>5, DelIs
  <2>2. Event("del", p, S).prefix = p /\ Event("del", p, S).kind = "del" /\ Event("del", p, S).infos = S
    BY DEF Event
  <2>3. kernel[p] \ S \in SUBSET InfosOf(p) /\ (p \in Prefixes4 => \A i, j \in kernel[p] \ S : i = j)
    BY <1>0, <2>1, DeletableIs
  <2>4. Registered
    BY <1>0, <2>1, <2>3, ChangeSeen DEF RouteChange, Registered
  <2>5. S = kernel[p] /\ failed' = failed /\ kernel[p] \ S = {}
    BY <2>1, <2>4 DEF Counted
  <2> QED
    BY <1>2, <2>1, <2>2, <2>3, <2>5
<1>6. ASSUME NEW p \in Prefixes, NEW S \in SUBSET kernel[p], RouteDelFails(p, S) PROVE FALSE
  BY <1>6, BaseDelFails DEF Counted
<1>v. ASSUME NEW p \in Prefixes, RouteVeto(p) PROVE FALSE
  BY <1>v, BaseVeto DEF Counted
<1>7. ASSUME NEW p \in Prefixes, DumpEntry(p) PROVE \E K : Lower(K)'
  <2>1. phase' # "cancel"
    BY DEF Told
  <2>2. CASE Dumped(p) /\ kernel[p] = {} /\ num' = num /\ queue' = queue /\ ev' = ev
    <3>1. dump'.todo = dump.todo \ {p} /\ table' = table /\ kernel' = kernel /\ failed' = failed /\ Told
      BY <2>2 DEF Dumped, Told
    <3>2. Total' = Total /\ \A k \in 1..Total : At(k)' = At(k)
      BY <2>2, SameEvents
    <3>3. PICK K : Lower(K)
      BY <1>h, <3>1
    <3>4. \A q \in Prefixes :
            (IF q \in dump'.todo THEN {} ELSE kernel'[q]) = (IF q \in dump.todo THEN {} ELSE kernel[q])
      BY <2>2, <3>1
    <3>5. Lower(K)'
      BY <2>2, <3>1, <3>2, <3>3, <3>4, LowerKept
    <3> QED
      BY <3>5
  <2>3. CASE /\ Dumped(p) /\ kernel[p] # {} /\ num' = Account(p)
             /\ Event("replace", p, kernel[p]) \in Events
             /\ ScheduleEvent(Event("replace", p, kernel[p]))
    <3>1. PICK e : e = Event("replace", p, kernel[p])
      OBVIOUS
    <3>2. e.prefix = p /\ e.kind = "replace" /\ e.infos = kernel[p] /\ e \in Events /\ ScheduleEvent(e)
      BY <2>3, <3>1 DEF Event
    <3>3. /\ dump'.todo = dump.todo \ {p} /\ table' = table /\ kernel' = kernel /\ failed' = failed /\ Told
          /\ p \in dump.todo
      BY <2>3 DEF Dumped, Told
    <3>4. PICK K : Lower(K)
      BY <1>h, <3>3
    <3>5. PICK B : B = [q \in Prefixes |-> IF q \in dump'.todo THEN {} ELSE kernel'[q]]
      OBVIOUS
    <3>6. B \in Routings /\ \A q \in Prefixes : B[q] = IF q \in dump'.todo THEN {} ELSE kernel'[q]
      BY <1>b, <3>5 DEF FibTypeOK, Routings
    <3>7. \A q \in Prefixes : K[Total][q] = IF q \in dump.todo THEN {} ELSE kernel[q]
      BY <3>4 DEF Lower
    <3>8. Passes(e, K[Total], B)
      BY <3>2, <3>3, <3>6, <3>7 DEF Passes
    <3> QED
      BY <1>0, <2>3, <3>2, <3>3, <3>4, <3>6, <3>8, LowerExtended
  <2> QED
    BY <1>7, <2>1, <2>2, <2>3, DumpEntryIs
<1>8. CASE WorkAdd \/ WorkReplace \/ WorkInsertFails \/ WorkAppend \/ WorkAppendFails \/ WorkDel4 \/ WorkDel6
  <2>0. PICK e, p : e = At(1) /\ p = e.prefix
    OBVIOUS
  <2>1. /\ Takes /\ failed \subseteq failed' /\ Does(e, p) /\ \A q \in Prefixes : q # p => table'[q] = table[q]
    <3>1. CASE WorkAdd
      BY <2>0, <3>1, AddIs DEF Does
    <3>2. CASE WorkReplace
      BY <2>0, <3>2, ReplacedIs DEF Does
    <3>3. CASE WorkInsertFails
      <4>1. /\ Takes /\ e.kind = "replace" /\ table' = table /\ failed \subseteq failed' /\ num' = num
        BY <2>0, <3>3, InsertFailsIs DEF Counted
      <4> QED
        BY <4>1 DEF Does
    <3>4. CASE WorkAppend
      BY <2>0, <3>4, AppendedIs DEF Does
    <3>5. CASE WorkAppendFails
      <4>1. /\ Takes /\ e.kind = "append" /\ table' = table /\ failed' = failed /\ num' = num /\ table[p] = None
        BY <2>0, <3>5, AppendFailsIs DEF Counted
      <4> QED
        BY <4>1 DEF Does
    <3>6. CASE WorkDel4
      BY <2>0, <3>6, Del4Is DEF Does
    <3>7. CASE WorkDel6
      BY <2>0, <3>7, Del6Is DEF Does
    <3> QED
      BY <1>8, <3>1, <3>2, <3>3, <3>4, <3>5, <3>6, <3>7
  <2>2. Told
    BY <2>1 DEF Takes, Told
  <2>3. PICK K : Lower(K)
    BY <1>h, <2>1, <2>2
  <2> QED
    BY <1>0, <2>0, <2>1, <2>3, LowerTaken
<1>9. CASE WorkSplice
  <2>1. /\ Total' = Total /\ \A k \in 1..Total : At(k)' = At(k)
        /\ kernel' = kernel /\ phase' = phase /\ dump' = dump /\ table' = table /\ failed' = failed /\ num' = num
    BY <1>9, SpliceIs
  <2> QED
    BY <1>s, <2>1 DEF Told
<1>10. CASE WorkLock \/ WorkEnd \/ FlushBegin
  <2>1. /\ ev'.batch = ev.batch /\ queue' = queue
        /\ kernel' = kernel /\ phase' = phase /\ dump' = dump /\ table' = table /\ failed' = failed /\ num' = num
    BY <1>10, LockIs, EndIs, FlushBeginIs
  <2>2. Total' = Total /\ \A k \in 1..Total : At(k)' = At(k)
    BY <2>1, SameEvents
  <2> QED
    BY <1>s, <2>1, <2>2 DEF Told
<1>11. CASE FlushTable
  BY <1>11, FlushTableIs DEF Counted
<1>12. CASE DumpRegister \/ DumpCheck \/ DestroyUnregister \/ DestroyCancel
  <2>1. /\ ev' = ev /\ queue' = queue /\ kernel' = kernel /\ table' = table /\ failed' = failed /\ num' = num
        /\ dump.todo = {} /\ dump'.todo = {} /\ Told
    BY <1>12, PhasesAre
  <2>2. Total' = Total /\ \A k \in 1..Total : At(k)' = At(k)
    BY <2>1, SameEvents
  <2> QED
    BY <1>s, <2>1, <2>2
<1>13. CASE CreateBegin \/ DumpInconsistent \/ DestroyFree
  <2>1. /\ Total' = 0 /\ kernel' = kernel /\ dump'.todo = {p \in Prefixes : kernel[p] # {}}
        /\ \A p \in Prefixes : table'[p] = None
    <3>1. CASE CreateBegin
      BY <3>1, CreateIs
    <3>2. CASE DumpInconsistent \/ DestroyFree
      BY <1>0, <3>2, EmptiedIs, FreeTableIs
    <3> QED
      BY <1>13, <3>1, <3>2
  <2>2. dump'.todo = {p \in Prefixes : kernel'[p] # {}}
    BY <2>1
  <2> QED
    BY <1>b, <2>1, <2>2, LowerNew
<1> QED
  BY <1>1, <1>3, <1>4, <1>5, <1>6, <1>v, <1>7, <1>8, <1>9, <1>10, <1>11, <1>12, <1>13 DEF FibNext

\* With no event outstanding, no less is counted than there are routes.
LEMMA LowerSettled ==
  ASSUME FibTypeOK, Total = 0, dump.todo = {}, NEW K, Lower(K), NEW f \in Families
  PROVE  num[f] >= Cardinality({p \in PrefixesOf(f) : kernel[p] # {}})
<1>1. num[f] >= Bill(Live(K), f) + Cardinality(Stale(K[0]) \cap PrefixesOf(f)) /\ num[f] \in Nat
  BY DEF Lower, FibTypeOK
<1>2. \A p \in Prefixes : K[0][p] = kernel[p]
  BY DEF Lower
<1>3. Live(K)[Total] = {p \in Prefixes : kernel[p] # {}}
  <2>1. \A k \in 0..0 : Live(K)[k] = {p \in Prefixes : K[k][p] # {}}
    BY LiveIs
  <2> QED
    BY <1>2, <2>1
<1>4. Live(K)[Total] \cap PrefixesOf(f) = {p \in PrefixesOf(f) : kernel[p] # {}}
  BY <1>3 DEF PrefixesOf
<1>5. Surplus(Live(K), f) = {}
  BY DEF Surplus
<1>6. PICK a \in Nat, s \in Nat : /\ a = Cardinality({p \in PrefixesOf(f) : kernel[p] # {}})
                                  /\ s = Cardinality(Stale(K[0]) \cap PrefixesOf(f))
  <2>1. {p \in PrefixesOf(f) : kernel[p] # {}} \subseteq Prefixes
    BY DEF PrefixesOf
  <2>2. Cardinality({p \in PrefixesOf(f) : kernel[p] # {}}) \in Nat
    BY <2>1, NsimFibAssumption, FS_Subset, FS_CardinalityType DEF NsimFibAssumption, Prefixes
  <2>3. Stale(K[0]) \in SUBSET Prefixes
    BY DEF Stale
  <2>4. Cardinality(Stale(K[0]) \cap PrefixesOf(f)) \in Nat
    BY <2>3, StaleIs
  <2> QED
    BY <2>2, <2>4
<1>7. Bill(Live(K), f) = a + 0
  <2>1. Cardinality(Live(K)[Total] \cap PrefixesOf(f)) = a
    BY <1>4, <1>6
  <2>2. Cardinality(Surplus(Live(K), f)) = 0
    BY <1>5, FS_EmptySet
  <2> QED
    BY <2>1, <2>2 DEF Bill
<1>8. num[f] >= a
  BY <1>1, <1>6, <1>7
<1> QED
  BY <1>6, <1>8

\* OccupancyExact: the occupancy that nsim_fib_account keeps ahead of the work is the
\* number of routes once the work is done; a failed insertion only makes it larger;
\* destruction leaves no event, work or entry.
THEOREM OccupancyIsExact == FibSpec => []OccupancyExact
<1> DEFINE Inv == FibBase /\ DumpInv /\ TrackInv /\ UpperInv /\ LowerInv
<1>1. FibInit => Inv
  <2> SUFFICES ASSUME FibInit PROVE Inv
    OBVIOUS
  <2>1. phase = "gone" /\ failed = {} /\ num = [f \in Families |-> 0]
    BY DEF FibInit
  <2>2. FibBase /\ FibTypeOK
    BY BaseInit DEF FibBase
  <2>3. UpperInv
    BY UpperInit
  <2> QED
    BY <2>1, <2>2, <2>3 DEF DumpInv, TrackInv, LowerInv, Told
<1>2. Inv /\ [FibNext]_fibVars => Inv'
  BY BaseStep, DumpStep, TrackStep, UpperStep, LowerStep
<1>3. Inv => OccupancyExact
  <2> SUFFICES ASSUME Inv PROVE OccupancyExact
    OBVIOUS
  <2>1. phase = "gone" => /\ queue = <<>> /\ EventWorkDone /\ FlushWorkDone
                          /\ \A p \in Prefixes : table[p] = None
    BY DEF FibBase, PhaseInv
  <2>2. ASSUME Settled, NEW f \in Families
        PROVE  LET R == {p \in PrefixesOf(f) : kernel[p] # {}}
               IN  /\ failed = {} => num[f] = Cardinality(R)
                   /\ failed \cap {"delete", "insertion", "sibling", "veto", "append"} = {} => num[f] >= Cardinality(R)
    <3> DEFINE R == {p \in PrefixesOf(f) : kernel[p] # {}}
               H == {p \in PrefixesOf(f) : table[p] # None}
    <3>1. FibTypeOK /\ WorkInv /\ PhaseInv /\ phase = "live" /\ EventWorkDone /\ TrackInv /\ UpperInv /\ LowerInv
      BY <2>2 DEF FibBase, Settled
    <3>2. Total = 0 /\ dump.todo = {} /\ Told
      BY <3>1, NoneLeft DEF PhaseInv, Told
    <3>3. Counted => num[f] >= Cardinality(R)
      BY <3>1, <3>2, LowerSettled DEF LowerInv
    <3>4. ASSUME failed = {} PROVE num[f] <= Cardinality(R)
      <4>1. num[f] <= Cardinality(H)
        <5>1. PICK T : Upper(T)
          BY <3>1, <3>4 DEF UpperInv
        <5> QED
          BY <3>1, <3>2, <5>1, UpperSettled
      <4>2. H \subseteq R
        <5>1. \A p \in Prefixes : table[p] # None => kernel[p] # {}
          BY <2>2, <3>4, Followed DEF TableFollowsKernel
        <5> QED
          BY <5>1 DEF PrefixesOf
      <4>3. IsFiniteSet(R)
        <5>1. R \subseteq Prefixes
          BY DEF PrefixesOf
        <5> HIDE DEF R
        <5> QED
          BY <5>1, NsimFibAssumption, FS_Subset DEF NsimFibAssumption, Prefixes
      <4> HIDE DEF R, H
      <4>4. Cardinality(H) <= Cardinality(R) /\ IsFiniteSet(H)
        BY <4>2, <4>3, FS_Subset
      <4>5. PICK h \in Nat, r \in Nat : h = Cardinality(H) /\ r = Cardinality(R)
        BY <4>3, <4>4, FS_CardinalityType
      <4>6. num[f] \in Nat /\ num[f] <= h /\ h <= r
        BY <3>1, <4>1, <4>4, <4>5 DEF FibTypeOK
      <4>7. num[f] <= r
        BY <4>6
      <4> QED
        BY <4>5, <4>7
    <3>5. num[f] \in Nat /\ Cardinality(R) \in Nat
      <4>1. R \subseteq Prefixes
        BY DEF PrefixesOf
      <4> HIDE DEF R
      <4> QED
        BY <3>1, <4>1, NsimFibAssumption, FS_Subset, FS_CardinalityType DEF NsimFibAssumption, Prefixes, FibTypeOK
    <3> HIDE DEF R
    <3>6. failed = {} => num[f] = Cardinality(R)
      <4>1. failed = {} => Counted
        BY DEF Counted
      <4> QED
        BY <3>3, <3>4, <3>5, <4>1
    <3> QED
      BY <3>3, <3>6 DEF Counted, R
  <2> QED
    BY <2>1, <2>2 DEF OccupancyExact
<1> HIDE DEF Inv
<1> QED
  BY <1>1, <1>2, <1>3, PTL DEF FibSpec
=============================================================================
