----------------------------- MODULE OtherTrees ------------------------------
(***************************************************************************)
(* More networks of switches in the Clos simulator: a tree of eight pods   *)
(* with four hosts per uplink, a tree whose hosts have links to two        *)
(* switches, VL2, and the star.  Their sizes are literals, and their       *)
(* routes have no reverse.  The feeder queue that some put in front of a   *)
(* route is left out, like what is left out in FatTree.                    *)
(***************************************************************************)
EXTENDS FatTree

OneWay(out) == Route(out, <<>>)

\* The way up to switch top and down again, from host src to host dst.
UpAndDown(src, up, top, down, dst) == OneWay(<<Host(src)>> \o up \o top \o down \o <<Host(dst)>>)

-----------------------------------------------------------------------------
(* oversubscribed_fat_tree_topology.cpp *)

OvK  == 8
OvNK == (OvK * OvK) \div 2
OvSwitch(h) == (h \div 2) \div OvK
OvPod(h)    == (h \div OvK) \div OvK
OvUppers(pod) == ((pod * OvK) \div 2)..(((pod + 1) * OvK) \div 2 - 1)
\* The core switches above an upper switch.
OvCores(upper) == LET p == upper % (OvK \div 2) IN ((p * OvK) \div 2)..(((p + 1) * OvK) \div 2 - 1)

OvHostLinks == {<<LS(j), Host(j * 2 * OvK + l)>> : j \in 0..(OvNK - 1), l \in 0..(2 * OvK - 1)}
OvPodLinks  == UNION {{<<US(k), LS(j)>> : k \in OvUppers((2 * j) \div OvK)} : j \in 0..(OvNK - 1)}
OvCoreLinks == UNION {{<<CS(k), US(j)>> : k \in OvCores(j)} : j \in 0..(OvNK - 1)}
OvLinks == OvHostLinks \cup OvPodLinks \cup OvCoreLinks

OvRackRoutes(src, dst) == {OneWay(<<Host(src), LS(OvSwitch(dst)), Host(dst)>>)}

OvPodRoutes(src, dst) ==
  {UpAndDown(src, <<LS(OvSwitch(src))>>, <<US(upper)>>, <<LS(OvSwitch(dst))>>, dst) :
     upper \in OvUppers(OvPod(src))}

OvCoreRoutes(src, dst) ==
  UNION {{
    LET upper2 == (OvPod(dst) * OvK) \div 2 + (2 * core) \div OvK
    IN UpAndDown(src, <<LS(OvSwitch(src)), US(upper)>>, <<CS(core)>>,
                 <<US(upper2), LS(OvSwitch(dst))>>, dst) :
      core \in OvCores(upper)} : upper \in OvUppers(OvPod(src))}

OvPaths(src, dst) ==
  IF OvSwitch(src) = OvSwitch(dst) THEN OvRackRoutes(src, dst)
  ELSE IF OvPod(src) = OvPod(dst) THEN OvPodRoutes(src, dst)
  ELSE OvCoreRoutes(src, dst)

-----------------------------------------------------------------------------
(* multihomed_fat_tree_topology.cpp: switches 2i and 2i+1 have the same    *)
(* hosts; the even one has the lower half of the upper switches of its     *)
(* pod, the odd one the upper half.                                        *)

MhK   == 12
MhNK  == (MhK * MhK) \div 2
MhNLP == MhK * MhK
MhSwitch1(h) == 2 * (((3 * h) \div MhK) \div 2)
MhSwitch2(h) == MhSwitch1(h) + 1
MhPod(h)     == (3 * h) \div (MhK * MhK)
MhMin(pod)   == (pod * MhK) \div 2
MhMax(pod)   == ((pod + 1) * MhK) \div 2 - 1
InLowerHalf(upper, pod) == upper <= (MhMin(pod) + MhMax(pod)) \div 2
MhCores(upper) == LET p == upper % (MhK \div 2) IN ((p * MhK) \div 2)..(((p + 1) * MhK) \div 2 - 1)

MhHostLinks ==
  {<<LS(j), Host(((j \div 2) * 2 * MhK) \div 3 + l)>> : j \in 0..(MhNLP - 1), l \in 0..((2 * MhK) \div 3 - 1)}
MhPodLinks ==
  UNION {LET pod == j \div MhK
         IN {<<US(k), LS(j)>> : k \in {u \in MhMin(pod)..MhMax(pod) : InLowerHalf(u, pod) <=> j % 2 = 0}} :
           j \in 0..(MhNLP - 1)}
MhCoreLinks == UNION {{<<CS(k), US(j)>> : k \in MhCores(j)} : j \in 0..(MhNK - 1)}
MhLinks == MhHostLinks \cup MhPodLinks \cup MhCoreLinks

\* The switch of a host that has a link to an upper switch of its pod.
MhSwitchTo(h, upper) == IF InLowerHalf(upper, MhPod(h)) THEN MhSwitch1(h) ELSE MhSwitch2(h)

MhRackRoutes(src, dst) ==
  {OneWay(<<Host(src), LS(sw), Host(dst)>>) : sw \in {MhSwitch1(src), MhSwitch2(src)}}

MhPodRoutes(src, dst) ==
  {UpAndDown(src, <<LS(MhSwitchTo(src, upper))>>, <<US(upper)>>, <<LS(MhSwitchTo(dst, upper))>>, dst) :
     upper \in MhMin(MhPod(src))..MhMax(MhPod(src))}

MhCoreRoutes(src, dst) ==
  UNION {{
    LET upper2 == (MhPod(dst) * MhK) \div 2 + (2 * core) \div MhK
    IN UpAndDown(src, <<LS(MhSwitchTo(src, upper)), US(upper)>>, <<CS(core)>>,
                 <<US(upper2), LS(MhSwitchTo(dst, upper2))>>, dst) :
      core \in MhCores(upper)} : upper \in MhMin(MhPod(src))..MhMax(MhPod(src))}

MhPaths(src, dst) ==
  IF MhSwitch1(src) = MhSwitch1(dst) THEN MhRackRoutes(src, dst)
  ELSE IF MhPod(src) = MhPod(dst) THEN MhPodRoutes(src, dst)
  ELSE MhCoreRoutes(src, dst)

-----------------------------------------------------------------------------
(* vl2_topology.cpp: ToRs (LS), aggregation (US) and intermediate (CS)     *)
(* switches.  A host has a number in its rack.                             *)

NI == 3   \* intermediate switches
NA == 6   \* aggregation switches
NT == 9   \* ToRs
NS == 20  \* hosts of a ToR
HostToR(h) == h \div NS
TorAgg1(tor) == tor % NA
TorAgg2(tor) == (10 * NA - tor - 1) % NA

Vl2HostLinks == {<<LS(j), Host(j * NS + k)>> : j \in 0..(NT - 1), k \in 0..(NS - 1)}
Vl2AggLinks  == UNION {{<<US(k), LS(j)>> : k \in {TorAgg1(j), TorAgg2(j)}} : j \in 0..(NT - 1)}
Vl2IntLinks  == {<<CS(j), US(k)>> : j \in 0..(NI - 1), k \in 0..(NA - 1)}
Vl2Links == Vl2HostLinks \cup Vl2AggLinks \cup Vl2IntLinks

\* Route i of 4*NI: up by the first or the second aggregation switch, over
\* intermediate switch i/4, and down by the first or the second.
Vl2Route(src, dst, i) ==
  LET up   == IF i < 2 * NI THEN TorAgg1(HostToR(src)) ELSE TorAgg2(HostToR(src))
      down == IF i % 2 = 0 THEN TorAgg1(HostToR(dst)) ELSE TorAgg2(HostToR(dst))
  IN UpAndDown(src, <<LS(HostToR(src)), US(up)>>, <<CS(i \div 4)>>, <<US(down), LS(HostToR(dst))>>, dst)

Vl2Paths(src, dst) ==
  IF HostToR(src) = HostToR(dst) THEN {OneWay(<<Host(src), LS(HostToR(src)), Host(dst)>>)}
  ELSE {Vl2Route(src, dst, i) : i \in 0..(4 * NI - 1)}

-----------------------------------------------------------------------------
(* star_topology.cpp: two hosts, each with a queue out and one in, and     *)
(* nothing between the two but the wire.                                   *)

StarHosts == {0, 1}
StarLinks == {<<CS(0), Host(i)>> : i \in StarHosts}
StarPaths(src, dst) == {OneWay(<<Host(src), CS(0), Host(dst)>>)}

=============================================================================
