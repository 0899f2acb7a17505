------------------------------ MODULE FatTree -------------------------------
(***************************************************************************)
(* The static networks of the Clos simulator: the fat tree with K^3/4      *)
(* hosts, and three oversubscribed ones, each a source file with literals  *)
(* of its own.                                                             *)
(*                                                                         *)
(* A link is the pair of its upper and its lower end and stands for the    *)
(* queue and the pipe that are built for each direction.  A route is the   *)
(* sequence of nodes it visits; get_paths builds it together with its      *)
(* reverse, for packets that are returned to their sender.  What lossless  *)
(* queues add to a route, and the choice of a queue's class, is left out.  *)
(***************************************************************************)
EXTENDS Integers, Sequences

CONSTANTS K   \* ports of a switch of the 1:1 tree

EvenK == K \in Nat /\ K >= 2 /\ K % 2 = 0

Host(i) == <<"host", i>>
LS(i)   == <<"ls", i>>      \* lower pod switch (ToR)
US(i)   == <<"us", i>>      \* upper pod switch
CS(i)   == <<"cs", i>>      \* core switch

\* A route over the nodes of out, and its reverse over those of back.
Route(out, back) == [out |-> out, back |-> back]

-----------------------------------------------------------------------------
(* fat_tree_topology.cpp *)

Half == K \div 2                \* K is even, as the code takes for granted
NK   == (K * K) \div 2          \* switches in a tier that is not the top
NSRV == (K * K * K) \div 4      \* hosts
NC   == (K * K) \div 4          \* core switches

HostPodSwitch(h) == (2 * h) \div K
HostPod(h) == h \div NC
PodSwitches(pod) == (pod * Half)..((pod + 1) * Half - 1)

HostLinks == {<<LS(j), Host(j * Half + l)>> : j \in 0..(NK - 1), l \in 0..(Half - 1)}

PodLinks == UNION {{<<US(k), LS(j)>> : k \in PodSwitches((2 * j) \div K)} : j \in 0..(NK - 1)}

CoreLinks ==
  {<<CS((j % Half) * Half + l), US(j)>> : j \in 0..(NK - 1), l \in 0..(Half - 1)}

SwitchRoutes(src, dst) ==
  {Route(<<Host(src), LS(HostPodSwitch(src)), Host(dst)>>,
         <<Host(dst), LS(HostPodSwitch(dst)), Host(src)>>)}

PodRoutes(src, dst) ==
  {Route(<<Host(src), LS(HostPodSwitch(src)), US(upper), LS(HostPodSwitch(dst)), Host(dst)>>,
         <<Host(dst), LS(HostPodSwitch(dst)), US(upper), LS(HostPodSwitch(src)), Host(src)>>) :
     upper \in PodSwitches(HostPod(src))}

\* The core switches above an upper switch, and the upper switch of a pod below
\* a core switch.
CoresAbove(upper) == ((upper % Half) * Half)..(((upper % Half) + 1) * Half - 1)
\* Mutant: the position of the core switch among those of one upper switch.
LinkDownWrong(pod, core) == pod * Half + (core % Half)

LinkDown(pod, core) == pod * Half + (2 * core) \div K

\* Up to any core switch above, and down by the one link to the other pod.
CoreRoutes(src, dst) ==
  UNION {{
    LET upper2 == LinkDown(HostPod(dst), core)
    IN Route(<<Host(src), LS(HostPodSwitch(src)), US(upper), CS(core), US(upper2),
               LS(HostPodSwitch(dst)), Host(dst)>>,
             <<Host(dst), LS(HostPodSwitch(dst)), US(upper2), CS(core), US(upper),
               LS(HostPodSwitch(src)), Host(src)>>) :
      core \in CoresAbove(upper)} : upper \in PodSwitches(HostPod(src))}

GetPaths(src, dst) ==
  IF HostPodSwitch(src) = HostPodSwitch(dst) THEN SwitchRoutes(src, dst)
  ELSE IF HostPod(src) = HostPod(dst) THEN PodRoutes(src, dst)
  ELSE CoreRoutes(src, dst)

-----------------------------------------------------------------------------
(* The trees with literals: fat_tree_topology_3to1_k12.cpp, _3to1_k24.cpp  *)
(* and _6to1_hybrid.cpp.  They share the shape of their loops; t holds the *)
(* literals of one: switches per tier (nlp, nup) and hosts per rack (nhpr) *)
(* from set_params, lower and upper switches per pod (lpp, upp) and core   *)
(* switches per upper switch (cpu) from init_network and get_paths, and    *)
(* hosts per pod (hpp), which only get_paths knows.                        *)

LinksToHosts(t) ==
  {<<LS(j), Host(j * t.nhpr + l)>> : j \in 0..(t.nlp - 1), l \in 0..(t.nhpr - 1)}

LinksInPods(t) ==
  {<<US(k), LS((k \div t.upp) * t.lpp + l)>> : k \in 0..(t.nup - 1), l \in 0..(t.lpp - 1)}

LinksToCores(t) ==
  {<<CS((j % t.upp) * t.cpu + l), US(j)>> : j \in 0..(t.nup - 1), l \in 0..(t.cpu - 1)}

RoutesInRack(t, src, dst) ==
  {Route(<<Host(src), LS(src \div t.nhpr), Host(dst)>>,
         <<Host(dst), LS(dst \div t.nhpr), Host(src)>>)}

RoutesInPod(t, src, dst) ==
  {LET upper == US((src \div t.hpp) * t.upp + u)
   IN Route(<<Host(src), LS(src \div t.nhpr), upper, LS(dst \div t.nhpr), Host(dst)>>,
            <<Host(dst), LS(dst \div t.nhpr), upper, LS(src \div t.nhpr), Host(src)>>) :
     u \in 0..(t.upp - 1)}

RoutesOverCores(t, src, dst) ==
  {LET upper  == US((src \div t.hpp) * t.upp + u)
       core   == CS(u * t.cpu + c)
       upper2 == US((dst \div t.hpp) * t.upp + u)
   IN Route(<<Host(src), LS(src \div t.nhpr), upper, core, upper2, LS(dst \div t.nhpr), Host(dst)>>,
            <<Host(dst), LS(dst \div t.nhpr), upper2, core, upper, LS(src \div t.nhpr), Host(src)>>) :
     u \in 0..(t.upp - 1), c \in 0..(t.cpu - 1)}

LinksOf(t) == LinksToHosts(t) \cup LinksInPods(t) \cup LinksToCores(t)
PathsOf(t, src, dst) ==
  IF src \div t.nhpr = dst \div t.nhpr THEN RoutesInRack(t, src, dst)
  ELSE IF src \div t.hpp = dst \div t.hpp THEN RoutesInPod(t, src, dst)
  ELSE RoutesOverCores(t, src, dst)

\* The literals of each file, and what it builds and routes with them.
Set3to1k12 == [nlp |-> 72, nup |-> 36, nhpr |-> 9, lpp |-> 6, upp |-> 3, cpu |-> 6, hpp |-> 54]
Set3to1k24 == [nlp |-> 288, nup |-> 144, nhpr |-> 18, lpp |-> 12, upp |-> 6, cpu |-> 12, hpp |-> 216]
Set6to1    == [nlp |-> 108, nup |-> 18, nhpr |-> 6, lpp |-> 6, upp |-> 1, cpu |-> 6, hpp |-> 36]

Links3to1k12 == LinksOf(Set3to1k12)
Links3to1k24 == LinksOf(Set3to1k24)
Links6to1    == LinksOf(Set6to1)
Paths3to1k24(src, dst) == PathsOf(Set3to1k24, src, dst)
Paths6to1(src, dst)    == PathsOf(Set6to1, src, dst)

Links1to1 == HostLinks \cup PodLinks \cup CoreLinks

=============================================================================
