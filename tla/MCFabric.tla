------------------------------ MODULE MCFabric ------------------------------
(***************************************************************************)
(* The instance of Fabric that TLC checks: four ToRs of two hosts and two  *)
(* uplinks, the same rotation at every ToR.  In slice 0 the uplinks lead   *)
(* one ToR forward and one back; in slice 1 the second rotor turns, and    *)
(* its links are down; in slice 2 they lead two and one ToR forward.       *)
(* Paths have one to three hops.                                           *)
(*                                                                         *)
(* The static networks of the Clos simulator are checked here too: one     *)
(* behaviour is the way of a packet through the rotor network or through   *)
(* one of those (SourceRouted), with the other network unused.  There, the *)
(* 1:1 tree has 16 hosts, and the others, which have hundreds, are entered *)
(* at hosts on both sides of the boundaries of racks and pods.             *)
(*                                                                         *)
(* A third kind of behaviour is the way of a packet through the network of *)
(* a graph file: a ring of four ToRs, or any file that differs from it in  *)
(* one line and that the reader still accepts.                             *)
(***************************************************************************)
EXTENDS Fabric, GraphTopology, TLC

\* How far an uplink leads in a slice; 0: down.
MCOffset == [slice \in 0..2 |-> CASE slice = 0 -> (2 :> 1 @@ 3 :> 3)
                                  [] slice = 1 -> (2 :> 1 @@ 3 :> 0)
                                  [] OTHER     -> (2 :> 2 @@ 3 :> 1)]

MCAdjacency ==
  [slice \in 0..2 |-> [t \in 0..3 |-> [u \in 2..3 |->
     IF MCOffset[slice][u] = 0 THEN -1 ELSE (t + MCOffset[slice][u]) % 4]]]

\* The paths over a distance of one, two and three ToRs.
MCPaths ==
  [slice \in 0..2 |->
     CASE slice = 0 -> << <<<<2>>, <<3, 3, 3>>>>, <<<<2, 2>>, <<3, 3>>>>, <<<<3>>>> >>
       [] slice = 1 -> << <<<<2>>>>, <<<<2, 2>>>>, <<<<2, 2, 2>>>> >>
       [] OTHER     -> << <<<<3>>>>, <<<<2>>, <<3, 3>>>>, <<<<2, 3>>, <<3, 2>>>> >>]

MCLbls ==
  [s \in 0..3 |-> [d \in 0..3 |-> [slice \in 0..2 |->
     IF s = d THEN <<>> ELSE MCPaths[slice][(d - s) % 4]]]]

MCRotor ==
  [ntor |-> 4, ndl |-> 2, nul |-> 2, nslice |-> 3, adjacency |-> MCAdjacency, lbls |-> MCLbls]

-----------------------------------------------------------------------------
\* A ring, with two routes for each of two pairs.
MCRing ==
  [ntor |-> 4, ndl |-> 2, lines |->
     << <<1, 3>>, <<0, 2>>, <<1, 3>>, <<2, 0>>,
        <<0, 1, 1>>, <<1, 0, 0>>, <<1, 2, 2>>, <<2, 1, 1>>, <<2, 3, 3>>, <<3, 2, 2>>,
        <<3, 0, 0>>, <<0, 3, 3>>, <<0, 2, 1, 2>>, <<0, 2, 3, 2>>, <<2, 0, 3, 0>>,
        <<1, 3, 2, 3>>, <<3, 1, 0, 1>>, <<3, 1, 2, 1>> >>]

\* Another row for ToR 0, another route from it, or another header.
MCNumbers == -1..4
MCFiles ==
  {[MCRing EXCEPT !.lines[1] = row] : row \in {<<a, b>> : a, b \in MCNumbers} \cup {<<1, 3, 2>>, <<2, 1, 3>>, <<>>}}
    \cup {[MCRing EXCEPT !.lines[13] = line] :
             line \in {<<0, d, a, b>> : d, a, b \in MCNumbers} \cup {<<0, 2, a, b, c>> : a, b, c \in MCNumbers}
                      \cup {<<>>, <<0, 2>>}}
    \cup {[MCRing EXCEPT !.ndl = n] : n \in {0, 1}} \cup {[MCRing EXCEPT !.ntor = n] : n \in {0, 3, 19}}

MCGraphs == {file \in MCFiles : Reads(file) /\ HasRoutes(file)}

MCTopologies ==
  <<MCRotor>>
    \o FoldSet(LAMBDA net, nets : Append(nets, net), <<>>, {NetworkOf(file) : file \in MCGraphs})

\* Under a name of its own, which TLC evaluates once.
MCNetworks == MCTopologies

-----------------------------------------------------------------------------
VARIABLES flow, route, bounced, nexthop, holder   \* of SourceRouted

MCEndpoints ==
  "1to1" :> 0..15 @@ "3to1_k12" :> {0, 1, 8, 9, 53, 54, 647}
    @@ "3to1_k24" :> {0, 18, 216, 5183} @@ "6to1" :> {0, 5, 6, 35, 36, 647}
    @@ "oversubscribed" :> {0, 15, 16, 63, 64, 511} @@ "multihomed" :> {0, 7, 8, 47, 48, 575}
    @@ "vl2" :> {0, 19, 20, 100, 179} @@ "star" :> {0, 1}
    @@ "bcube" :> {0, 1, 3, 13, 22, 26} @@ "camcube" :> {0, 1, 4, 33, 62, 124}

Clos == INSTANCE SourceRouted WITH
          K <- 4, Trees <- DOMAIN MCEndpoints, Endpoints <- MCEndpoints,
          NumPorts <- 3, TopLevel <- 2

ASSUME Clos!EvenK /\ Clos!BCubeParams

-----------------------------------------------------------------------------
NoFlow == [tree |-> "none"]

Unrouted == route = Clos!NoRoute /\ bounced = FALSE /\ nexthop = 0 /\ holder = Clos!Source

MCInit ==
  \/ Init /\ flow = NoFlow /\ Unrouted
  \/ /\ Init /\ network = 1 /\ ~jitter /\ pkt.type = "XPDATA" /\ pkt.src = 0 /\ pkt.dst = 1
     /\ Clos!WalkInit

MCNext ==
  \/ flow = NoFlow /\ Next /\ UNCHANGED <<flow, route, bounced, nexthop, holder>>
  \/ flow.tree \in DOMAIN MCEndpoints /\ Clos!WalkNext /\ UNCHANGED vars

MCSpec == MCInit /\ [][MCNext]_<<vars, Clos!walkVars>>

\* The tables of a static network agree with its links: a source spreads its
\* packets over every shortest way (in VL2 and BCube, the ways these are for),
\* and each packet only goes over links that exist, to its destination or,
\* returned from any switch, to its source.
RoutesSound ==
  /\ [](flow.tree \in DOMAIN MCEndpoints /\ holder = Clos!Source => Clos!RoutesFit)
  /\ [][Clos!GoesOn]_<<route, holder>>

=============================================================================
