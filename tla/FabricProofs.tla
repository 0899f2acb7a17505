---------------------------- MODULE FabricProofs ----------------------------
(***************************************************************************)
(* Theorems about the way of a packet through the network (Fabric), for    *)
(* every network, and about the networks that graph files describe.        *)
(***************************************************************************)
EXTENDS Fabric, GraphTopology, PacketListFacts

-----------------------------------------------------------------------------
(* The inductive invariant *)

ThePath == Paths(SrcToR, DstToR, pkt.slice)[pkt.path]

\* The packet has a path of its slice, or stays in its rack.
Routed ==
  IF SrcToR = DstToR THEN pkt.maxhops = 0
  ELSE /\ pkt.path \in DOMAIN Paths(SrcToR, DstToR, pkt.slice)
       /\ pkt.maxhops = Len(ThePath)

\* The ToR that many links from its source, if the slice is that of its path.
OnPath(tor, hop) ==
  IF SrcToR = DstToR THEN tor = SrcToR
  ELSE \E tors \in [1..(Len(ThePath) + 1) -> Tors] :
         /\ FollowsLinks(Net, tors, ThePath, pkt.slice, SrcToR, DstToR)
         /\ tor = tors[hop + 1]

\* At a ToR, with the port to take there, and off its path only if it met
\* another slice.
AtToR ==
  /\ Routed /\ pkt.crthop \in 0..pkt.maxhops /\ pkt.crttor \in Tors
  /\ pkt.crtport = IF pkt.crthop = pkt.maxhops THEN LastPort(pkt.dst)
                   ELSE ThePath[pkt.crthop + 1]
  /\ seen \subseteq {pkt.slice} => OnPath(pkt.crttor, pkt.crthop)

HopsLeft(hops) == ~ jitter => pkt.tidalhop = GreaterOf(hops, 1)

\* What is true of a packet in each place.
Stage ==
  /\ place \in {"unsent", "nic"} => links = 0 /\ seen = {} /\ pkt.crthop = 0
  /\ place = "access" =>
       links = 0 /\ seen = {} /\ pkt.crthop = -1 /\ Routed /\ HopsLeft(pkt.maxhops)
  /\ place \in {"queue", "link"} => AtToR /\ HopsLeft(pkt.maxhops - pkt.crthop)
  /\ place = "queue" => links = pkt.crthop
  /\ place = "link" => links = pkt.crthop + 1 /\ pkt.crthop < pkt.maxhops
  /\ place # "dropped" => counters.waste = 0 /\ counters.topology = 0

IInv ==
  TypeOK /\ Stage /\ CreditAccounted /\ WasteIsLinksUsed /\ DeliveredToDst /\ StaticKeepsAll
    /\ (place = "downlink" => pkt.crttor = DstToR /\ pkt.crtport = LastPort(pkt.dst))

-----------------------------------------------------------------------------
(* Networks *)

\* The network of the run is one.
LEMMA NetTypes ==
  ASSUME network \in DOMAIN Networks
  PROVE  /\ Net.ntor \in Nat \ {0} /\ Net.ndl \in Nat \ {0}
         /\ Net.nul \in Nat \ {0} /\ Net.nslice \in Nat \ {0}
         /\ IsNetwork(Net)
<1>1. IsNetwork(Net)  BY FabricAssumption DEF Net
<1>2. QED  BY <1>1 DEF IsNetwork

\* A host is a downlink of its ToR, and no other port is.
LEMMA HostPorts ==
  ASSUME network \in DOMAIN Networks, NEW host \in Hosts
  PROVE  /\ host \in Nat /\ FirstToR(host) \in Tors /\ LastPort(host) \in 0..(Net.ndl - 1)
         /\ \A tor \in Tors, port \in 0..(Net.ndl - 1) :
              PortDstMatch(port, tor, host) <=> port = LastPort(host) /\ tor = FirstToR(host)
<1>1. PICK n \in Nat \ {0}, d \in Nat \ {0} : n = Net.ntor /\ d = Net.ndl  BY NetTypes
<1>2. n * d \in Nat  BY <1>1
<1>3. host \in 0..(n * d - 1)  BY <1>1 DEF Hosts
<1>4. host \in Nat /\ host < n * d  BY <1>2, <1>3
<1>5. PICK q, r : q = host \div d /\ r = host % d  OBVIOUS
<1>6. q \in Nat /\ r \in 0..(d - 1) /\ host = q * d + r  BY <1>1, <1>4, <1>5, Division
<1>7. q \in 0..(n - 1)
  <2>1. SUFFICES ASSUME q >= n  PROVE FALSE  BY <1>1, <1>6
  <2>2. (q - n) * d \in Nat  BY <1>1, <1>6, <2>1
  <2>3. q * d = (q - n) * d + n * d  BY <1>1, <1>6
  <2>4. q * d \in Nat /\ n * d \in Nat  BY <1>1, <1>6
  <2>5. QED  BY ONLY <1>4, <1>6, <2>2, <2>3, <2>4
<1>8. FirstToR(host) = q /\ LastPort(host) = r  BY <1>1, <1>5 DEF FirstToR, LastPort
<1>9. ASSUME NEW tor \in Tors, NEW port \in 0..(d - 1)
      PROVE  PortDstMatch(port, tor, host) <=> port = r /\ tor = q
  <2>1. tor \in Nat  BY <1>1, <1>9 DEF Tors, TorsOf
  <2>2. PortDstMatch(port, tor, host) <=> port + tor * d = host  BY <1>1 DEF PortDstMatch
  <2>3. (tor * d + port) \div d = tor /\ (tor * d + port) % d = port
    BY <1>1, <1>9, <2>1, DivisionUnique
  <2>4. tor * d \in Nat /\ q * d \in Nat  BY <1>1, <1>6, <2>1
  <2>5. ASSUME port + tor * d = host  PROVE port = r /\ tor = q
    <3>1. tor * d + port = host  BY ONLY <2>4, <2>5, <1>9
    <3>2. QED  BY <1>5, <2>3, <3>1
  <2>6. ASSUME port = r, tor = q  PROVE port + tor * d = host
    BY <1>6, <2>4, <2>6
  <2>7. QED  BY <2>2, <2>5, <2>6
<1>10. q \in Tors  BY <1>1, <1>7 DEF Tors, TorsOf
<1>11. QED  BY <1>1, <1>4, <1>6, <1>8, <1>9, <1>10

\* The path of a packet takes uplinks, and in its slice the links it takes
\* lead to its ToR.
LEMMA PathFacts ==
  ASSUME network \in DOMAIN Networks, pkt \in Packets, Routed, SrcToR # DstToR
  PROVE  /\ ThePath \in Seq(Uplinks) /\ Len(ThePath) \in Nat /\ Len(ThePath) > 0
         /\ pkt.maxhops = Len(ThePath)
         /\ \A h \in 1..Len(ThePath) : ThePath[h] \in Uplinks
         /\ \E tors \in [1..(Len(ThePath) + 1) -> Tors] :
              FollowsLinks(Net, tors, ThePath, pkt.slice, SrcToR, DstToR)
<1>1. SrcToR \in Tors /\ DstToR \in Tors /\ pkt.slice \in Slices
  BY HostPorts DEF Packets, SrcToR, DstToR
<1>2. pkt.path \in DOMAIN Paths(SrcToR, DstToR, pkt.slice) /\ pkt.maxhops = Len(ThePath)
  BY DEF Routed
<1>3. IsPath(Net, ThePath, pkt.slice, SrcToR, DstToR)
  BY <1>1, <1>2, NetTypes DEF IsNetwork, Tors, Slices, Paths, ThePath
<1>4. /\ ThePath \in Seq(Uplinks) /\ ThePath # <<>>
      /\ \E tors \in [1..(Len(ThePath) + 1) -> Tors] :
           FollowsLinks(Net, tors, ThePath, pkt.slice, SrcToR, DstToR)
  BY <1>3 DEF IsPath, Uplinks, Tors
<1>5. Len(ThePath) \in Nat /\ Len(ThePath) > 0  BY <1>4, LenProperties, EmptySeq
<1>6. \A h \in 1..Len(ThePath) : ThePath[h] \in Uplinks  BY <1>4, ElementOfSeq
<1>7. QED  BY <1>2, <1>4, <1>5, <1>6

\* An uplink is no downlink, and leads to a ToR or is down.
LEMMA LinkFacts ==
  ASSUME network \in DOMAIN Networks, NEW port \in Uplinks
  PROVE  /\ port \in 0..(Net.ndl + Net.nul - 1) /\ ~ IsLastHop(port)
         /\ \A slice \in Slices, tor \in Tors : NextToR(slice, tor, port) \in Tors \cup {Down}
<1>1. port \in 0..(Net.ndl + Net.nul - 1) /\ ~ IsLastHop(port)
  BY NetTypes DEF Uplinks, UplinksOf, IsLastHop
<1>2. Net.adjacency \in [Slices -> [Tors -> [Uplinks -> Tors \cup {Down}]]]
  BY NetTypes DEF IsNetwork, Slices, Tors, Uplinks
<1>3. QED  BY <1>1, <1>2 DEF NextToR

\* The routes a packet can be given.
LEMMA RouteFacts ==
  ASSUME network \in DOMAIN Networks, pkt \in Packets,
         NEW slice \in Slices, NEW route \in Routes(slice)
  PROVE  /\ route.path \in Nat /\ route.hops \in Nat
         /\ IF SrcToR = DstToR THEN route.hops = 0
            ELSE /\ route.path \in DOMAIN Paths(SrcToR, DstToR, slice)
                 /\ route.hops = Len(Paths(SrcToR, DstToR, slice)[route.path])
<1>1. SrcToR \in Tors /\ DstToR \in Tors
  BY HostPorts DEF Packets, SrcToR, DstToR
<1>2. CASE SrcToR = DstToR  BY <1>2 DEF Routes
<1>3. CASE SrcToR # DstToR
  <2>1. PICK k \in DOMAIN Paths(SrcToR, DstToR, slice) :
          route = [path |-> k, hops |-> GetNoHops(SrcToR, DstToR, slice, k)]
    BY <1>3 DEF Routes
  <2>2. k \in Nat /\ IsPath(Net, Paths(SrcToR, DstToR, slice)[k], slice, SrcToR, DstToR)
    BY <1>1, <1>3, NetTypes DEF IsNetwork, Tors, Slices, Paths
  <2>3. Len(Paths(SrcToR, DstToR, slice)[k]) \in Nat
    BY <2>2, LenProperties DEF IsPath
  <2>4. QED  BY <1>3, <2>1, <2>2, <2>3 DEF GetNoHops
<1>4. QED  BY <1>2, <1>3

\* The network is that of the run, and so are the ToRs, the hosts, the packets.
LEMMA SameNet ==
  ASSUME network' = network
  PROVE  /\ Net' = Net /\ Tors' = Tors /\ Slices' = Slices /\ Hosts' = Hosts
         /\ Uplinks' = Uplinks /\ Packets' = Packets
  BY DEF Net, Tors, Slices, Hosts, Uplinks, Packets

\* A packet that keeps its slice and path keeps its way.
LEMMA SameWay ==
  ASSUME network' = network,
         pkt'.src = pkt.src, pkt'.dst = pkt.dst, pkt'.slice = pkt.slice,
         pkt'.path = pkt.path, pkt'.maxhops = pkt.maxhops
  PROVE  /\ SrcToR' = SrcToR /\ DstToR' = DstToR /\ ThePath' = ThePath
         /\ Routed' <=> Routed
         /\ LastPort(pkt.dst)' = LastPort(pkt.dst)
  BY SameNet DEF SrcToR, DstToR, FirstToR, LastPort, ThePath, Paths, Routed

-----------------------------------------------------------------------------
(* The steps *)

\* A packet starts at its host.
LEMMA InitIInv == Init => IInv
<1> SUFFICES ASSUME Init  PROVE IInv  OBVIOUS
<1>1. network \in DOMAIN Networks /\ jitter \in BOOLEAN  BY DEF Init
<1>2. PICK type \in Kinds, src \in Hosts, dst \in Hosts :
        pkt = [type |-> type, src |-> src, dst |-> dst, slice |-> 0, path |-> 0,
               maxhops |-> 0, crthop |-> 0, tidalhop |-> 0, crttor |-> -1, crtport |-> -1]
  BY DEF Init
<1>3. /\ 0 \in Slices /\ -1 \in -1..(Net.ntor - 1)
      /\ -1 \in -1..(Net.ndl + Net.nul - 1)
  BY <1>1, NetTypes DEF Slices, SlicesOf
<1>4. pkt \in Packets  BY <1>2, <1>3, FabricAssumption DEF Packets
<1>5. TypeOK  BY <1>1, <1>4 DEF Init, TypeOK, Places, NoCounters, Counters
<1>6. Stage  BY <1>2 DEF Init, Stage, NoCounters
<1>7. QED
  BY <1>5, <1>6 DEF Init, IInv, CreditAccounted, WasteIsLinksUsed, DeliveredToDst,
                    StaticKeepsAll, NoCounters

\* Credits and control packets are given the hop count of some route.
LEMMA SendToNICStep ==
  ASSUME IInv, SendToNIC
  PROVE  IInv'
<1>1. /\ network \in DOMAIN Networks /\ pkt \in Packets /\ jitter \in BOOLEAN
      /\ network' = network /\ jitter' = jitter /\ links' = links /\ seen' = seen
      /\ place = "unsent" /\ place' = "nic" /\ links = 0 /\ seen = {} /\ pkt.crthop = 0
      /\ counters.waste = 0 /\ counters.topology = 0
  BY DEF IInv, TypeOK, Stage, SendToNIC
<1>2. pkt' \in Packets /\ pkt'.crthop = 0 /\ pkt'.type = pkt.type
  <2>1. CASE pkt' = pkt  BY <1>1, <2>1
  <2>2. ASSUME NEW slice \in Slices, NEW j \in Jitters, NEW route \in Routes(slice),
               pkt' = [pkt EXCEPT !.maxhops = route.hops, !.crthop = 0,
                                  !.tidalhop = GreaterOf(GreaterOf(route.hops, 1) + j, 1)]
        PROVE  pkt' \in Packets /\ pkt'.crthop = 0 /\ pkt'.type = pkt.type
    <3>1. route.hops \in Nat  BY <1>1, <2>2, RouteFacts
    <3>2. j \in Int  BY DEF Jitters
    <3>3. GreaterOf(GreaterOf(route.hops, 1) + j, 1) \in Nat  BY <3>1, <3>2 DEF GreaterOf
    <3>4. QED  BY <1>1, <2>2, <3>1, <3>3 DEF Packets
  <2>3. QED  BY <2>1, <2>2 DEF SendToNIC
<1>3. IsCredit' <=> IsCredit  BY <1>2 DEF IsCredit
<1>4. counters \in Counters
  BY DEF IInv, TypeOK
<1>5. /\ counters' \in Counters
      /\ counters'.waste = 0 /\ counters'.topology = 0
      /\ counters'.delivered = counters.delivered /\ counters'.dropped = counters.dropped
      /\ IsCredit => counters'.generated = 1
  <2>1. CASE IsCredit
    <3>1. counters' = [counters EXCEPT !.generated = 1]  BY <2>1 DEF SendToNIC
    <3>2. QED  BY <1>1, <1>4, <3>1 DEF Counters
  <2>2. CASE ~ IsCredit  BY <1>1, <1>4, <2>2 DEF SendToNIC
  <2>3. QED  BY <2>1, <2>2
<1>6. TypeOK'  BY <1>1, <1>2, <1>5, SameNet DEF IInv, TypeOK, Places
<1>7. Stage'  BY <1>1, <1>2, <1>5 DEF Stage
<1>8. CreditAccounted'  BY <1>1, <1>3, <1>5 DEF IInv, CreditAccounted
<1>9. QED  BY <1>1, <1>5, <1>6, <1>7, <1>8 DEF IInv, WasteIsLinksUsed, DeliveredToDst, StaticKeepsAll

\* The packet gets its slice and path.
LEMMA NICSendStep ==
  ASSUME IInv, NICSend
  PROVE  IInv'
<1>1. /\ network \in DOMAIN Networks /\ pkt \in Packets /\ jitter \in BOOLEAN
      /\ network' = network /\ jitter' = jitter /\ links' = links /\ seen' = seen
      /\ counters' = counters
      /\ place = "nic" /\ place' = "access" /\ links = 0 /\ seen = {}
      /\ counters.waste = 0 /\ counters.topology = 0
  BY DEF IInv, TypeOK, Stage, NICSend
<1>2. PICK slice \in Slices, j \in Jitters : \E route \in Routes(slice) :
        pkt' = [pkt EXCEPT !.slice = slice, !.path = route.path, !.maxhops = route.hops,
                           !.crthop = -1, !.crttor = -1,
                           !.tidalhop = GreaterOf(route.hops, 1) + j]
  BY DEF NICSend
<1>0. PICK route \in Routes(slice) :
        pkt' = [pkt EXCEPT !.slice = slice, !.path = route.path, !.maxhops = route.hops,
                           !.crthop = -1, !.crttor = -1,
                           !.tidalhop = GreaterOf(route.hops, 1) + j]
  BY <1>2
<1>3. /\ route.path \in Nat /\ route.hops \in Nat
      /\ IF SrcToR = DstToR THEN route.hops = 0
         ELSE /\ route.path \in DOMAIN Paths(SrcToR, DstToR, slice)
              /\ route.hops = Len(Paths(SrcToR, DstToR, slice)[route.path])
  BY <1>1, RouteFacts
<1>4. j \in {-1, 0, 1} /\ (~ jitter => j = 0)  BY DEF Jitters
<1>5. GreaterOf(route.hops, 1) + j \in Nat  BY <1>3, <1>4 DEF GreaterOf
<1>6. -1 \in -1..(Net.ntor - 1)  BY <1>1, NetTypes
<1>7. /\ pkt' \in Packets /\ pkt'.type = pkt.type /\ pkt'.src = pkt.src /\ pkt'.dst = pkt.dst
      /\ pkt'.slice = slice /\ pkt'.path = route.path /\ pkt'.maxhops = route.hops
      /\ pkt'.crthop = -1 /\ pkt'.tidalhop = GreaterOf(route.hops, 1) + j
  BY <1>1, <1>0, <1>3, <1>5, <1>6 DEF Packets
<1>8. SrcToR' = SrcToR /\ DstToR' = DstToR
  BY <1>1, <1>7, SameNet DEF SrcToR, DstToR, FirstToR
<1>9. Routed'  BY <1>1, <1>3, <1>7, <1>8, SameNet DEF Routed, ThePath, Paths
<1>10. HopsLeft(pkt.maxhops)'
  <2>1. GreaterOf(route.hops, 1) \in Nat  BY <1>3 DEF GreaterOf
  <2>2. QED  BY <1>1, <1>4, <1>7, <2>1 DEF HopsLeft
<1>11. TypeOK'  BY <1>1, <1>7, SameNet DEF IInv, TypeOK, Places
<1>12. Stage'  BY <1>1, <1>7, <1>9, <1>10 DEF Stage
<1>13. CreditAccounted'  BY <1>1, <1>7 DEF IInv, CreditAccounted, IsCredit
<1>14. QED  BY <1>1, <1>11, <1>12, <1>13 DEF IInv, WasteIsLinksUsed, DeliveredToDst, StaticKeepsAll

\* The next ToR queue on the way.
LEMMA EnterFacts ==
  ASSUME IInv, Routed, pkt.crthop \in -1..(pkt.maxhops - 1),
         NEW tor \in Tors, NEW tidal \in Nat, EnterToR(tor, tidal),
         network' = network, jitter' = jitter,
         seen' \subseteq {pkt.slice} => OnPath(tor, pkt.crthop + 1),
         ~ jitter => tidal = GreaterOf(pkt.maxhops - (pkt.crthop + 1), 1)
  PROVE  /\ pkt' \in Packets /\ pkt'.type = pkt.type /\ pkt'.src = pkt.src
         /\ pkt'.crthop = pkt.crthop + 1
         /\ AtToR' /\ HopsLeft(pkt.maxhops - pkt.crthop)'
<1>1. network \in DOMAIN Networks /\ pkt \in Packets /\ pkt.dst \in Hosts
  BY DEF IInv, TypeOK, Packets
<1>2. PICK hop \in Nat, hops \in Nat : hop = pkt.crthop + 1 /\ hops = pkt.maxhops /\ hop <= hops
  BY <1>1 DEF Packets
<1>3. PICK port : port = IF hop = hops THEN LastPort(pkt.dst) ELSE ThePath[hop + 1]
  OBVIOUS
<1>4. port \in 0..(Net.ndl + Net.nul - 1)
  <2>1. CASE hop = hops
    <3>1. Net.nul \in Nat /\ Net.ndl \in Nat  BY <1>1, NetTypes
    <3>2. port \in 0..(Net.ndl - 1)  BY <1>1, <1>3, <2>1, HostPorts
    <3>3. QED  BY <3>1, <3>2
  <2>2. CASE hop # hops
    <3>1. SrcToR # DstToR  BY <1>2, <2>2 DEF Routed
    <3>2. Len(ThePath) = hops /\ \A h \in 1..Len(ThePath) : ThePath[h] \in Uplinks
      BY <1>1, <1>2, <3>1, PathFacts
    <3>3. hop + 1 \in 1..Len(ThePath)  BY <1>2, <2>2, <3>2
    <3>4. port \in Uplinks  BY <1>3, <2>2, <3>2, <3>3
    <3>5. QED  BY <1>1, <3>4, LinkFacts
  <2>3. QED  BY <2>1, <2>2
<1>5. pkt' = [pkt EXCEPT !.crttor = tor, !.crthop = hop, !.tidalhop = tidal, !.crtport = port]
  BY <1>2, <1>3 DEF EnterToR, GetPort, ThePath
<1>6. tor \in -1..(Net.ntor - 1) /\ port \in -1..(Net.ndl + Net.nul - 1)
  <2>1. Net.ntor \in Nat /\ Net.nul \in Nat /\ Net.ndl \in Nat  BY <1>1, NetTypes
  <2>2. QED  BY <1>4, <2>1 DEF Tors, TorsOf
<1>7. /\ pkt' \in Packets /\ pkt'.type = pkt.type /\ pkt'.src = pkt.src /\ pkt'.dst = pkt.dst
      /\ pkt'.slice = pkt.slice /\ pkt'.path = pkt.path /\ pkt'.maxhops = pkt.maxhops
      /\ pkt'.crthop = hop /\ pkt'.crttor = tor /\ pkt'.crtport = port /\ pkt'.tidalhop = tidal
  BY <1>1, <1>5, <1>6 DEF Packets
<1>8. /\ SrcToR' = SrcToR /\ DstToR' = DstToR /\ ThePath' = ThePath
      /\ Routed' /\ LastPort(pkt.dst)' = LastPort(pkt.dst)
      /\ Net' = Net /\ Tors' = Tors
  BY <1>7, SameWay, SameNet
<1>9. OnPath(tor, hop) => OnPath(pkt.crttor, pkt.crthop)'
  BY <1>7, <1>8 DEF OnPath, FollowsLinks
<1>10. AtToR'
  <2>1. (seen \subseteq {pkt.slice})' => OnPath(pkt.crttor, pkt.crthop)'  BY <1>2, <1>7, <1>9
  <2>2. pkt'.crthop \in 0..pkt'.maxhops  BY <1>2, <1>7
  <2>3. pkt'.crtport = IF pkt'.crthop = pkt'.maxhops THEN LastPort(pkt.dst)'
                       ELSE ThePath'[pkt'.crthop + 1]
    BY <1>2, <1>3, <1>7, <1>8
  <2>4. pkt'.crttor \in Tors'  BY <1>7, <1>8
  <2>5. QED  BY <1>8, <2>1, <2>2, <2>3, <2>4 DEF AtToR
<1>11. HopsLeft(pkt.maxhops - pkt.crthop)'  BY <1>2, <1>7 DEF HopsLeft
<1>12. QED  BY <1>2, <1>7, <1>10, <1>11

\* The packet comes to the ToR of its host.
LEMMA LeaveAccessStep ==
  ASSUME IInv, LeaveAccess
  PROVE  IInv'
<1>1. /\ network \in DOMAIN Networks /\ pkt \in Packets /\ pkt.tidalhop \in Nat
      /\ network' = network /\ jitter' = jitter /\ links' = links /\ seen' = seen
      /\ counters' = counters /\ place = "access" /\ place' = "queue"
      /\ links = 0 /\ seen = {} /\ pkt.crthop = -1 /\ Routed /\ HopsLeft(pkt.maxhops)
      /\ counters.waste = 0 /\ counters.topology = 0
  BY DEF IInv, TypeOK, Stage, LeaveAccess, EnterToR, Packets
<1>2. SrcToR \in Tors  BY <1>1, HostPorts DEF SrcToR, Packets
<1>3. pkt.maxhops \in Nat  BY <1>1 DEF Packets
<1>4. OnPath(SrcToR, 0)
  <2>1. CASE SrcToR = DstToR  BY <2>1 DEF OnPath
  <2>2. CASE SrcToR # DstToR
    <3>1. PICK tors \in [1..(Len(ThePath) + 1) -> Tors] :
            FollowsLinks(Net, tors, ThePath, pkt.slice, SrcToR, DstToR)
      BY <1>1, <2>2, PathFacts
    <3>2. SrcToR = tors[0 + 1]  BY <3>1 DEF FollowsLinks
    <3>3. QED  BY <2>2, <3>1, <3>2 DEF OnPath
  <2>3. QED  BY <2>1, <2>2
<1>5. /\ pkt.crthop \in -1..(pkt.maxhops - 1)
      /\ pkt.crthop + 1 = 0 /\ pkt.maxhops - 0 = pkt.maxhops
  BY <1>1, <1>3
<1>6. EnterToR(SrcToR, pkt.tidalhop)  BY DEF LeaveAccess
<1>7. ~ jitter => pkt.tidalhop = GreaterOf(pkt.maxhops - (pkt.crthop + 1), 1)
  BY <1>1, <1>5 DEF HopsLeft
<1>8. /\ pkt' \in Packets /\ pkt'.type = pkt.type /\ pkt'.src = pkt.src
      /\ pkt'.crthop = pkt.crthop + 1
      /\ AtToR' /\ HopsLeft(pkt.maxhops - pkt.crthop)'
  BY <1>1, <1>2, <1>4, <1>5, <1>6, <1>7, EnterFacts
<1>9. TypeOK'  BY <1>1, <1>8, SameNet DEF IInv, TypeOK, Places
<1>10. Stage'  BY <1>1, <1>5, <1>8 DEF Stage
<1>11. CreditAccounted'  BY <1>1, <1>8 DEF IInv, CreditAccounted, IsCredit
<1>12. QED  BY <1>1, <1>9, <1>10, <1>11 DEF IInv, WasteIsLinksUsed, DeliveredToDst, StaticKeepsAll

\* Before its last ToR a packet is to take an uplink; one on its path stays on
\* it as long as the slice does.
LEMMA OnwardFacts ==
  ASSUME network \in DOMAIN Networks, pkt \in Packets, AtToR, pkt.crthop < pkt.maxhops
  PROVE  /\ pkt.crtport \in Uplinks /\ pkt.crthop \in Nat
         /\ OnPath(pkt.crttor, pkt.crthop) =>
              LET next == NextToR(pkt.slice, pkt.crttor, pkt.crtport)
              IN next \in Tors /\ OnPath(next, pkt.crthop + 1)
<1>1. PICK hop \in Nat, hops \in Nat : hop = pkt.crthop /\ hops = pkt.maxhops /\ hop < hops
  BY DEF AtToR, Packets
<1>2. SrcToR # DstToR  BY <1>1 DEF AtToR, Routed
<1>3. /\ Len(ThePath) \in Nat /\ hops = Len(ThePath)
      /\ \A h \in 1..Len(ThePath) : ThePath[h] \in Uplinks
  BY <1>1, <1>2, PathFacts DEF AtToR
<1>4. hop + 1 \in 1..Len(ThePath)  BY <1>1, <1>3
<1>5. pkt.crtport = ThePath[hop + 1]  BY <1>1 DEF AtToR
<1>6. ASSUME OnPath(pkt.crttor, pkt.crthop),
             NEW next, next = NextToR(pkt.slice, pkt.crttor, pkt.crtport)
      PROVE  next \in Tors /\ OnPath(next, pkt.crthop + 1)
  <2>1. PICK tors \in [1..(Len(ThePath) + 1) -> Tors] :
          /\ FollowsLinks(Net, tors, ThePath, pkt.slice, SrcToR, DstToR)
          /\ pkt.crttor = tors[hop + 1]
    BY <1>1, <1>2, <1>6 DEF OnPath
  <2>2. next = tors[hop + 1 + 1]
    BY <1>4, <1>5, <1>6, <2>1 DEF FollowsLinks, NextToR
  <2>3. hop + 1 + 1 \in 1..(Len(ThePath) + 1)  BY <1>3, <1>4
  <2>4. QED  BY <1>1, <1>2, <2>1, <2>2, <2>3 DEF OnPath
<1>7. QED  BY <1>1, <1>3, <1>4, <1>5, <1>6

\* At its last ToR it is to take the downlink, and on its path that ToR is the
\* one of its host.
LEMMA LastFacts ==
  ASSUME network \in DOMAIN Networks, pkt \in Packets, AtToR, pkt.crthop = pkt.maxhops
  PROVE  /\ pkt.crtport = LastPort(pkt.dst) /\ IsLastHop(pkt.crtport)
         /\ OnPath(pkt.crttor, pkt.crthop) => pkt.crttor = DstToR
<1>1. pkt.crtport = LastPort(pkt.dst) /\ pkt.dst \in Hosts  BY DEF AtToR, Packets
<1>2. IsLastHop(pkt.crtport)  BY <1>1, HostPorts DEF IsLastHop
<1>3. ASSUME OnPath(pkt.crttor, pkt.crthop)  PROVE pkt.crttor = DstToR
  <2>1. CASE SrcToR = DstToR  BY <1>3, <2>1 DEF OnPath
  <2>2. CASE SrcToR # DstToR
    <3>1. PICK tors \in [1..(Len(ThePath) + 1) -> Tors] :
            /\ FollowsLinks(Net, tors, ThePath, pkt.slice, SrcToR, DstToR)
            /\ pkt.crttor = tors[pkt.crthop + 1]
      BY <1>3, <2>2 DEF OnPath
    <3>2. pkt.crthop = Len(ThePath)  BY <2>2 DEF AtToR, Routed
    <3>3. QED  BY <3>1, <3>2 DEF FollowsLinks
  <2>3. QED  BY <2>1, <2>2
<1>4. QED  BY <1>1, <1>2, <1>3

\* A packet that has met no other slice than that of its path is on its path.
LEMMA SliceKept ==
  ASSUME IInv, place \in {"queue", "link"}, seen \subseteq {pkt.slice}
  PROVE  OnPath(pkt.crttor, pkt.crthop)
  BY DEF IInv, Stage, AtToR

\* In a network of one slice every packet is.
LEMMA StaticSlice ==
  ASSUME network \in DOMAIN Networks, pkt \in Packets, Net.nslice = 1
  PROVE  \A slice \in Slices : slice = pkt.slice
<1>1. Slices = {0}  BY DEF Slices, SlicesOf
<1>2. pkt.slice \in Slices  BY DEF Packets
<1>3. QED  BY <1>1, <1>2

\* A topology drop is counted once, and takes back a delivery.
Lost(count, consumed, after) ==
  \/ after = TopologyDrop(count, consumed, TRUE)
  \/ count.delivered = 0 /\ after = TopologyDrop(count, consumed, FALSE)

\* The counters after a topology drop.
LEMMA TopologyDropFacts ==
  ASSUME NEW count \in Counters, NEW consumed \in Nat,
         count.dropped = 0, count.topology = 0, count.waste = 0,
         NEW after, Lost(count, consumed, after)
  PROVE  /\ after \in Counters /\ after.generated = count.generated
         /\ after.delivered = 0 /\ after.dropped = 1
         /\ after.waste = consumed
<1>1. count.delivered \in {0, 1}  BY DEF Counters
<1>2. after = [count EXCEPT !.delivered = 0, !.dropped = count.dropped + 1,
                            !.topology = count.topology + 1, !.waste = count.waste + consumed]
  <2>1. CASE after = TopologyDrop(count, consumed, TRUE)
    <3>1. PICK d : d = IF TRUE /\ count.delivered > 0 THEN count.delivered - 1 ELSE count.delivered
      OBVIOUS
    <3>2. d = 0  BY <1>1, <3>1
    <3>3. QED  BY <2>1, <3>1, <3>2 DEF TopologyDrop
  <2>2. CASE count.delivered = 0 /\ after = TopologyDrop(count, consumed, FALSE)
    <3>1. PICK d : d = IF FALSE /\ count.delivered > 0 THEN count.delivered - 1 ELSE count.delivered
      OBVIOUS
    <3>2. d = 0  BY <2>2, <3>1
    <3>3. QED  BY <2>2, <3>1, <3>2 DEF TopologyDrop
  <2>3. QED  BY <2>1, <2>2 DEF Lost
<1>3. count.dropped + 1 = 1 /\ count.topology + 1 = 1 /\ count.waste + consumed = consumed
  OBVIOUS
<1>4. after = [count EXCEPT !.delivered = 0, !.dropped = 1, !.topology = 1, !.waste = consumed]
  BY ONLY <1>2, <1>3
<1>5. 0 \in 0..1 /\ 1 \in 0..1  OBVIOUS
<1>6. QED  BY ONLY <1>4, <1>5, count \in Counters, consumed \in Nat DEF Counters

\* A credit that is dropped is counted, with the links it used.
LEMMA DroppedIInv ==
  ASSUME IInv, network' = network, jitter' = jitter, pkt' = pkt,
         place # "unsent", place' = "dropped", links' \in Nat, seen' \subseteq Slices,
         counters' \in Counters, counters'.topology > 0 => Net.nslice # 1,
         IsCredit => /\ counters'.generated = counters.generated
                     /\ counters'.delivered = 0 /\ counters'.dropped = 1
                     /\ counters'.waste = links'
  PROVE  IInv'
<1>1. TypeOK'  BY SameNet DEF IInv, TypeOK, Places
<1>2. IsCredit' <=> IsCredit  BY DEF IsCredit
<1>3. CreditAccounted' /\ WasteIsLinksUsed'
  BY <1>2 DEF IInv, CreditAccounted, WasteIsLinksUsed
<1>4. counters'.topology \in 0..1  BY DEF Counters
<1>5. StaticKeepsAll'  BY <1>4, SameNet DEF StaticKeepsAll
<1>6. Stage' /\ DeliveredToDst'  BY DEF Stage, DeliveredToDst
<1>7. QED  BY <1>1, <1>3, <1>5, <1>6 DEF IInv

\* The packet comes to the ToR the link leads to now, or finds it down.
LEMMA LeaveLinkStep ==
  ASSUME IInv, LeaveLink
  PROVE  IInv'
<1>1. /\ network \in DOMAIN Networks /\ pkt \in Packets /\ pkt.tidalhop \in Nat
      /\ counters \in Counters /\ seen \subseteq Slices
      /\ network' = network /\ jitter' = jitter /\ links' = links /\ place = "link"
      /\ AtToR /\ HopsLeft(pkt.maxhops - pkt.crthop) /\ links = pkt.crthop + 1
      /\ pkt.crthop < pkt.maxhops /\ counters.waste = 0 /\ counters.topology = 0
  BY DEF IInv, TypeOK, Stage, LeaveLink, Packets
<1>2. PICK hop \in Nat, hops \in Nat : hop = pkt.crthop /\ hops = pkt.maxhops /\ hop < hops
  BY <1>1, OnwardFacts DEF Packets
<1>0. PICK slice \in Slices :
        LET next == NextToR(slice, pkt.crttor, pkt.crtport)
        IN /\ seen' = seen \cup {slice}
           /\ IF next # Down
              THEN EnterToR(next, Countdown(pkt.tidalhop)) /\ UNCHANGED counters
              ELSE /\ place' = "dropped"
                   /\ counters' = IF IsCredit THEN TopologyDrop(counters, GreaterOf(pkt.crthop + 1, 1), FALSE)
                                  ELSE counters
                   /\ UNCHANGED pkt
  BY DEF LeaveLink
<1> DEFINE next == NextToR(slice, pkt.crttor, pkt.crtport)
<1>3. /\ seen' = seen \cup {slice}
      /\ IF next # Down
         THEN EnterToR(next, Countdown(pkt.tidalhop)) /\ UNCHANGED counters
         ELSE /\ place' = "dropped"
              /\ counters' = IF IsCredit THEN TopologyDrop(counters, GreaterOf(pkt.crthop + 1, 1), FALSE)
                             ELSE counters
              /\ UNCHANGED pkt
  BY <1>0
<1>4. /\ pkt.crtport \in Uplinks /\ pkt.crttor \in Tors
      /\ next \in Tors \cup {Down} /\ seen' \subseteq Slices
  BY <1>1, <1>3, OnwardFacts, LinkFacts DEF AtToR
<1>5. seen' \subseteq {pkt.slice} => next \in Tors /\ OnPath(next, pkt.crthop + 1)
  <2>1. SUFFICES ASSUME seen' \subseteq {pkt.slice}
                 PROVE  next \in Tors /\ OnPath(next, pkt.crthop + 1)
    OBVIOUS
  <2>2. slice = pkt.slice /\ seen \subseteq {pkt.slice}  BY <1>3, <2>1
  <2>3. OnPath(pkt.crttor, pkt.crthop)  BY <1>1, <2>2, SliceKept
  <2>4. QED  BY <1>1, <1>3, <2>2, <2>3, OnwardFacts
<1> HIDE DEF next
<1>6. CASE next # Down
  <2>1. next \in Tors /\ EnterToR(next, Countdown(pkt.tidalhop)) /\ counters' = counters
        /\ place' = "queue"
    BY <1>3, <1>4, <1>6 DEF EnterToR
  <2>2. Countdown(pkt.tidalhop) \in Nat  BY <1>1 DEF Countdown, GreaterOf
  <2>3. ~ jitter => Countdown(pkt.tidalhop) = GreaterOf(pkt.maxhops - (pkt.crthop + 1), 1)
    <3>1. SUFFICES ASSUME ~ jitter
                   PROVE  Countdown(pkt.tidalhop) = GreaterOf(hops - (hop + 1), 1)
      BY <1>2
    <3>2. pkt.tidalhop = GreaterOf(hops - hop, 1)  BY <1>1, <1>2, <3>1 DEF HopsLeft
    <3>3. QED  BY <1>2, <3>2 DEF Countdown, GreaterOf
  <2>4. pkt.crthop \in -1..(pkt.maxhops - 1)  BY <1>2
  <2>5. Routed  BY <1>1 DEF AtToR
  <2>6. /\ pkt' \in Packets /\ pkt'.type = pkt.type /\ pkt'.src = pkt.src
        /\ pkt'.crthop = pkt.crthop + 1
        /\ AtToR' /\ HopsLeft(pkt.maxhops - pkt.crthop)'
    BY <1>1, <1>5, <2>1, <2>2, <2>3, <2>4, <2>5, EnterFacts
  <2>7. TypeOK'  BY <1>1, <1>4, <2>1, <2>6, SameNet DEF IInv, TypeOK, Places
  <2>8. Stage'  BY <1>1, <2>1, <2>6 DEF Stage
  <2>9. CreditAccounted'  BY <1>1, <2>1, <2>6 DEF IInv, CreditAccounted, IsCredit
  <2>10. QED
    BY <1>1, <2>1, <2>7, <2>8, <2>9 DEF IInv, WasteIsLinksUsed, DeliveredToDst, StaticKeepsAll
<1>7. CASE next = Down
  <2>1. /\ place' = "dropped" /\ pkt' = pkt
        /\ counters' = IF IsCredit THEN TopologyDrop(counters, GreaterOf(pkt.crthop + 1, 1), FALSE)
                       ELSE counters
    BY <1>3, <1>7
  <2>2. Net.nslice # 1
    <3>1. SUFFICES ASSUME Net.nslice = 1  PROVE FALSE  OBVIOUS
    <3>2. seen' \subseteq {pkt.slice}  BY <1>1, <1>4, <3>1, StaticSlice
    <3>3. next \in Tors  BY <1>5, <3>2
    <3>4. QED  BY <1>1, <1>7, <3>3, NetTypes DEF Tors, TorsOf, Down
  <2>3. GreaterOf(pkt.crthop + 1, 1) = links /\ links \in Nat  BY <1>1, <1>2 DEF GreaterOf
  <2>4. CASE IsCredit
    <3>1. counters.delivered = 0 /\ counters.dropped = 0
      BY <1>1, <2>4 DEF IInv, CreditAccounted
    <3>2. PICK after : after = TopologyDrop(counters, links, FALSE)  OBVIOUS
    <3>3. Lost(counters, links, after)  BY <3>1, <3>2 DEF Lost
    <3>4. /\ after \in Counters /\ after.generated = counters.generated
          /\ after.delivered = 0 /\ after.dropped = 1 /\ after.waste = links
      BY <1>1, <2>3, <3>1, <3>3, TopologyDropFacts
    <3>5. counters' = after  BY <2>1, <2>3, <2>4, <3>2
    <3>6. QED  BY <1>1, <1>4, <2>1, <2>2, <2>3, <3>4, <3>5, DroppedIInv
  <2>5. CASE ~ IsCredit  BY <1>1, <1>4, <2>1, <2>2, <2>3, <2>5, DroppedIInv
  <2>6. QED  BY <2>4, <2>5
<1>8. QED  BY <1>6, <1>7

\* The packet leaves a ToR for the next link or a downlink; at the wrong
\* downlink it is dropped, and not counted as delivered any more.
LEMMA ToRSendStep ==
  ASSUME IInv, ToRSend
  PROVE  IInv'
<1> DEFINE isDown == IsLastHop(pkt.crtport)
           wrong  == ~ PortDstMatch(pkt.crtport, pkt.crttor, pkt.dst)
           sent   == IF IsCredit /\ isDown THEN [counters EXCEPT !.delivered = @ + 1] ELSE counters
<1>1. /\ network \in DOMAIN Networks /\ pkt \in Packets /\ pkt.dst \in Hosts
      /\ counters \in Counters /\ seen \subseteq Slices
      /\ network' = network /\ jitter' = jitter /\ pkt' = pkt /\ seen' = seen
      /\ place = "queue" /\ links = pkt.crthop
      /\ AtToR /\ HopsLeft(pkt.maxhops - pkt.crthop)
      /\ counters.waste = 0 /\ counters.topology = 0
  BY DEF IInv, TypeOK, Stage, ToRSend, Packets
<1>2. PICK hop \in Nat, hops \in Nat : hop = pkt.crthop /\ hops = pkt.maxhops /\ hop <= hops
  BY <1>1 DEF AtToR, Packets
<1>3. IsCredit => counters.generated = 1 /\ counters.delivered = 0 /\ counters.dropped = 0
  BY <1>1 DEF IInv, CreditAccounted
<1>4. PICK out : out = sent  OBVIOUS
<1>5. /\ out \in Counters /\ out.generated = counters.generated /\ out.dropped = counters.dropped
      /\ out.waste = 0 /\ out.topology = 0
      /\ IsCredit => out.delivered = IF isDown THEN 1 ELSE 0
  <2>1. CASE IsCredit /\ isDown
    <3>1. out = [counters EXCEPT !.delivered = 1]  BY <1>3, <1>4, <2>1
    <3>2. QED  BY <1>1, <2>1, <3>1 DEF Counters
  <2>2. CASE ~ (IsCredit /\ isDown)  BY <1>1, <1>3, <1>4, <2>2
  <2>3. QED  BY <2>1, <2>2
<1>6. IsCredit' <=> IsCredit  BY <1>1 DEF IsCredit
<1>7. CASE isDown /\ wrong /\ place' = "dropped" /\ links' = links
           /\ counters' = IF IsCredit THEN TopologyDrop(out, GreaterOf(pkt.crthop, 0), TRUE) ELSE out
  <2>1. Net.nslice # 1
    <3>1. SUFFICES ASSUME Net.nslice = 1  PROVE FALSE  OBVIOUS
    <3>2. OnPath(pkt.crttor, pkt.crthop)
      BY <1>1, <3>1, StaticSlice, SliceKept
    <3>3. hop = hops
      <4>1. SUFFICES ASSUME hop < hops  PROVE FALSE  BY <1>2
      <4>2. pkt.crtport \in Uplinks  BY <1>1, <1>2, <4>1, OnwardFacts
      <4>3. QED  BY <1>1, <1>7, <4>2, LinkFacts
    <3>4. pkt.crttor = DstToR /\ pkt.crtport = LastPort(pkt.dst)
      BY <1>1, <1>2, <3>2, <3>3, LastFacts
    <3>5. QED  BY <1>1, <1>7, <3>4, HostPorts DEF DstToR, IsLastHop
  <2>2. GreaterOf(pkt.crthop, 0) = links /\ links \in Nat  BY <1>1, <1>2 DEF GreaterOf
  <2>3. CASE IsCredit
    <3>1. PICK after : after = TopologyDrop(out, links, TRUE)  OBVIOUS
    <3>2. Lost(out, links, after)  BY <3>1 DEF Lost
    <3>3. /\ after \in Counters /\ after.generated = out.generated
          /\ after.delivered = 0 /\ after.dropped = 1 /\ after.waste = links
      BY <1>3, <1>5, <2>2, <2>3, <3>2, TopologyDropFacts
    <3>4. counters' = after  BY <1>7, <2>2, <2>3, <3>1
    <3>5. QED  BY <1>1, <1>5, <1>7, <2>1, <2>2, <3>3, <3>4, DroppedIInv
  <2>4. CASE ~ IsCredit  BY <1>1, <1>5, <1>7, <2>1, <2>2, <2>4, DroppedIInv
  <2>5. QED  BY <2>3, <2>4
<1>8. CASE isDown /\ ~ wrong /\ place' = "downlink" /\ counters' = out /\ links' = links
  <2>1. pkt.crttor = DstToR /\ pkt.crtport = LastPort(pkt.dst)
    BY <1>1, <1>8, HostPorts DEF DstToR, IsLastHop, AtToR
  <2>2. /\ DstToR' = DstToR /\ LastPort(pkt.dst)' = LastPort(pkt.dst)
    BY <1>1, SameWay
  <2>3. links \in Nat  BY <1>1, <1>2
  <2>4. TypeOK'  BY <1>1, <1>5, <1>8, <2>3, SameNet DEF IInv, TypeOK, Places
  <2>5. Stage'  BY <1>5, <1>8 DEF Stage
  <2>6. CreditAccounted'  BY <1>3, <1>5, <1>6, <1>8 DEF CreditAccounted
  <2>7. QED
    BY <1>1, <1>5, <1>8, <2>1, <2>2, <2>4, <2>5, <2>6
    DEF IInv, WasteIsLinksUsed, DeliveredToDst, StaticKeepsAll
<1>9. CASE ~ isDown /\ place' = "link" /\ counters' = out /\ links' = links + 1
  <2>1. hop < hops
    <3>1. SUFFICES ASSUME hop = hops  PROVE FALSE  BY <1>2
    <3>2. QED  BY <1>1, <1>2, <1>9, <3>1, LastFacts
  <2>2. links' \in Nat /\ links' = pkt'.crthop + 1 /\ pkt'.crthop < pkt'.maxhops
    BY <1>1, <1>2, <1>9, <2>1
  <2>3. TypeOK'  BY <1>1, <1>5, <1>9, <2>2, SameNet DEF IInv, TypeOK, Places
  <2>4. AtToR' /\ HopsLeft(pkt.maxhops - pkt.crthop)'
    BY <1>1, SameNet, SameWay DEF AtToR, OnPath, FollowsLinks, HopsLeft
  <2>5. Stage'  BY <1>5, <1>9, <2>2, <2>4 DEF Stage
  <2>6. CreditAccounted'  BY <1>3, <1>5, <1>6, <1>9 DEF CreditAccounted
  <2>7. QED
    BY <1>1, <1>5, <1>9, <2>3, <2>5, <2>6
    DEF IInv, WasteIsLinksUsed, DeliveredToDst, StaticKeepsAll
<1>10. QED  BY <1>4, <1>7, <1>8, <1>9 DEF ToRSend

\* A packet refused or expired in a queue has used the links before it.
LEMMA QueueDropStep ==
  ASSUME IInv, QueueDrop
  PROVE  IInv'
<1>1. /\ counters \in Counters /\ seen \subseteq Slices /\ links \in Nat
      /\ network' = network /\ jitter' = jitter /\ pkt' = pkt /\ links' = links /\ seen' = seen
      /\ place \in {"nic", "queue"} /\ place' = "dropped"
      /\ counters.waste = 0 /\ counters.topology = 0
  BY DEF IInv, TypeOK, Stage, QueueDrop
<1>2. links = pkt.crthop /\ GreaterOf(pkt.crthop, 0) = links
  <2>1. links = pkt.crthop  BY <1>1 DEF IInv, Stage
  <2>2. QED  BY <1>1, <2>1 DEF GreaterOf
<1>3. CASE IsCredit
  <2>1. counters.generated = 1 /\ counters.delivered = 0 /\ counters.dropped = 0
    BY <1>1, <1>3 DEF IInv, CreditAccounted
  <2>2. counters' = [counters EXCEPT !.dropped = 1, !.waste = links]
    <3>1. counters.dropped + 1 = 1 /\ counters.waste + links = links  BY <1>1, <2>1
    <3>2. counters' = [counters EXCEPT !.dropped = counters.dropped + 1,
                                       !.waste = counters.waste + links]
      BY <1>2, <1>3 DEF QueueDrop
    <3>3. QED  BY ONLY <3>1, <3>2
  <2>3. /\ counters' \in Counters /\ counters'.generated = counters.generated
        /\ counters'.delivered = 0 /\ counters'.dropped = 1
        /\ counters'.waste = links /\ counters'.topology = 0
    BY <1>1, <2>1, <2>2 DEF Counters
  <2>4. QED  BY <1>1, <2>3, DroppedIInv
<1>4. CASE ~ IsCredit
  <2>1. counters' = counters  BY <1>4 DEF QueueDrop
  <2>2. QED  BY <1>1, <1>4, <2>1, DroppedIInv
<1>5. QED  BY <1>3, <1>4

\* What leaves a downlink was its host's.
LEMMA DeliverStep ==
  ASSUME IInv, Deliver
  PROVE  IInv'
<1>1. /\ network' = network /\ jitter' = jitter /\ pkt' = pkt /\ counters' = counters
      /\ links' = links /\ seen' = seen /\ place = "downlink" /\ place' = "delivered"
      /\ pkt.crttor = DstToR /\ pkt.crtport = LastPort(pkt.dst)
      /\ counters.waste = 0 /\ counters.topology = 0
  BY DEF IInv, Stage, Deliver
<1>2. DstToR' = DstToR /\ LastPort(pkt.dst)' = LastPort(pkt.dst)  BY <1>1, SameWay
<1>3. TypeOK'  BY <1>1, SameNet DEF IInv, TypeOK, Places
<1>4. Stage'  BY <1>1 DEF Stage
<1>5. CreditAccounted'  BY <1>1 DEF IInv, CreditAccounted, IsCredit
<1>6. QED
  BY <1>1, <1>2, <1>3, <1>4, <1>5
  DEF IInv, WasteIsLinksUsed, DeliveredToDst, StaticKeepsAll

\* A step that changes nothing.
LEMMA StutterStep ==
  ASSUME IInv, UNCHANGED vars
  PROVE  IInv'
<1>1. /\ network' = network /\ jitter' = jitter /\ place' = place /\ pkt' = pkt
      /\ counters' = counters /\ links' = links /\ seen' = seen
  BY DEF vars
<1>2. TypeOK'  BY <1>1, SameNet DEF IInv, TypeOK
<1>3. Routed' <=> Routed  BY <1>1, SameWay
<1>4. AtToR' <=> AtToR
  BY <1>1, <1>3, SameNet, SameWay DEF AtToR, OnPath, FollowsLinks
<1>5. Stage'  BY <1>1, <1>3, <1>4 DEF IInv, Stage, HopsLeft
<1>6. CreditAccounted' /\ WasteIsLinksUsed'
  BY <1>1 DEF IInv, CreditAccounted, WasteIsLinksUsed, IsCredit
<1>7. DstToR' = DstToR /\ LastPort(pkt.dst)' = LastPort(pkt.dst)  BY <1>1, SameWay
<1>8. DeliveredToDst' /\ StaticKeepsAll'
  BY <1>1, <1>7, SameNet DEF IInv, DeliveredToDst, StaticKeepsAll
<1>9. QED  BY <1>1, <1>2, <1>5, <1>6, <1>7, <1>8 DEF IInv

\* Every step preserves the invariant.
LEMMA NextIInv == IInv /\ [Next]_vars => IInv'
<1> SUFFICES ASSUME IInv, [Next]_vars  PROVE IInv'  OBVIOUS
<1>1. CASE SendToNIC  BY <1>1, SendToNICStep
<1>2. CASE NICSend  BY <1>2, NICSendStep
<1>3. CASE LeaveAccess  BY <1>3, LeaveAccessStep
<1>4. CASE LeaveLink  BY <1>4, LeaveLinkStep
<1>5. CASE Deliver  BY <1>5, DeliverStep
<1>6. CASE QueueDrop  BY <1>6, QueueDropStep
<1>7. CASE ToRSend  BY <1>7, ToRSendStep
<1>8. CASE Over \/ UNCHANGED vars  BY <1>8, StutterStep DEF Over
<1>9. QED  BY <1>1, <1>2, <1>3, <1>4, <1>5, <1>6, <1>7, <1>8 DEF Next

-----------------------------------------------------------------------------
(* Theorems *)

\* The inductive invariant: wherever the packet is (NICCreditQueue.cpp,
\* creditqueue.cpp, pipe.cpp), its hop count, its port, the links it used and
\* the ToR it is at fit its path.
THEOREM FabricInvariance == Spec => []IInv
<1>1. Spec => Init /\ [][Next]_vars  BY PTL DEF Spec
<1>2. QED  BY <1>1, InitIInv, NextIInv, PTL

\* On every network and for every kind of packet the counters of a flow are
\* right: a credit is counted as generated, and then as delivered or dropped
\* or neither while on its way, and the waste of a dropped one is the number
\* of links it used (recordFlowCredit... of creditqueue.cpp and pipe.cpp).
THEOREM CreditsAccounted == Spec => []Accounting
<1>1. IInv => Accounting  BY DEF IInv, Accounting
<1>2. QED  BY <1>1, FabricInvariance, PTL

\* While the slice is that of its path, a packet at a ToR is to take a link
\* that is up or the downlink of its host.
LEMMA SliceDelivers ==
  ASSUME IInv
  PROVE  StableSliceDelivers
<1> SUFFICES ASSUME place = "queue", seen \subseteq {pkt.slice}
             PROVE  IF IsLastHop(pkt.crtport)
                    THEN PortDstMatch(pkt.crtport, pkt.crttor, pkt.dst)
                    ELSE NextToR(pkt.slice, pkt.crttor, pkt.crtport) # Down
  BY DEF StableSliceDelivers
<1>1. /\ network \in DOMAIN Networks /\ pkt \in Packets /\ pkt.dst \in Hosts /\ AtToR
      /\ pkt.crttor \in Tors
  BY DEF IInv, TypeOK, Stage, Packets, AtToR
<1>2. OnPath(pkt.crttor, pkt.crthop)  BY SliceKept
<1>3. CASE pkt.crthop = pkt.maxhops
  <2>1. /\ pkt.crtport = LastPort(pkt.dst) /\ IsLastHop(pkt.crtport) /\ pkt.crttor = DstToR
    BY <1>1, <1>2, <1>3, LastFacts
  <2>2. PortDstMatch(pkt.crtport, pkt.crttor, pkt.dst)
    BY <1>1, <2>1, HostPorts DEF DstToR
  <2>3. QED  BY <2>1, <2>2
<1>4. CASE pkt.crthop < pkt.maxhops
  <2>1. /\ pkt.crtport \in Uplinks
        /\ NextToR(pkt.slice, pkt.crttor, pkt.crtport) \in Tors
    BY <1>1, <1>2, <1>4, OnwardFacts
  <2>2. ~ IsLastHop(pkt.crtport)  BY <1>1, <2>1, LinkFacts
  <2>3. NextToR(pkt.slice, pkt.crttor, pkt.crtport) # Down
    BY <1>1, <2>1, NetTypes DEF Tors, TorsOf, Down
  <2>4. QED  BY <2>2, <2>3
<1>5. pkt.crthop = pkt.maxhops \/ pkt.crthop < pkt.maxhops
  BY <1>1 DEF AtToR, Packets
<1>6. QED  BY <1>3, <1>4, <1>5

\* On every network, a packet that arrives arrives at its host, is lost to the
\* topology only if a slice changed under way and never in a static network,
\* and is shaped by the links it has left (dynexp_topology.cpp,
\* graph_topology.cpp, pipe.cpp).
THEOREM PacketsOnTheirWay == Spec => []OnItsWay
<1>1. IInv => OnItsWay
  <2> SUFFICES ASSUME IInv  PROVE OnItsWay  OBVIOUS
  <2>1. StableSliceDelivers  BY SliceDelivers
  <2>2. TidalCountsDown  BY DEF IInv, Stage, HopsLeft, TidalCountsDown
  <2>3. QED  BY <2>1, <2>2 DEF OnItsWay, IInv
<1>2. QED  BY <1>1, FabricInvariance, PTL

-----------------------------------------------------------------------------
(* Graph files *)

Files == [ntor : Int, ndl : Int, lines : Seq(Seq(Int))]

\* Of finitely many numbers, one is the greatest.
LEMMA GreatestOf ==
  ASSUME NEW n \in Nat \ {0}, NEW f \in [0..(n - 1) -> Nat]
  PROVE  \E m \in 0..(n - 1) : \A i \in 0..(n - 1) : f[m] >= f[i]
<1> DEFINE Good == {k \in Nat : k <= n - 1 => \E m \in 0..k : \A i \in 0..k : f[m] >= f[i]}
<1>1. 0 \in Good
  <2>1. \A i \in 0..0 : i = 0  OBVIOUS
  <2>2. 0 \in 0..(n - 1) /\ f[0] \in Nat /\ f[0] >= f[0]  OBVIOUS
  <2>3. QED  BY <2>1, <2>2
<1>2. ASSUME NEW k \in Nat, k \in Good  PROVE k + 1 \in Good
  <2>1. SUFFICES ASSUME k + 1 <= n - 1
                 PROVE  \E m \in 0..(k + 1) : \A i \in 0..(k + 1) : f[m] >= f[i]
    OBVIOUS
  <2>2. PICK m \in 0..k : \A i \in 0..k : f[m] >= f[i]  BY <1>2, <2>1
  <2>3. \A i \in 0..(k + 1) : f[i] \in Nat /\ (i \in 0..k \/ i = k + 1)  BY <2>1
  <2>4. m \in 0..(k + 1) /\ k + 1 \in 0..(k + 1)  OBVIOUS
  <2>5. CASE f[m] >= f[k + 1]
    <3>1. \A i \in 0..(k + 1) : f[m] >= f[i]  BY <2>2, <2>3, <2>5
    <3>2. QED  BY <2>4, <3>1
  <2>6. CASE f[k + 1] > f[m]
    <3>1. \A i \in 0..(k + 1) : f[k + 1] >= f[i]  BY <2>2, <2>3, <2>4, <2>6
    <3>2. QED  BY <2>4, <3>1
  <2>7. QED  BY <2>3, <2>4, <2>5, <2>6
<1>3. n - 1 \in Good
  <2>1. Nat \subseteq Good
    <3> HIDE DEF Good
    <3>1. QED  BY <1>1, <1>2, AllNumbers
  <2>2. n - 1 \in Nat  OBVIOUS
  <2>3. QED
    <3> HIDE DEF Good
    <3>1. QED  BY <2>1, <2>2
<1>4. n - 1 <= n - 1  OBVIOUS
<1>5. QED  BY <1>3, <1>4

\* The rows of a file, and the number of uplinks they give a ToR.
LEMMA FileFacts ==
  ASSUME NEW file \in Files, Reads(file)
  PROVE  /\ file.ntor \in Nat \ {0} /\ file.ndl \in Nat \ {0}
         /\ NulOf(file) \in Nat \ {0}
         /\ \A tor \in FileTors(file) :
              /\ Row(file, tor) \in Seq(FileTors(file))
              /\ Len(Row(file, tor)) \in 1..NulOf(file)
              /\ Range(Row(file, tor)) = Members(Row(file, tor))
<1>1. /\ file.ntor \in Nat \ {0} /\ file.ndl \in Nat \ {0} /\ file.lines \in Seq(Seq(Int))
      /\ Len(file.lines) >= file.ntor
      /\ \A tor \in FileTors(file) : RowValid(file, tor)
  BY DEF Files, Reads, HeaderValid, RowsValid
<1>2. ASSUME NEW tor \in FileTors(file)
      PROVE  /\ Row(file, tor) \in Seq(FileTors(file))
             /\ Len(Row(file, tor)) \in Nat \ {0}
             /\ Range(Row(file, tor)) = Members(Row(file, tor))
  <2>1. PICK row : row = Row(file, tor)  OBVIOUS
  <2>2. row \in Seq(Int)
    <3>1. Len(file.lines) \in Nat  BY <1>1, LenProperties
    <3>2. tor + 1 \in 1..Len(file.lines)  BY <1>1, <3>1 DEF FileTors
    <3>3. QED  BY <1>1, <2>1, <3>2, ElementOfSeq DEF Row
  <2>3. row # <<>> /\ Range(row) \subseteq FileTors(file)  BY <1>1, <2>1 DEF RowValid
  <2>4. /\ Len(row) \in Nat \ {0} /\ DOMAIN row = 1..Len(row)
        /\ row \in [1..Len(row) -> Int]
    BY <2>2, <2>3, LenProperties, EmptySeq
  <2>5. Range(row) = Members(row)  BY <2>4 DEF Range, Members
  <2>6. row \in [1..Len(row) -> FileTors(file)]
    <3>1. \A i \in 1..Len(row) : row[i] \in FileTors(file)  BY <2>3, <2>5 DEF Members
    <3>2. QED  BY <2>4, <3>1
  <2>7. row \in Seq(FileTors(file))  BY <2>4, <2>6, SeqDef
  <2>8. QED  BY <2>1, <2>4, <2>5, <2>7
<1>3. PICK most \in FileTors(file) :
        \A tor \in FileTors(file) : Len(Row(file, most)) >= Len(Row(file, tor))
  <2>1. PICK f : f = [tor \in 0..(file.ntor - 1) |-> Len(Row(file, tor))]  OBVIOUS
  <2>2. f \in [0..(file.ntor - 1) -> Nat]  BY <1>2, <2>1 DEF FileTors
  <2>3. PICK most \in 0..(file.ntor - 1) : \A i \in 0..(file.ntor - 1) : f[most] >= f[i]
    BY <1>1, <2>2, GreatestOf
  <2>4. QED  BY <2>1, <2>3 DEF FileTors
<1>4. /\ NulOf(file) \in {Len(Row(file, tor)) : tor \in FileTors(file)}
      /\ \A n \in {Len(Row(file, tor)) : tor \in FileTors(file)} : NulOf(file) >= n
  BY <1>3 DEF NulOf, Max
<1>5. NulOf(file) \in Nat \ {0}  BY <1>2, <1>4
<1>6. ASSUME NEW tor \in FileTors(file)  PROVE Len(Row(file, tor)) \in 1..NulOf(file)
  <2>1. PICK n : n = Len(Row(file, tor))  OBVIOUS
  <2>2. n \in Nat \ {0} /\ NulOf(file) >= n  BY <1>2, <1>4, <2>1
  <2>3. QED  BY <1>5, <2>1, <2>2
<1>7. QED  BY <1>1, <1>2, <1>5, <1>6

\* The port of a neighbour is an uplink, and leads to it.
LEMMA PortFacts ==
  ASSUME NEW file \in Files, Reads(file), NEW tor \in FileTors(file),
         NEW next, IsEdge(file, tor, next),
         NEW net, net = NetworkOf(file)
  PROVE  /\ AdjToPort(file, tor, next) \in UplinksOf(net) /\ next \in TorsOf(net)
         /\ net.adjacency[0][tor][AdjToPort(file, tor, next)] = next
<1>1. PICK row, port : row = Row(file, tor) /\ port = AdjToPort(file, tor, next)  OBVIOUS
<1>2. /\ file.ntor \in Nat \ {0} /\ file.ndl \in Nat \ {0} /\ NulOf(file) \in Nat \ {0}
      /\ row \in Seq(FileTors(file)) /\ Len(row) \in 1..NulOf(file)
      /\ Range(row) = Members(row) /\ DOMAIN row = 1..Len(row)
  BY <1>1, FileFacts, LenProperties
<1>3. PICK k \in 1..Len(row) : row[k] = next /\ port = file.ndl + k - 1
  <2>1. next \in Members(row)  BY <1>1, <1>2 DEF IsEdge
  <2>2. \E k \in DOMAIN row : row[k] = next  BY <1>2, <2>1 DEF Members
  <2>3. PICK k : k = CHOOSE i \in DOMAIN row : row[i] = next  OBVIOUS
  <2>4. k \in DOMAIN row /\ row[k] = next  BY <2>2, <2>3
  <2>5. port = file.ndl + k - 1  BY <1>1, <2>3 DEF AdjToPort
  <2>6. QED  BY <1>2, <2>4, <2>5
<1>4. next \in FileTors(file)  BY <1>2, <1>3, ElementOfSeq
<1>5. port \in file.ndl..(file.ndl + NulOf(file) - 1) /\ port - file.ndl + 1 = k
      /\ port - file.ndl < Len(row)
  BY ONLY <1>2, <1>3
<1>6. net.adjacency[0][tor][port] = next
  <2>1. net.adjacency = AdjacencyOf(file)  BY DEF NetworkOf
  <2>2. 0 \in 0..(SlicesOfGraph - 1)  BY DEF SlicesOfGraph
  <2>3. AdjacencyOf(file)[0][tor][port] = row[k]  BY <1>1, <1>5, <2>2 DEF AdjacencyOf
  <2>4. QED  BY <1>3, <2>1, <2>3
<1>7. /\ net.ntor = file.ntor /\ net.ndl = file.ndl /\ net.nul = NulOf(file)
  BY DEF NetworkOf
<1>8. QED  BY <1>1, <1>4, <1>5, <1>6, <1>7 DEF UplinksOf, TorsOf, FileTors

\* The ToRs a route visits: its source first, its destination last, and each
\* a neighbour of the one before.
LEMMA VisitsFacts ==
  ASSUME NEW file \in Files, Reads(file), NEW line \in Seq(Int), RouteValid(file, line)
  PROVE  /\ Len(line) - 2 \in Nat \ {0}
         /\ Visits(line)[1] = line[1] /\ Visits(line)[Len(line) - 1] = line[2]
         /\ \A h \in 1..(Len(line) - 1) : Visits(line)[h] \in FileTors(file)
         /\ \A h \in 1..(Len(line) - 2) : IsEdge(file, Visits(line)[h], Visits(line)[h + 1])
<1>1. PICK n \in Nat : n = Len(line)  BY LenProperties
<1>2. /\ n >= 3 /\ line[1] \in FileTors(file) /\ line[n] = line[2]
      /\ \A h \in 1..(n - 2) : IsEdge(file, Visits(line)[h], Visits(line)[h + 1])
      /\ \A i \in 1..n : line[i] \in Int
  BY <1>1, ElementOfSeq DEF RouteValid, Last
<1>3. PICK rest, first : rest = SubSeq(line, 3, Len(line)) /\ first = <<line[1]>>  OBVIOUS
<1>4. rest \in Seq(Int) /\ Len(rest) = n - 2 /\ \A i \in 1..(n - 2) : rest[i] = line[i + 2]
  <2>1. \A i \in 3..n : line[i] \in Int  BY <1>2
  <2>2. /\ rest \in Seq(Int) /\ Len(rest) = IF 3 <= n THEN n - 3 + 1 ELSE 0
        /\ \A i \in 1..(n - 3 + 1) : rest[i] = line[3 + i - 1]
    BY <1>1, <1>3, <2>1, SubSeqProperties
  <2>3. n - 3 + 1 = n - 2 /\ \A i \in 1..(n - 2) : 3 + i - 1 = i + 2  BY <1>2
  <2>4. QED  BY <1>2, <2>2, <2>3
<1>5. first \in Seq(Int) /\ Len(first) = 1 /\ first[1] = line[1]
  <2>1. 1 \in 1..n  BY <1>2
  <2>2. QED  BY <1>2, <1>3, <2>1
<1>6. PICK v : v = Visits(line)  OBVIOUS
<1>7. v[1] = line[1] /\ \A h \in 1..(n - 2) : v[h + 1] = line[h + 2]
  <2>1. v = first \o rest  BY <1>3, <1>6 DEF Visits
  <2>2. \A i \in 1..(1 + (n - 2)) : v[i] = IF i <= 1 THEN first[i] ELSE rest[i - 1]
    <3>1. \A i \in 1..Len(first) + Len(rest) :
            (first \o rest)[i] = IF i <= Len(first) THEN first[i] ELSE rest[i - Len(first)]
      BY ONLY <1>4, <1>5, ConcatProperties
    <3>2. QED  BY ONLY <1>4, <1>5, <2>1, <3>1
  <2>3. 1 \in 1..(1 + (n - 2))  BY <1>2
  <2>4. ASSUME NEW h \in 1..(n - 2)  PROVE v[h + 1] = line[h + 2]
    <3>1. h + 1 \in 1..(1 + (n - 2)) /\ ~ (h + 1 <= 1) /\ (h + 1) - 1 = h  BY <1>2
    <3>2. QED  BY <1>4, <2>2, <3>1
  <2>5. QED  BY <1>5, <2>2, <2>3, <2>4
<1>8. v[n - 1] = line[2]
  <2>1. n - 2 \in 1..(n - 2) /\ (n - 2) + 1 = n - 1 /\ (n - 2) + 2 = n  BY <1>2
  <2>2. QED  BY <1>2, <1>7, <2>1
<1>9. \A h \in 1..(n - 1) : v[h] \in FileTors(file)
  <2> DEFINE Good == {m \in Nat : m + 1 <= n - 1 => v[m + 1] \in FileTors(file)}
  <2>1. 0 \in Good  BY <1>2, <1>7
  <2>2. ASSUME NEW m \in Nat, m \in Good  PROVE m + 1 \in Good
    <3>1. SUFFICES ASSUME (m + 1) + 1 <= n - 1  PROVE v[(m + 1) + 1] \in FileTors(file)
      OBVIOUS
    <3>2. m + 1 \in 1..(n - 2) /\ v[m + 1] \in FileTors(file)  BY <2>2, <3>1
    <3>3. IsEdge(file, v[m + 1], v[(m + 1) + 1])  BY <1>2, <1>6, <3>2
    <3>4. v[(m + 1) + 1] \in TorsOf(NetworkOf(file))  BY <3>2, <3>3, PortFacts
    <3>5. QED  BY <3>4 DEF TorsOf, NetworkOf, FileTors
  <2>3. Nat \subseteq Good
    <3> HIDE DEF Good
    <3>1. QED  BY <2>1, <2>2, AllNumbers
  <2>4. ASSUME NEW h \in 1..(n - 1)  PROVE v[h] \in FileTors(file)
    <3>1. h - 1 \in Nat /\ (h - 1) + 1 = h  OBVIOUS
    <3>2. h - 1 \in Good
      <4> HIDE DEF Good
      <4>1. QED  BY <2>3, <3>1
    <3>3. QED  BY <3>1, <3>2
  <2>5. QED  BY <2>4
<1>10. n - 2 \in Nat \ {0}  BY <1>2
<1>11. \A h \in 1..(n - 2) : IsEdge(file, v[h], v[h + 1])  BY <1>2, <1>6
<1>12. QED  BY ONLY <1>1, <1>6, <1>7, <1>8, <1>9, <1>10, <1>11

\* The ports of a route.
PortsOf(file, line) ==
  [hop \in 1..(Len(line) - 2) |-> AdjToPort(file, Visits(line)[hop], Visits(line)[hop + 1])]

\* The ports of a route are a path: they lead over the ToRs it visits.
LEMMA RouteIsPath ==
  ASSUME NEW file \in Files, Reads(file), NEW line \in Seq(Int), RouteValid(file, line)
  PROVE  IsPath(NetworkOf(file), PortsOf(file, line), 0, line[1], line[2])
<1>1. PICK net, path : net = NetworkOf(file) /\ path = PortsOf(file, line)  OBVIOUS
<1>2. PICK n \in Nat \ {0} : n = Len(line) - 2  BY VisitsFacts
<1>3. Len(line) - 1 = n + 1  BY <1>2, LenProperties
<1>4. PICK tors : tors = [h \in 1..(n + 1) |-> Visits(line)[h]]  OBVIOUS
<1>5. /\ tors \in [1..(n + 1) -> TorsOf(net)]
      /\ tors[1] = line[1] /\ tors[n + 1] = line[2]
  <2>1. TorsOf(net) = FileTors(file)  BY <1>1 DEF TorsOf, NetworkOf, FileTors
  <2>2. \A h \in 1..(n + 1) : Visits(line)[h] \in FileTors(file)  BY <1>3, VisitsFacts
  <2>3. Visits(line)[1] = line[1] /\ Visits(line)[n + 1] = line[2]  BY <1>3, VisitsFacts
  <2>4. 1 \in 1..(n + 1) /\ n + 1 \in 1..(n + 1)  OBVIOUS
  <2>5. QED  BY <1>4, <2>1, <2>2, <2>3, <2>4
<1>6. ASSUME NEW h \in 1..n
      PROVE  path[h] \in UplinksOf(net) /\ net.adjacency[0][tors[h]][path[h]] = tors[h + 1]
  <2>1. h \in 1..(Len(line) - 1) /\ h \in 1..(Len(line) - 2)
        /\ h \in 1..(n + 1) /\ h + 1 \in 1..(n + 1)
    BY <1>2, <1>3
  <2>2. /\ Visits(line)[h] \in FileTors(file)
        /\ IsEdge(file, Visits(line)[h], Visits(line)[h + 1])
    BY <2>1, VisitsFacts
  <2>3. tors[h] = Visits(line)[h] /\ tors[h + 1] = Visits(line)[h + 1]  BY <1>4, <2>1
  <2>4. path[h] = AdjToPort(file, Visits(line)[h], Visits(line)[h + 1])
    BY <1>1, <2>1 DEF PortsOf
  <2>5. QED  BY <1>1, <2>2, <2>3, <2>4, PortFacts
<1>7. path \in [1..n -> UplinksOf(net)]
  <2>1. path = [h \in 1..n |-> path[h]]  BY <1>1, <1>2 DEF PortsOf
  <2>2. QED  BY <1>6, <2>1
<1>8. path \in Seq(UplinksOf(net)) /\ Len(path) = n /\ path # <<>>
  <2>1. path \in Seq(UplinksOf(net))  BY <1>7, SeqDef
  <2>2. DOMAIN path = 1..n /\ DOMAIN path = 1..Len(path) /\ Len(path) \in Nat
    BY <1>7, <2>1, LenProperties
  <2>3. Len(path) = n  BY <2>2
  <2>4. QED  BY <2>1, <2>3, EmptySeq
<1>9. FollowsLinks(net, tors, path, 0, line[1], line[2])
  BY <1>5, <1>6, <1>8 DEF FollowsLinks
<1>10. IsPath(net, path, 0, line[1], line[2])  BY <1>5, <1>8, <1>9 DEF IsPath
<1>11. QED  BY <1>1, <1>10

\* The table of routes holds, in the one slice, the ports of valid routes from
\* one ToR to another.
LEMMA TableFacts ==
  ASSUME NEW file \in Files, Reads(file),
         NEW src \in FileTors(file), NEW dst \in FileTors(file),
         NEW paths, paths = LblsOf(file)[src][dst][0]
  PROVE  /\ \A k \in DOMAIN paths :
              k \in Nat /\ IsPath(NetworkOf(file), paths[k], 0, src, dst)
         /\ DOMAIN paths = {} => paths = <<>>
<1>1. file.lines \in Seq(Seq(Int)) /\ file.ntor \in Nat \ {0}  BY FileFacts DEF Files
<1>2. PICK after : after = AfterRows(file)  OBVIOUS
<1>3. after \in Seq(Seq(Int)) /\ DOMAIN after = 1..Len(after)
  <2>1. PICK n \in Nat : n = Len(file.lines)  BY <1>1, LenProperties
  <2>2. \A i \in (file.ntor + 1)..n : i \in 1..n  BY <1>1, <2>1
  <2>3. \A i \in (file.ntor + 1)..n : file.lines[i] \in Seq(Int)
    BY <1>1, <2>1, <2>2, ElementOfSeq
  <2>4. after \in Seq(Seq(Int))
    BY <1>1, <1>2, <2>1, <2>3, SubSeqProperties DEF AfterRows
  <2>5. QED  BY <2>4, LenProperties
<1>4. PICK S : S = {line \in RouteLines(file) : line[1] = src /\ line[2] = dst}  OBVIOUS
<1>5. PICK lines : lines = Kept(after, S)  OBVIOUS
<1>6. lines \in Seq(Seq(Int)) /\ Members(lines) \subseteq S  BY <1>3, <1>5, KeptElements
<1>7. paths = [k \in DOMAIN lines |-> PortsOf(file, lines[k])]
  <2>1. 0 \in 0..(SlicesOfGraph - 1)  BY DEF SlicesOfGraph
  <2>2. QED  BY <1>2, <1>4, <1>5, <2>1 DEF LblsOf, PortsOf
<1>8. DOMAIN lines = 1..Len(lines) /\ Len(lines) \in Nat  BY <1>6, LenProperties
<1>9. ASSUME NEW k \in DOMAIN paths
      PROVE  k \in Nat /\ IsPath(NetworkOf(file), paths[k], 0, src, dst)
  <2>1. k \in 1..Len(lines)  BY <1>7, <1>8
  <2>2. lines[k] \in Seq(Int) /\ lines[k] \in S
    BY <1>6, <2>1, ElementOfSeq DEF Members
  <2>3. lines[k][1] = src /\ lines[k][2] = dst /\ RouteValid(file, lines[k])
    BY <1>4, <2>2 DEF Reads
  <2>4. IsPath(NetworkOf(file), PortsOf(file, lines[k]), 0, src, dst)
    BY <2>2, <2>3, RouteIsPath
  <2>5. QED  BY <1>7, <2>1, <2>4
<1>10. ASSUME DOMAIN paths = {}  PROVE paths = <<>>
  <2>1. Len(lines) = 0
    <3>1. 1 \notin 1..Len(lines)  BY <1>7, <1>8, <1>10
    <3>2. QED  BY <1>8, <3>1
  <2>2. paths \in [1..0 -> Int]
    <3>1. DOMAIN lines = 1..0  BY <1>8, <2>1
    <3>2. \A k \in 1..0 : PortsOf(file, lines[k]) \in Int  OBVIOUS
    <3>3. QED  BY <1>7, <3>1, <3>2
  <2>3. paths \in Seq(Int)  BY <2>2, SeqDef
  <2>4. Len(paths) = 0
    <3>1. DOMAIN paths = 1..Len(paths) /\ Len(paths) \in Nat  BY <2>3, LenProperties
    <3>2. 1 \notin 1..Len(paths)  BY <1>10, <3>1
    <3>3. QED  BY <3>1, <3>2
  <2>5. QED  BY <2>3, <2>4, EmptySeq
<1>11. QED  BY <1>9, <1>10

\* What the reader of graph files checks is enough (graph_topology.cpp): a file
\* that it accepts, with a route between every two ToRs, is a network in which
\* every route leads where it should, so that the theorems above hold for it,
\* and no packet is ever lost to the topology.
THEOREM GraphFileIsNetwork ==
  ASSUME NEW file \in Files, Reads(file), HasRoutes(file)
  PROVE  IsNetwork(NetworkOf(file))
<1>1. PICK net : net = NetworkOf(file)  OBVIOUS
<1>2. /\ net.ntor = file.ntor /\ net.ndl = file.ndl /\ net.nul = NulOf(file)
      /\ net.nslice = 1 /\ net.adjacency = AdjacencyOf(file) /\ net.lbls = LblsOf(file)
      /\ {file.ntor, file.ndl, NulOf(file), 1} \subseteq Nat \ {0}
  BY <1>1, FileFacts DEF NetworkOf, SlicesOfGraph
<1>3. TorsOf(net) = FileTors(file) /\ SlicesOf(net) = {0}
      /\ 0..(SlicesOfGraph - 1) = {0}
      /\ UplinksOf(net) = file.ndl..(file.ndl + NulOf(file) - 1)
  <2>1. 0..(1 - 1) = {0}  OBVIOUS
  <2>2. QED  BY <1>2, <2>1 DEF TorsOf, FileTors, SlicesOf, SlicesOfGraph, UplinksOf
<1>4. net.adjacency
        \in [SlicesOf(net) -> [TorsOf(net) -> [UplinksOf(net) -> TorsOf(net) \cup {Down}]]]
  <2>1. ASSUME NEW tor \in FileTors(file), NEW port \in UplinksOf(net)
        PROVE  (IF port - file.ndl < Len(Row(file, tor))
                THEN Row(file, tor)[port - file.ndl + 1] ELSE -1) \in FileTors(file) \cup {Down}
    <3>1. CASE port - file.ndl < Len(Row(file, tor))
      <4>1. Row(file, tor) \in Seq(FileTors(file)) /\ Len(Row(file, tor)) \in Nat
        BY FileFacts, LenProperties
      <4>2. PICK n \in Nat : n = Len(Row(file, tor))  BY <4>1
      <4>3. port - file.ndl + 1 \in 1..n  BY <1>2, <1>3, <3>1, <4>2
      <4>4. QED  BY <3>1, <4>1, <4>2, <4>3, ElementOfSeq
    <3>2. CASE ~ (port - file.ndl < Len(Row(file, tor)))  BY <3>2 DEF Down
    <3>3. QED  BY <3>1, <3>2
  <2>2. QED  BY <1>2, <1>3, <2>1 DEF AdjacencyOf
<1>5. ASSUME NEW src \in TorsOf(net), NEW dst \in TorsOf(net), NEW slice \in SlicesOf(net),
             src # dst
      PROVE  LET paths == net.lbls[src][dst][slice]
             IN /\ DOMAIN paths # {}
                /\ \A k \in DOMAIN paths : k \in Nat /\ IsPath(net, paths[k], slice, src, dst)
  <2>1. PICK paths : paths = LblsOf(file)[src][dst][0]  OBVIOUS
  <2>2. src \in FileTors(file) /\ dst \in FileTors(file) /\ slice = 0  BY <1>3, <1>5
  <2>3. paths # <<>>  BY <1>5, <2>1, <2>2 DEF HasRoutes
  <2>4. /\ \A k \in DOMAIN paths : k \in Nat /\ IsPath(net, paths[k], 0, src, dst)
        /\ DOMAIN paths = {} => paths = <<>>
    BY <1>1, <2>1, <2>2, TableFacts
  <2>5. QED  BY <1>2, <2>1, <2>2, <2>3, <2>4
<1>6. IsNetwork(net)  BY <1>2, <1>4, <1>5 DEF IsNetwork
<1>7. QED  BY <1>1, <1>6

=============================================================================
