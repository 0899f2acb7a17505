------------------------------- MODULE Fabric -------------------------------
(***************************************************************************)
(* The way of one packet through the rotor network: the queue of its host  *)
(* (NICCreditQueue), the access link, ToR queues (CreditQueue) and links   *)
(* (Pipe), and the downlink to the destination.                            *)
(*                                                                         *)
(* A packet leaves its host with a path of the slice of that moment (or of *)
(* the slice of the credit that triggered it): the ports to take, hop by   *)
(* hop.  Where a port leads is looked up in the slice at the time the      *)
(* packet comes out of the link, so a packet on the way while the slice    *)
(* changes may end at the wrong ToR or find the link down.                 *)
(*                                                                         *)
(* Queueing takes any time, so each event may happen in any slice.  A      *)
(* static network (GraphTopology) has one slice.                           *)
(***************************************************************************)
EXTENDS Integers, Sequences, FiniteSets

CONSTANTS
  Networks,   \* name -> a topology the packet may travel through, a record:
              \*   ntor, ndl, nul: ToRs, and downlinks and uplinks of each
              \*   nslice
              \*   adjacency: slice, ToR, uplink -> next ToR, -1 if down
              \*   lbls: source ToR, other ToR, slice -> paths of ports
  Kinds       \* packet types: subset of XPCREDIT, XPDATA and XPCTL

Down == -1

TorsOf(net)    == 0..(net.ntor - 1)
SlicesOf(net)  == 0..(net.nslice - 1)
UplinksOf(net) == net.ndl..(net.ndl + net.nul - 1)

\* In its own slice a path leads where it should (the topology file).
FollowsLinks(net, tors, path, slice, src, dst) ==
  /\ tors[1] = src /\ tors[Len(path) + 1] = dst
  /\ \A h \in 1..Len(path) : net.adjacency[slice][tors[h]][path[h]] = tors[h + 1]

IsPath(net, path, slice, src, dst) ==
  /\ path \in Seq(UplinksOf(net)) /\ path # <<>>
  /\ \E tors \in [1..(Len(path) + 1) -> TorsOf(net)] :
       FollowsLinks(net, tors, path, slice, src, dst)

IsNetwork(net) ==
  /\ {net.ntor, net.ndl, net.nul, net.nslice} \subseteq Nat \ {0}
  /\ net.adjacency \in [SlicesOf(net) -> [TorsOf(net) -> [UplinksOf(net) -> TorsOf(net) \cup {Down}]]]
  /\ \A src, dst \in TorsOf(net), slice \in SlicesOf(net) : src # dst =>
       LET paths == net.lbls[src][dst][slice]
       IN /\ DOMAIN paths # {}
          /\ \A k \in DOMAIN paths : k \in Nat /\ IsPath(net, paths[k], slice, src, dst)

ASSUME FabricAssumption ==
  /\ \A name \in DOMAIN Networks : IsNetwork(Networks[name])
  /\ Kinds \subseteq {"XPCREDIT", "XPDATA", "XPCTL"}

VARIABLES
  network,  \* the name of the topology of the run
  jitter,   \* the setting of the run: whether hopJitter is on
  place,    \* where the packet is, see Places
  pkt,      \* its label-switching state
  counters, \* what it adds to the FlowCreditCounters of its flow
  links,    \* number of ToR-to-ToR links it entered (no code reads it)
  seen      \* slices in which it came out of a link (no code reads it)

vars == <<network, jitter, place, pkt, counters, links, seen>>

Net == Networks[network]

Tors    == TorsOf(Net)
Hosts   == 0..(Net.ntor * Net.ndl - 1)
Slices  == SlicesOf(Net)
Uplinks == UplinksOf(Net)

\* get_firstToR and get_lastport
FirstToR(host) == host \div Net.ndl
LastPort(host) == host % Net.ndl

\* get_nextToR, get_port, get_no_paths, get_no_hops
NextToR(slice, tor, port) == Net.adjacency[slice][tor][port]
Paths(src, dst, slice) == Net.lbls[src][dst][slice]
GetPort(src, dst, slice, path, hop) == Paths(src, dst, slice)[path][hop + 1]
GetNoHops(src, dst, slice, path) == Len(Paths(src, dst, slice)[path])

IsLastHop(port) == port \in 0..(Net.ndl - 1)

\* Mutant: the ToR is left out.
PortMatch(port, tor, dst) == port = LastPort(dst)

PortDstMatch(port, tor, dst) == port + tor * Net.ndl = dst

\* What label switching needs of a packet.
Packets == [type : {"XPCREDIT", "XPDATA", "XPCTL"}, src : Hosts, dst : Hosts, slice : Slices,
            path : Nat, maxhops : Nat, crthop : Nat \cup {-1}, tidalhop : Nat,
            crttor : -1..(Net.ntor - 1),
            crtport : -1..(Net.ndl + Net.nul - 1)]

Places == {"unsent", "nic", "access", "queue", "link", "downlink", "delivered", "dropped"}

Counters == [generated : 0..1, delivered : 0..1, dropped : 0..1, topology : 0..1, waste : Nat]
NoCounters == [generated |-> 0, delivered |-> 0, dropped |-> 0, topology |-> 0, waste |-> 0]

Init ==
  /\ network \in DOMAIN Networks /\ jitter \in BOOLEAN
  /\ place = "unsent"
  /\ \E type \in Kinds, src, dst \in Hosts :
       /\ src # dst
       /\ pkt = [type |-> type, src |-> src, dst |-> dst, slice |-> 0, path |-> 0,
                 maxhops |-> 0, crthop |-> 0, tidalhop |-> 0, crttor |-> -1, crtport |-> -1]
  /\ counters = NoCounters /\ links = 0 /\ seen = {}

GreaterOf(a, b) == IF a >= b THEN a ELSE b
SrcToR == FirstToR(pkt.src)
DstToR == FirstToR(pkt.dst)
IsCredit == pkt.type = "XPCREDIT"

-----------------------------------------------------------------------------
(* Hosts *)

\* The hop counts a packet can be given in a slice, with the paths.
Routes(slice) ==
  IF SrcToR = DstToR THEN {[path |-> 0, hops |-> 0]}
  ELSE {[path |-> k, hops |-> GetNoHops(SrcToR, DstToR, slice, k)] :
          k \in DOMAIN Paths(SrcToR, DstToR, slice)}

\* hopJitter: what it may add to a hop count.
Jitters == IF jitter THEN {-1, 0, 1} ELSE {0}

\* XPassSink::sendToNIC: credits are given a hop count for the shaping in the
\* NIC queue, which counts them as generated.  (Sources send data as it is.)
SendToNIC ==
  /\ place = "unsent" /\ place' = "nic"
  /\ IF pkt.type = "XPDATA" THEN UNCHANGED pkt
     ELSE \E slice \in Slices, j \in Jitters :
            \E route \in Routes(slice) :
              pkt' = [pkt EXCEPT !.maxhops = route.hops, !.crthop = 0,
                                 !.tidalhop = GreaterOf(GreaterOf(route.hops, 1) + j, 1)]
  /\ counters' = IF IsCredit THEN [counters EXCEPT !.generated = 1] ELSE counters
  /\ UNCHANGED <<network, jitter, links, seen>>

\* NICCreditQueue::completeService: the path is chosen in the present slice,
\* or, for Flare data, in the slice of its credit.  Not bounded from below,
\* the jittered hop count of a path of one hop may be 0.
NICSend ==
  /\ place = "nic" /\ place' = "access"
  /\ \E slice \in Slices, j \in Jitters :
       \E route \in Routes(slice) :
         /\ pkt' = [pkt EXCEPT !.slice = slice, !.path = route.path, !.maxhops = route.hops,
                               !.crthop = -1, !.crttor = -1,
                               !.tidalhop = GreaterOf(route.hops, 1) + j]
  /\ UNCHANGED <<network, jitter, counters, links, seen>>

-----------------------------------------------------------------------------
(* Pipe::sendFromPipe *)

\* Mutant: the delivery is not taken back.
TopologyDropOnly(count, consumed, undo) ==
  [count EXCEPT !.dropped = @ + 1, !.topology = @ + 1, !.waste = @ + consumed]

\* recordFlowCreditTopologyDrop
TopologyDrop(count, consumed, undo) ==
  [count EXCEPT !.delivered = IF undo /\ @ > 0 THEN @ - 1 ELSE @,
                !.dropped = @ + 1, !.topology = @ + 1, !.waste = @ + consumed]

\* The next ToR queue, with the port of the path or the downlink after the
\* last hop.
EnterToR(tor, tidal) ==
  LET hop == pkt.crthop + 1
  IN /\ place' = "queue"
     /\ pkt' = [pkt EXCEPT !.crttor = tor, !.crthop = hop, !.tidalhop = tidal,
                           !.crtport = IF hop = pkt.maxhops THEN LastPort(pkt.dst)
                                       ELSE GetPort(SrcToR, DstToR, pkt.slice, pkt.path, hop)]

\* "Tidal hops count ToR-to-ToR links."
Countdown(tidal) == GreaterOf(tidal - 1, 1)

LeaveAccess ==
  /\ place = "access"
  /\ EnterToR(SrcToR, pkt.tidalhop)
  /\ UNCHANGED <<network, jitter, counters, links, seen>>

LeaveLink ==
  /\ place = "link"
  /\ \E slice \in Slices :
       LET next == NextToR(slice, pkt.crttor, pkt.crtport)
       IN /\ seen' = seen \cup {slice}
          /\ IF next # Down
             THEN EnterToR(next, Countdown(pkt.tidalhop)) /\ UNCHANGED counters
             ELSE /\ place' = "dropped"
                  /\ counters' = IF IsCredit THEN TopologyDrop(counters, GreaterOf(pkt.crthop + 1, 1), FALSE)
                                 ELSE counters
                  /\ UNCHANGED pkt
  /\ UNCHANGED <<network, jitter, links>>

Deliver ==
  /\ place = "downlink" /\ place' = "delivered"
  /\ UNCHANGED <<network, jitter, pkt, counters, links, seen>>

-----------------------------------------------------------------------------
(* CreditQueue and Queue::sendFromQueue *)

\* recordFlowCreditDrop: refused on arrival or expired in a queue.
QueueDrop ==
  /\ place \in {"nic", "queue"} /\ place' = "dropped"
  /\ counters' = IF IsCredit
                 THEN [counters EXCEPT !.dropped = @ + 1, !.waste = @ + GreaterOf(pkt.crthop, 0)]
                 ELSE counters
  /\ UNCHANGED <<network, jitter, pkt, links, seen>>

\* completeService counts a credit that leaves by a downlink as delivered;
\* sendFromQueue then drops it if it is the wrong one.
ToRSend ==
  /\ place = "queue"
  /\ LET isDown == IsLastHop(pkt.crtport)
         wrong  == ~ PortDstMatch(pkt.crtport, pkt.crttor, pkt.dst)
         sent   == IF IsCredit /\ isDown THEN [counters EXCEPT !.delivered = @ + 1] ELSE counters
     IN \/ /\ isDown /\ wrong
           /\ place' = "dropped"
           /\ counters' = IF IsCredit THEN TopologyDrop(sent, GreaterOf(pkt.crthop, 0), TRUE)
                          ELSE sent
           /\ UNCHANGED links
        \/ /\ isDown /\ ~ wrong
           /\ place' = "downlink" /\ counters' = sent /\ UNCHANGED links
        \/ /\ ~ isDown
           /\ place' = "link" /\ counters' = sent /\ links' = links + 1
  /\ UNCHANGED <<network, jitter, pkt, seen>>

Over == place \in {"delivered", "dropped"} /\ UNCHANGED vars

Next ==
  \/ SendToNIC \/ NICSend \/ LeaveAccess \/ LeaveLink \/ Deliver
  \/ QueueDrop \/ ToRSend \/ Over

Spec == Init /\ [][Next]_vars

-----------------------------------------------------------------------------
(* Properties *)

\* Every variable has the type the code declares for it.
TypeOK ==
  /\ network \in DOMAIN Networks /\ jitter \in BOOLEAN /\ place \in Places
  /\ pkt \in Packets
  /\ counters \in Counters
  /\ links \in Nat /\ seen \subseteq Slices

\* "A credit is dropped at most once", and one that is taken back from the
\* wrong downlink is no longer counted as delivered: at every moment a credit
\* generated is delivered, dropped or on its way, and only one of these.
CreditAccounted ==
  IsCredit =>
    /\ counters.generated = IF place = "unsent" THEN 0 ELSE 1
    /\ counters.delivered = IF place \in {"downlink", "delivered"} THEN 1 ELSE 0
    /\ counters.dropped   = IF place = "dropped" THEN 1 ELSE 0

\* "A first-ToR drop has zero wasted ToR-link hops; a later drop contributes
\* the links consumed before the drop point."
WasteIsLinksUsed == place = "dropped" /\ IsCredit => counters.waste = links

\* The safety invariant of the counters: types, each credit counted once, and
\* its waste the links it used.
Accounting == TypeOK /\ CreditAccounted /\ WasteIsLinksUsed

\* A packet never reaches another host than its own.
DeliveredToDst ==
  place = "delivered" => pkt.crttor = DstToR /\ pkt.crtport = LastPort(pkt.dst)

\* Only a slice that changed under way loses a packet to the topology: while
\* the slice is that of the path, no link is down and no downlink wrong.
StableSliceDelivers ==
  place = "queue" /\ seen \subseteq {pkt.slice} =>
    IF IsLastHop(pkt.crtport) THEN PortDstMatch(pkt.crtport, pkt.crttor, pkt.dst)
    ELSE NextToR(pkt.slice, pkt.crttor, pkt.crtport) # Down

\* In a network of one slice, as that of a graph file, nothing changes: no
\* packet is ever lost to the topology.
StaticKeepsAll == Net.nslice = 1 => counters.topology = 0

\* "The first ToR egress sees k remaining hops, so the expected sequences are
\* 1, 2 -> 1, and 3 -> 2 -> 1": without jitter, the hop count that shapes a
\* credit at a ToR is the number of links left to go (1 at the last ToR).
TidalCountsDown ==
  place = "queue" /\ ~ jitter => pkt.tidalhop = GreaterOf(pkt.maxhops - pkt.crthop, 1)

\* The safety invariant of a packet's way: what is lost to the topology is lost
\* to a change of slice, what arrives arrives at its host, and a ToR shapes by
\* the links left to go.
OnItsWay == DeliveredToDst /\ StableSliceDelivers /\ StaticKeepsAll /\ TidalCountsDown

=============================================================================
