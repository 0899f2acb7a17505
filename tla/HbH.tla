-------------------------------- MODULE HbH ---------------------------------
(***************************************************************************)
(* Hop-by-hop backpressure: HbHSrc and HbHSink over a network of HbHQueues *)
(* on a rotor topology.                                                    *)
(*                                                                         *)
(* A queue does not send by itself.  The next queue polls the ones that    *)
(* wait for it, and takes a packet only while it holds (or expects) at     *)
(* most D packets for the packet's rack and at most P for the port the     *)
(* packet leaves it by.  It counts a packet from the moment it is chosen,  *)
(* while it is still in service at the queue before.  Downlinks take every *)
(* packet and send by themselves.  A packet goes back to its source at     *)
(* once ("perfect recovery") when it is lost on a link that went down,     *)
(* comes to a full queue or one whose link is down, or is served by the    *)
(* downlink of a rack that is not its own: a rotor turned while it waited, *)
(* and another rack pulled it.                                             *)
(*                                                                         *)
(* The calls of one event run to their end, through several queues: the    *)
(* queues are one record, and each function of the code is an operator     *)
(* from such a record to the next.  One host per rack, one path per pair   *)
(* and slice ("assumes single-path routing", hbhqueue.cpp:79).             *)
(***************************************************************************)
EXTENDS Integers, Sequences, SequencesExt, FiniteSets, PacketLists

CONSTANTS
  ToR, Port,      \* racks, uplink ports of each
  SliceCount,     \* slices are 0..SliceCount - 1
  Peer,           \* Peer[s][t][p]: the rack at port p of t in slice s, or NoToR
  NoToR,
  Route,          \* Route[s][t][u]: the uplink ports from rack t to u in slice s
  Flows,          \* flows: their first packet is sent at the start
  SrcOf, DstOf,   \* their racks
  FlowPackets,    \* packets of each flow
  D, P,           \* _D, _P
  MaxNicPackets,  \* _max_NIC_pkts
  MaxInflight,    \* _max_inflight, in packets
  MaxQueue,       \* _maxsize, in packets
  MaxChanges      \* bound: slice changes

Slices == 0..(SliceCount - 1)

ASSUME HbHAssumption ==
  /\ SliceCount \in Nat \ {0} /\ NoToR \notin ToR
  /\ {"nic", "down", "none"} \cap Port = {}
  /\ Peer \in [Slices -> [ToR -> [Port -> ToR \cup {NoToR}]]]
  /\ \A s \in Slices, t \in ToR, p \in Port :   \* a matching
       Peer[s][t][p] \in ToR => Peer[s][Peer[s][t][p]][p] = t
  /\ \A s \in Slices, t \in ToR, p \in Port :   \* a rotor is down while it turns
       Peer[(s + 1) % SliceCount][t][p] \in {Peer[s][t][p], NoToR} \/ Peer[s][t][p] = NoToR
  /\ Route \in [Slices -> [ToR -> [ToR -> Seq(Port)]]]
  /\ IsFiniteSet(Flows) /\ SrcOf \in [Flows -> ToR] /\ DstOf \in [Flows -> ToR]
  /\ \A f \in Flows : SrcOf[f] # DstOf[f]   \* startflow asserts it
  /\ FlowPackets \in [Flows -> Nat \ {0}] /\ D \in Nat /\ P \in Nat
  /\ MaxNicPackets \in Nat /\ MaxInflight \in Nat /\ MaxNicPackets <= MaxInflight
  /\ MaxQueue \in Nat /\ MaxChanges \in Nat

VARIABLES
  queues,   \* the queues, a record of functions:
            \*   held[x]: _enqueued, oldest first;  serving[x]: the packet in
            \*   service, in a sequence;  toDst[x], toPort[x]: packets counted;
            \*   waiting[x]: _queues_waiting;  nic[f]: packets of f at its NIC;
            \*   sent[f], flight[f], rtx[f]: the source of f;  pipe: packets
            \*   on a link
  got,      \* got[f]: packets at the sink of f
  finished, \* _finished, per flow
  slice,    \* the present slice
  changes   \* slice changes so far

hbhVars == <<queues, got, finished, slice, changes>>

-----------------------------------------------------------------------------
(* Queues and ways *)

Nic(t)  == <<t, "nic">>
Down(t) == <<t, "down">>
Uplinks == ToR \X Port
Queues  == Uplinks \cup {Nic(t) : t \in ToR} \cup {Down(t) : t \in ToR}
IsNic(x) == x[2] = "nic"
IsDown(x) == x[2] = "down"

\* The port by which a packet on its way leaves the rack it comes to with hop h
\* (from 0; the downlink after its last uplink).
PortAt(p, h) ==
  LET r == Route[p.slice][SrcOf[p.flow]][DstOf[p.flow]]
  IN IF h > Len(r) - 1 THEN "down" ELSE r[h + 1]

\* A packet that is still at its NIC goes by the route of the present slice.
Placed(p, x) == IF IsNic(x) THEN [p EXCEPT !.slice = slice, !.hop = -1] ELSE p

\* getNextPort and getNextNextPort, at queue x.
NextPort(p, x) == PortAt(Placed(p, x), Placed(p, x).hop + 1)
NextNextPort(p, x) ==
  IF NextPort(p, x) = "down" THEN "none" ELSE PortAt(Placed(p, x), Placed(p, x).hop + 2)

\* getNextQueue: <<>> if the link of x is down.
NextQueue(p, x) ==
  LET t == IF IsNic(x) THEN x[1] ELSE Peer[slice][x[1]][x[2]]
  IN IF t = NoToR THEN <<>> ELSE <<t, NextPort(p, x)>>

\* is_queue_connected: x asks of y, which waits for it.  The racks at the two
\* ends of a rotor link use the same port.
Connected(x, y) == IsNic(y) \/ Peer[slice][x[1]][y[2]] = y[1]

-----------------------------------------------------------------------------
(* Polling *)

\* Mutant: the limits are not looked at.
AcceptsAny(S, x, y, p) == NextPort(p, y) = x[2]

\* Whether x accepts packet p of y: it goes to the port of x, and x is a
\* downlink or within its limits.
Accepts(S, x, y, p) ==
  /\ NextPort(p, y) = x[2]
  /\ IsDown(x) \/ /\ S.toDst[x][DstOf[p.flow]] <= D
                  /\ S.toPort[x][NextNextPort(p, y)] <= P

\* extractNext of y for x: the oldest packet that x accepts, counted by x, goes
\* into service at y.  The NIC gives it its route.
Extract(S, x, y) ==
  LET i == SelectInSeq(S.held[y], LAMBDA p : Accepts(S, x, y, p))
      p == S.held[y][i]
      n == NextNextPort(p, y)
  IN IF i = 0 THEN S
     ELSE [S EXCEPT
       !.held[y] = RemoveAt(@, i),
       !.serving[y] = <<[pkt |-> Placed(p, y), to |-> x, old |-> FALSE]>>,
       !.toDst[x][DstOf[p.flow]] = @ + 1,
       !.toPort[x] = IF n = "none" THEN @ ELSE [@ EXCEPT ![n] = S.toPort[x][n] + 1]]

\* poll of x: every queue that waits is tried; the ones that gave a packet, and
\* the ones no longer connected, wait no more.
NoLonger(S, x, y) == [S EXCEPT !.waiting[x] = Kept(@, Queues \ {y})]

PollOne(S, x, y) ==
  LET U == IF S.serving[y] = <<>> THEN Extract(S, x, y) ELSE S
  IN IF ~Connected(x, y) THEN NoLonger(S, x, y)
     ELSE IF U = S THEN S ELSE NoLonger(U, x, y)

Poll(S, x) == FoldLeft(LAMBDA U, y : PollOne(U, x, y), S, S.waiting[x])

\* Mutant: y is tried, but does not wait.
PollMeOnce(S, x, y) ==
  LET T == Poll([S EXCEPT !.waiting[x] = <<y>>], x)
  IN [T EXCEPT !.waiting[x] = S.waiting[x]]

\* pollme: y waits for x, and is polled.
PollMe(S, x, y) ==
  Poll([S EXCEPT !.waiting[x] = IF Contains(@, y) THEN @ ELSE Append(@, y)], x)

\* The end of completeService: y has every queue it holds a packet for poll it,
\* until one takes one.
PollFor(S, y, p) ==
  IF S.serving[y] # <<>> \/ NextQueue(p, y) = <<>> THEN S ELSE PollMe(S, NextQueue(p, y), y)

PollAll(S, y) == FoldLeft(LAMBDA U, p : PollFor(U, y, p), S, S.held[y])

-----------------------------------------------------------------------------
(* Sources *)

\* HbHNICQueue::receivePacket.
NicReceive(S, p) ==
  LET y == Nic(SrcOf[p.flow])
      T == [S EXCEPT !.held[y] = Append(@, p), !.nic[p.flow] = @ + 1]
  IN IF T.serving[y] = <<>> THEN PollMe(T, NextQueue(p, y), y) ELSE T

\* Whether the source of f may give its NIC another packet.
MaySend(S, f) == S.nic[f] < MaxNicPackets /\ S.flight[f] < MaxInflight

\* retransmit_packet and send_packet.
SendLost(S, f) ==
  NicReceive([S EXCEPT !.rtx[f] = Tail(@), !.flight[f] = @ + 1], Head(S.rtx[f]))
SendNew(S, f) ==
  NicReceive([S EXCEPT !.sent[f] = @ + 1, !.flight[f] = @ + 1],
             [flow |-> f, n |-> S.sent[f] + 1, slice |-> 0, hop |-> -1])

\* triggerSending: first what was lost, then new packets, while there is room
\* at the NIC.
TrySendLost(S, f) == IF MaySend(S, f) /\ S.rtx[f] # <<>> THEN SendLost(S, f) ELSE S
TrySendNew(S, f) ==
  IF MaySend(S, f) /\ S.sent[f] < FlowPackets[f] THEN SendNew(S, f) ELSE S

\* Each of its loops ends by then: the NIC is full.
Attempts == [i \in 1..MaxNicPackets |-> i]
SendAllLost(S, f) == FoldLeft(LAMBDA U, i : TrySendLost(U, f), S, Attempts)
SendAllNew(S, f) == FoldLeft(LAMBDA U, i : TrySendNew(U, f), S, Attempts)
Trigger(S, f) == IF finished[f] THEN S ELSE SendAllNew(SendAllLost(S, f), f)

\* addToLost: back to the source, for sending again.
AddToLost(S, p) ==
  Trigger([S EXCEPT !.flight[p.flow] = @ - 1, !.rtx[p.flow] = Append(@, p)], p.flow)

\* startflow.
TrySendFirst(S, f) ==
  IF S.nic[f] < MaxNicPackets /\ S.sent[f] < FlowPackets[f] THEN SendNew(S, f) ELSE S

SendAllFirst(S, f) == FoldLeft(LAMBDA U, i : TrySendFirst(U, f), S, Attempts)

StartFlow(f) ==
  /\ queues.sent[f] = 0
  /\ queues' = SendAllFirst(queues, f)
  /\ UNCHANGED <<got, finished, slice, changes>>

-----------------------------------------------------------------------------
(* Queues *)

\* Mutant: only the count for its port is taken back.
UncountPort(S, x, p, port) ==
  [S EXCEPT !.toPort[x] =
     IF IsDown(x) THEN @ ELSE [@ EXCEPT ![port] = S.toPort[x][port] - 1]]

\* A packet that leaves x is no longer counted.
Uncount(S, x, p, port) ==
  [S EXCEPT !.toDst[x][DstOf[p.flow]] = @ - 1,
            !.toPort[x] = IF IsDown(x) THEN @ ELSE [@ EXCEPT ![port] = S.toPort[x][port] - 1]]

\* The first packet of a downlink goes into service.
ServeDown(S, x) ==
  [S EXCEPT !.held[x] = Tail(@),
            !.serving[x] = <<[pkt |-> Head(S.held[x]), to |-> x, old |-> FALSE]>>]

\* The packet in service at x is put on the link.
PutOnLink(S, x) ==
  LET e == S.serving[x][1]
  IN [S EXCEPT !.serving[x] = <<>>,
               !.pipe = Append(@, [pkt |-> e.pkt, to |-> e.to, old |-> e.old, from |-> x])]

\* The downlink x of another rack than p's (its port and p's host do not match).
WrongRack(x, p) == IsDown(x) /\ x[1] # DstOf[p.flow]

\* Mutant: such a packet is dropped, as those of the other protocols are.
SendFreed(S, x) ==
  IF WrongRack(x, S.serving[x][1].pkt) THEN [S EXCEPT !.serving[x] = <<>>] ELSE PutOnLink(S, x)

\* sendFromQueue: such a packet goes back to its source, the others on the link.
\* (The source sends at once, before x is free in the code: no queue waits for a
\* downlink, so x serves none of what it sends.)
SendFromQueue(S, x) ==
  LET p == S.serving[x][1].pkt
  IN IF WrongRack(x, p) THEN AddToLost([S EXCEPT !.serving[x] = <<>>], p) ELSE PutOnLink(S, x)

\* completeService of a ToR queue.
CompleteService(x) ==
  LET p == queues.serving[x][1].pkt
      S == SendFromQueue(Uncount(queues, x, p, IF IsDown(x) THEN "none" ELSE NextPort(p, x)), x)
  IN /\ ~IsNic(x) /\ queues.serving[x] # <<>>
     /\ queues' = IF ~IsDown(x) THEN Poll(PollAll(S, x), x)
                  ELSE IF S.held[x] # <<>> THEN ServeDown(S, x) ELSE Poll(S, x)
     /\ UNCHANGED <<got, finished, slice, changes>>

\* completeService of a NIC: it has the others poll it, and the source of the
\* packet gives it the next.
CompleteNic(x) ==
  LET p == queues.serving[x][1].pkt
      S == PutOnLink([queues EXCEPT !.nic[p.flow] = @ - 1], x)
  IN /\ IsNic(x) /\ queues.serving[x] # <<>>
     /\ queues' = Trigger(PollAll(S, x), p.flow)
     /\ UNCHANGED <<got, finished, slice, changes>>

\* HbHQueue::receivePacket of p at x.  A full queue, or one whose link is down,
\* gives it back; a downlink serves it; the others have the next queue poll.
Receive(S, x, p) ==
  LET T == [S EXCEPT !.held[x] = Append(@, p)]
      full == Len(S.held[x]) + Len(S.serving[x]) >= MaxQueue
  IN IF full \/ (~IsDown(x) /\ NextQueue(p, x) = <<>>)
     THEN AddToLost(Uncount(S, x, p, NextPort(p, x)), p)
     ELSE IF S.serving[x] # <<>> THEN T
     ELSE IF IsDown(x) THEN ServeDown(T, x) ELSE PollMe(T, NextQueue(p, x), x)

\* The end of a link between queues (Pipe::sendFromPipe).  Where the link is
\* down now, the queue that expected the packet is told (packetWasDropped).
PipeDelivers(i) ==
  LET e == queues.pipe[i]
      t == IF IsNic(e.from) THEN e.from[1] ELSE Peer[slice][e.from[1]][e.from[2]]
      S == [queues EXCEPT !.pipe = RemoveAt(@, i)]
      p == [e.pkt EXCEPT !.hop = @ + 1]
  IN /\ ~IsDown(e.from)
     /\ queues' = IF t = NoToR
                  THEN AddToLost(Uncount(S, e.to, e.pkt, NextNextPort(e.pkt, e.from)), e.pkt)
                  ELSE Receive(S, <<t, PortAt(p, p.hop)>>, p)
     /\ UNCHANGED <<got, finished, slice, changes>>

\* The end of a downlink (HbHSink::receivePacket): the flow is finished with its last missing packet.
SinkReceives(i) ==
  LET e == queues.pipe[i]
      f == e.pkt.flow
      S == [queues EXCEPT !.pipe = RemoveAt(@, i), !.flight[f] = @ - 1]
  IN /\ IsDown(e.from)
     /\ got' = [got EXCEPT ![f] = @ \cup {e.pkt.n}]
     /\ finished' = [finished EXCEPT ![f] = @ \/ got'[f] = 1..FlowPackets[f]]
     /\ queues' = IF finished'[f] THEN S ELSE Trigger(S, f)
     /\ UNCHANGED <<slice, changes>>

\* The slice ends.  A packet sees one end of a slice at most between the start
\* of its service and the end of the link: both together are shorter than a
\* slice.
ChangeSlice ==
  /\ changes < MaxChanges /\ changes' = changes + 1
  /\ slice' = (slice + 1) % SliceCount
  /\ \A i \in 1..Len(queues.pipe) : ~queues.pipe[i].old
  /\ \A x \in Queues : queues.serving[x] # <<>> => ~queues.serving[x][1].old
  /\ queues' = [queues EXCEPT
       !.serving = [x \in Queues |-> IF @[x] = <<>> THEN <<>>
                                     ELSE <<[@[x][1] EXCEPT !.old = TRUE]>>],
       !.pipe = [i \in 1..Len(@) |-> [@[i] EXCEPT !.old = TRUE]]]
  /\ UNCHANGED <<got, finished>>

HbHInit ==
  /\ queues = [held |-> [x \in Queues |-> <<>>], serving |-> [x \in Queues |-> <<>>],
               toDst |-> [x \in Queues |-> [t \in ToR |-> 0]],
               toPort |-> [x \in Queues |-> [p \in Port \cup {"down"} |-> 0]],
               waiting |-> [x \in Queues |-> <<>>], nic |-> [f \in Flows |-> 0],
               sent |-> [f \in Flows |-> 0], flight |-> [f \in Flows |-> 0],
               rtx |-> [f \in Flows |-> <<>>], pipe |-> <<>>]
  /\ got = [f \in Flows |-> {}] /\ finished = [f \in Flows |-> FALSE]
  /\ slice = 0 /\ changes = 0

Complete(x) == CompleteService(x) \/ CompleteNic(x)
Arrive(i) == PipeDelivers(i) \/ SinkReceives(i)

HbHNext ==
  \/ \E f \in Flows : StartFlow(f)
  \/ \E x \in Queues : Complete(x)
  \/ \E i \in 1..Len(queues.pipe) : Arrive(i)
  \/ ChangeSlice

HbHSpec == HbHInit /\ [][HbHNext]_hbhVars

-----------------------------------------------------------------------------
(* Properties *)

\* The packets in x, and the ones chosen by x that have not come yet.  (A link may
\* lead back to its own rack: a packet is then in both sets of one queue.)
Inside(x) ==
  {queues.held[x][i] : i \in 1..Len(queues.held[x])}
  \cup {queues.serving[x][i].pkt : i \in 1..Len(queues.serving[x])}
Coming(x) ==
  {queues.serving[y][1].pkt : y \in {y \in Queues :
     ~IsDown(y) /\ queues.serving[y] # <<>> /\ queues.serving[y][1].to = x}}
  \cup {queues.pipe[i].pkt : i \in {i \in 1..Len(queues.pipe) :
     ~IsDown(queues.pipe[i].from) /\ queues.pipe[i].to = x}}

\* Every variable has the type the code declares for it: the counters are
\* unsigned.
HbHTypeOK ==
  /\ \A x \in Queues :
       /\ queues.toDst[x] \in [ToR -> Nat] /\ Len(queues.serving[x]) <= 1
       /\ queues.toPort[x] \in [Port \cup {"down"} -> Nat]
       /\ IsInjective(queues.waiting[x])
  /\ \A f \in Flows :
       /\ queues.nic[f] \in 0..MaxNicPackets /\ queues.sent[f] \in 0..FlowPackets[f]
       /\ queues.flight[f] \in 0..MaxInflight
  /\ \A f \in Flows : got[f] \subseteq 1..FlowPackets[f]
  /\ DOMAIN got = Flows /\ finished \in [Flows -> BOOLEAN]
  /\ slice \in Slices /\ changes \in 0..MaxChanges

\* What a queue has counted, for a rack and for the port of the next rack, is what
\* is in it or on its way to it, although a packet is counted by one queue's poll
\* and uncounted by another's loss, the missed link or its own service, each
\* working out the port again.
CountsMatch ==
  \A x \in {y \in Queues : ~IsNic(y)} :
    /\ \A t \in ToR :
         queues.toDst[x][t] = Cardinality({p \in Inside(x) : DstOf[p.flow] = t})
                              + Cardinality({p \in Coming(x) : DstOf[p.flow] = t})
    /\ ~IsDown(x) => \A n \in Port \cup {"down"} :
         queues.toPort[x][n] = Cardinality({p \in Inside(x) : PortAt(p, p.hop + 1) = n})
                               + Cardinality({p \in Coming(x) : PortAt(p, p.hop + 2) = n})

\* The safety invariant of the queues: types, counters never below zero, and
\* each the number of packets it stands for.
HbHInv == HbHTypeOK /\ CountsMatch

\* Backpressure holds: a ToR queue never has more packets for one rack, in it or
\* on the way, than one above the limit, nor for one port of the next rack.
LimitsHold ==
  \A x \in Uplinks :
    /\ \A t \in ToR : queues.toDst[x][t] <= D + 1
    /\ \A p \in Port \cup {"down"} : queues.toPort[x][p] <= P + 1

\* Every packet sent is at its sink, in the network or to be sent again: in one
\* of them.  Three actors lose it (a link that is down, a queue that is full or
\* has no link, the downlink of another rack), and each returns it exactly once;
\* on the link to a host there are packets for its rack only.
NothingLost ==
  \A f \in Flows :
    LET everywhere == UNION {{p \in Inside(x) \cup Coming(x) : p.flow = f} : x \in Queues}
        links == {i \in 1..Len(queues.pipe) :
                    queues.pipe[i].pkt.flow = f /\ IsDown(queues.pipe[i].from)}
        inside == {p.n : p \in everywhere} \cup {queues.pipe[i].pkt.n : i \in links}
        back == {queues.rtx[f][i].n : i \in 1..Len(queues.rtx[f])}
    IN /\ inside \cup back \cup got[f] = 1..queues.sent[f]
       /\ queues.flight[f] = Cardinality(inside)
       /\ inside \cap back = {} /\ got[f] \cap (inside \cup back) = {}
       /\ \A i \in links : queues.pipe[i].from = Down(DstOf[f])

\* No queue waits for ever for one that does not poll it: in a slice that does
\* not change, when nothing is in service or on a link any more, every flow has
\* completed.  (After a change of slice packets may be left: the next queue
\* forgets who waits for it when their link is down.)
NoneStuck ==
  /\ changes = 0 /\ queues.pipe = <<>>
  /\ \A x \in Queues : queues.serving[x] = <<>>
  => \A f \in Flows : queues.sent[f] > 0 => finished[f]

=============================================================================
