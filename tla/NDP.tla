-------------------------------- MODULE NDP ---------------------------------
(***************************************************************************)
(* One flow of the NDP transport: NdpSrc, NdpSink, the pull pacer of the   *)
(* receiving host with its pull queue, and the network between them.       *)
(*                                                                         *)
(* The source sends a window at once; every further packet is sent for a   *)
(* pull.  A full queue trims a packet to its header, which the sink        *)
(* answers with a NACK; a header that finds no room either is returned to  *)
(* the sender (RTS), and is dropped if that happens to it twice.  Pull     *)
(* numbers are cumulative, so a pull may overtake or replace another one.  *)
(* The first pull after a pause travels as a bit of the ACK or NACK, the   *)
(* others are packets of their own, spaced by the pacer.                   *)
(*                                                                         *)
(* All packets of a flow have one size (_pkt_size), so a packet is its     *)
(* number and a cumulative ack counts packets.  Times only decide the      *)
(* order of the sends in _sent_times and when an event fires: here, at any *)
(* time.  _flight_size is read nowhere after the first window, _last_acked *)
(* only by the log: both are left out.                                     *)
(***************************************************************************)
EXTENDS Integers, Sequences, FiniteSets, Bags, SequencesExt, PacketLists

CONSTANTS
  FlowPackets,   \* packets of the flow: _flow_size / _pkt_size, rounded up
  Cwnd,          \* _cwnd in packets
  MaxFaults      \* bound: packets trimmed, and headers and feedback without room

ASSUME NDPAssumption ==
  /\ FlowPackets \in Nat \ {0} /\ Cwnd \in Nat \ {0}
  /\ MaxFaults \in Nat

VARIABLES
  \* the source
  highestSent,   \* _highest_sent
  rtxQueue,      \* _rtx_queue
  sentTimes,     \* keys of _sent_times, in the order of their times
  lastPull,      \* _last_pull
  pullWindow,    \* _pull_window: pulls that are expected
  firstWindow,   \* _first_window_count
  fcts,          \* number of flow completion times (FCT) reported
  \* the sink
  cumAck,        \* _cumulative_ack
  received,      \* _received: packets above a hole
  sawLast,       \* _last_packet_seqno > 0
  pullNo,        \* _pull_no
  \* the pacer
  pullQueue,     \* _pull_queue: the pull numbers that wait
  events,        \* events of the pacer in the event list
  \* the network
  net,           \* packets, by number and form: "data", "header" or "bounced"
  feedback,      \* ACKs, NACKs and pulls
  trims,         \* packets trimmed so far,
  bounces,       \* headers returned to the sender,
  losses         \* and returned headers and feedback dropped

srcVars   == <<highestSent, rtxQueue, sentTimes, lastPull, pullWindow, firstWindow, fcts>>
sinkVars  == <<cumAck, received, sawLast, pullNo>>
pacerVars == <<pullQueue, events>>
faultVars == <<trims, bounces, losses>>
vars == <<srcVars, sinkVars, pacerVars, net, feedback, faultVars>>

Init ==
  /\ highestSent = 0 /\ rtxQueue = <<>> /\ sentTimes = <<>> /\ lastPull = 0
  /\ pullWindow = 0 /\ firstWindow = 0 /\ fcts = 0
  /\ cumAck = 0 /\ received = {} /\ sawLast = FALSE /\ pullNo = 0
  /\ pullQueue = <<>> /\ events = 0
  /\ net = EmptyBag /\ feedback = {} /\ trims = 0 /\ bounces = 0 /\ losses = 0

LesserOf(a, b) == IF a <= b THEN a ELSE b
Packet(n, form) == [no |-> n, form |-> form]
One(p) == SetToBag({p})
BagOfSeq(s) == [p \in ToSet(s) |-> Cardinality({i \in DOMAIN s : s[i] = p})]
Without(s, S) == Kept(s, ToSet(s) \ S)

-----------------------------------------------------------------------------
(* NdpSrc *)

\* Of k packets to send, the new ones.
New(k) == LesserOf(k, FlowPackets - highestSent)

\* k calls of send_packet: what is queued for retransmission goes first, then
\* new packets as long as there are any.  net0 and sent0 are what the handler
\* has left of the two.
Sends(k, rtx, net0, sent0) ==
  LET old   == LesserOf(k, Len(rtx))
      new   == New(k - old)
      batch == SubSeq(rtx, 1, old) \o [i \in 1..new |-> highestSent + i]
  IN /\ rtxQueue' = SubSeq(rtx, old + 1, Len(rtx))
     /\ highestSent' = highestSent + new
     /\ sentTimes' = Without(sent0, ToSet(batch)) \o batch
     /\ net' = net0 (+) BagOfSeq([i \in DOMAIN batch |-> Packet(batch[i], "data")])

\* Mutant: one packet more than the window.
FirstWindowAbove == LesserOf(Cwnd + 1, FlowPackets)

FirstWindow == LesserOf(Cwnd, FlowPackets)

StartFlow ==
  /\ highestSent = 0
  /\ Sends(FirstWindow, <<>>, net, <<>>)
  /\ firstWindow' = FirstWindow
  /\ UNCHANGED <<lastPull, pullWindow, fcts, sinkVars, pacerVars, feedback, faultVars>>

\* pull_packets: the loop runs up to the pull number.
PullPackets(no, rtx, sent0) ==
  /\ Sends(IF no > lastPull THEN no - lastPull ELSE 0, rtx, net, sent0)
  /\ lastPull' = IF no > lastPull THEN no ELSE lastPull

ReceivePull(f) ==
  /\ f.kind = "pull"
  /\ pullWindow' = pullWindow - 1
  /\ PullPackets(f.no, rtxQueue, sentTimes)
  /\ feedback' = feedback \ {f}
  /\ UNCHANGED <<firstWindow, fcts, sinkVars, pacerVars, faultVars>>

\* Mutant: one packet early.
AllAckedEarly(cum) == cum + 1 >= FlowPackets

AllAcked(cum) == cum >= FlowPackets

\* processAck.  The completion time is reported with every ACK that
\* acknowledges the whole flow.
ReceiveAck(f) ==
  /\ f.kind = "ack"
  /\ pullWindow' = IF f.pull THEN pullWindow ELSE pullWindow + 1
  /\ firstWindow' = firstWindow - 1
  /\ fcts' = IF AllAcked(f.cum) THEN fcts + 1 ELSE fcts
  /\ PullPackets(IF f.pull THEN f.no ELSE 0, rtxQueue, Without(sentTimes, {f.packet}))
  /\ feedback' = feedback \ {f}
  /\ UNCHANGED <<sinkVars, pacerVars, faultVars>>

\* processNack.  Once everything has been sent, the packet is sent again at
\* once, pull or not, and the pull number is not taken; before that, it waits
\* for a pull.  Unlike an ACK, a NACK with the pull bit leaves one pull more
\* expected than will come.
\* Mutant: without the forced retransmission.
ReceiveNackWaits(f) ==
  /\ f.kind = "nack"
  /\ pullWindow' = pullWindow + 1 /\ firstWindow' = firstWindow - 1
  /\ LET rtx  == Append(rtxQueue, f.packet)
         sent == Without(sentTimes, {f.packet})
     IN PullPackets(IF f.pull /\ highestSent < FlowPackets THEN f.no ELSE 0, rtx, sent)
  /\ feedback' = feedback \ {f}
  /\ UNCHANGED <<fcts, sinkVars, pacerVars, faultVars>>

ReceiveNack(f) ==
  /\ f.kind = "nack"
  /\ pullWindow' = pullWindow + 1 /\ firstWindow' = firstWindow - 1
  /\ LET rtx  == Append(rtxQueue, f.packet)
         sent == Without(sentTimes, {f.packet})
     IN \/ /\ highestSent >= FlowPackets
           /\ Sends(1, rtx, net, sent)
           /\ UNCHANGED lastPull
        \/ /\ highestSent < FlowPackets
           /\ PullPackets(IF f.pull THEN f.no ELSE 0, rtx, sent)
  /\ feedback' = feedback \ {f}
  /\ UNCHANGED <<fcts, sinkVars, pacerVars, faultVars>>

\* processRTS: the packet goes to the front of the retransmissions, and is
\* sent at once only if no pull is expected and nothing else of the first
\* window is open.
ReceiveBounced(p) ==
  /\ p.form = "bounced"
  /\ firstWindow' = firstWindow - 1
  /\ Sends(IF pullWindow = 0 /\ firstWindow - 1 <= 1 THEN 1 ELSE 0,
           <<p.no>> \o rtxQueue, net (-) One(p), Without(sentTimes, {p.no}))
  /\ UNCHANGED <<lastPull, pullWindow, fcts, sinkVars, pacerVars, feedback, faultVars>>

\* rtx_timer_hook, doNextEvent, retransmit_packet: the oldest sends are
\* repeated and forgotten, so a repeated packet has no timer.  The timeout is
\* longer than a round trip: no copy and no answer is still under way.
UnderWay(n) ==
  \/ \E form \in {"data", "header", "bounced"} : Packet(n, form) \in DOMAIN net
  \/ \E f \in feedback : f.kind # "pull" /\ f.packet = n

\* Mutant: the packets are forgotten but not repeated.
TimeoutForgets(k) ==
  /\ \A i \in 1..k : ~ UnderWay(sentTimes[i])
  /\ sentTimes' = SubSeq(sentTimes, k + 1, Len(sentTimes))
  /\ UNCHANGED <<highestSent, rtxQueue, lastPull, pullWindow, firstWindow, fcts, net,
                 sinkVars, pacerVars, feedback, faultVars>>

Timeout(k) ==
  /\ \A i \in 1..k : ~ UnderWay(sentTimes[i])
  /\ sentTimes' = SubSeq(sentTimes, k + 1, Len(sentTimes))
  /\ net' = net (+) BagOfSeq([i \in 1..k |-> Packet(sentTimes[i], "data")])
  /\ UNCHANGED <<highestSent, rtxQueue, lastPull, pullWindow, firstWindow, fcts,
                 sinkVars, pacerVars, feedback, faultVars>>

-----------------------------------------------------------------------------
(* NdpSink and NdpPullPacer *)

\* NdpPullPacer::sendPacket: the feedback takes its pull along if none waits
\* and the last one is long enough ago; else the pull is queued, with an event
\* if it is the first.  released: the flow is complete, and release_pulls then
\* throws its pulls away; the event stays.
PacedFeedback(kind, packet, cum, released) ==
  /\ pullNo' = pullNo + 1
  /\ \/ /\ pullQueue = <<>>
        /\ feedback' = feedback \cup
             {[kind |-> kind, packet |-> packet, cum |-> cum, no |-> pullNo', pull |-> TRUE]}
        /\ UNCHANGED pacerVars
     \/ /\ feedback' = feedback \cup
             {[kind |-> kind, packet |-> packet, cum |-> cum, no |-> pullNo', pull |-> FALSE]}
        /\ pullQueue' = IF released THEN <<>> ELSE Append(pullQueue, pullNo')
        /\ events' = IF pullQueue = <<>> THEN events + 1 ELSE events

ReceiveHeader(p) ==
  /\ p.form = "header"
  /\ PacedFeedback("nack", p.no, cumAck, FALSE)
  /\ net' = net (-) One(p)
  /\ UNCHANGED <<srcVars, cumAck, received, sawLast, faultVars>>

\* The packets at the front of the list that follow on from n are merged.
Merged(n) ==
  CHOOSE m \in n..FlowPackets :
    (n + 1)..m \subseteq received /\ m + 1 \notin received

ReceiveData(p) ==
  /\ p.form = "data"
  /\ cumAck' = IF p.no = cumAck + 1 THEN Merged(p.no) ELSE cumAck
  /\ received' = {m \in received \cup {p.no} : m > cumAck'}
  /\ sawLast' = (sawLast \/ p.no = FlowPackets)
  /\ PacedFeedback("ack", p.no, cumAck', sawLast' /\ cumAck' = FlowPackets)
  /\ net' = net (-) One(p)
  /\ UNCHANGED <<srcVars, faultVars>>

\* NdpPullPacer::doNextEvent: the next pull, and an event for the one after it.
PacerEvent ==
  /\ events > 0
  /\ \/ /\ pullQueue = <<>>
        /\ events' = events - 1 /\ UNCHANGED <<pullQueue, feedback>>
     \/ /\ pullQueue # <<>>
        /\ feedback' = feedback \cup {[kind |-> "pull", no |-> Head(pullQueue)]}
        /\ pullQueue' = Tail(pullQueue)
        /\ events' = IF pullQueue' # <<>> THEN events ELSE events - 1
  /\ UNCHANGED <<srcVars, sinkVars, net, faultVars>>

-----------------------------------------------------------------------------
(* The network: queues that trim, and return or drop what they cannot hold *)

Faults == trims + bounces + losses

Reform(p, form) ==
  /\ net' = (net (-) One(p)) (+) One(Packet(p.no, form))
  /\ UNCHANGED <<srcVars, sinkVars, pacerVars, feedback>>

Trim(p) ==
  /\ p.form = "data" /\ Faults < MaxFaults
  /\ Reform(p, "header") /\ trims' = trims + 1 /\ UNCHANGED <<bounces, losses>>

Bounce(p) ==
  /\ p.form = "header" /\ Faults < MaxFaults
  /\ Reform(p, "bounced") /\ bounces' = bounces + 1 /\ UNCHANGED <<trims, losses>>

\* A bounced packet is dropped.
DropBounced(p) ==
  /\ p.form = "bounced" /\ Faults < MaxFaults
  /\ net' = net (-) One(p) /\ losses' = losses + 1
  /\ UNCHANGED <<srcVars, sinkVars, pacerVars, feedback, trims, bounces>>

\* Feedback is returned too, to the sink, which only frees it.
LoseFeedback(f) ==
  /\ Faults < MaxFaults
  /\ feedback' = feedback \ {f} /\ losses' = losses + 1
  /\ UNCHANGED <<srcVars, sinkVars, pacerVars, net, trims, bounces>>

\* The end: nothing under way, no event and no timer.
Over ==
  /\ highestSent > 0 /\ net = EmptyBag /\ feedback = {} /\ events = 0
  /\ sentTimes = <<>>
  /\ UNCHANGED vars

Next ==
  \/ Over
  \/ StartFlow
  \/ \E f \in feedback : ReceivePull(f) \/ ReceiveAck(f) \/ ReceiveNack(f)
  \/ \E p \in DOMAIN net : ReceiveBounced(p) \/ ReceiveHeader(p) \/ ReceiveData(p)
  \/ \E k \in 1..Len(sentTimes) : Timeout(k)
  \/ PacerEvent
  \/ \E p \in DOMAIN net : Trim(p) \/ Bounce(p) \/ DropBounced(p)
  \/ \E f \in feedback : LoseFeedback(f)

Spec == Init /\ [][Next]_vars

\* The simulator runs every event and the network delivers what it holds; that
\* it trims or drops is not required.
FairSpec ==
  /\ Spec
  /\ WF_vars(StartFlow) /\ WF_vars(PacerEvent)
  /\ WF_vars(\E k \in 1..Len(sentTimes) : Timeout(k))
  /\ WF_vars(\E f \in feedback : ReceivePull(f) \/ ReceiveAck(f) \/ ReceiveNack(f))
  /\ WF_vars(\E p \in DOMAIN net : ReceiveBounced(p) \/ ReceiveHeader(p) \/ ReceiveData(p))

-----------------------------------------------------------------------------
(* Properties *)

Missing == 1..FlowPackets \ (1..cumAck \cup received)

\* Every variable has the type the code declares for it.
TypeOK ==
  /\ highestSent \in 0..FlowPackets /\ cumAck \in 0..FlowPackets
  /\ rtxQueue \in Seq(1..FlowPackets) /\ sentTimes \in Seq(1..FlowPackets)
  /\ lastPull \in 0..pullNo /\ pullNo \in Nat /\ {pullWindow, firstWindow} \subseteq Int
  /\ fcts \in Nat /\ received \subseteq 1..FlowPackets /\ sawLast \in BOOLEAN
  /\ pullQueue \in Seq(1..pullNo) /\ events \in Nat
  /\ IsABag(net) /\ {trims, bounces, losses} \subseteq Nat /\ Faults <= MaxFaults

\* A packet the sink misses is never forgotten: it is under way, or the source
\* has it in its queue, or has its answer coming or its timer running.  One
\* loss never strands it (two can: a packet repeated on a timeout has none).
NotForgotten ==
  losses <= 1 =>
    \A n \in Missing \cap 1..highestSent :
      UnderWay(n) \/ n \in ToSet(rtxQueue) \/ n \in ToSet(sentTimes)

\* A packet is in one place at a time: in the network, in its answer or in the
\* queue of retransmissions, where it has no timer.  No NACK, returned header
\* or timeout makes a duplicate of one that the others know of.
OnePlace ==
  /\ \A p, q \in DOMAIN net : net[p] = 1 /\ (p.no = q.no => p = q)
  /\ \A p \in DOMAIN net, f \in feedback : f.kind # "pull" => f.packet # p.no
  /\ \A n \in ToSet(rtxQueue) : ~ UnderWay(n) /\ n \notin ToSet(sentTimes)
  /\ IsInjective(rtxQueue) /\ IsInjective(sentTimes)

\* The receiver clocks the source: pulls that overtake each other or the ACKs
\* never make it send more than the window, a trimmed packet and a loss aside.
SelfClocked == Cardinality(DOMAIN net) <= Cwnd + trims + losses

\* The safety invariant: types, no duplicates, and no more under way than the
\* receiver asked for.
Inv == TypeOK /\ OnePlace /\ SelfClocked

\* If every header finds room, the flow completes, whatever is trimmed and in
\* whatever order ACKs, NACKs and pulls arrive.
Completes == <>(fcts > 0 \/ bounces > 0 \/ losses > 0)

\* "Only immediately resend if we're not expecting any more pulls.  Otherwise
\* wait for a pull" (ndp.cpp:179): a returned packet is sent again, now or
\* with a pull, and the flow completes.
ReturnedIsResent == <>(fcts > 0 \/ losses > 0)

\* The flow implements the promise of a transport: a completion time is only
\* reported when every packet has arrived.
Flow == INSTANCE FlowTransfer WITH
  Sizes <- {FlowPackets}, size <- FlowPackets,
  arrived <- 1..cumAck \cup received,
  outcome <- IF fcts > 0 THEN "delivered" ELSE "running"
ImplementsTransfer == Flow!Spec

=============================================================================
