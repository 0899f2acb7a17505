------------------------------- MODULE XPass --------------------------------
(***************************************************************************)
(* One flow of the ExpressPass/Flare transport: its source (XPassSrc), its *)
(* sink (XPassSink) and the packets between them.                          *)
(*                                                                         *)
(* The source sends a first window of unscheduled packets at once and then *)
(* a one-byte request for an acknowledgement (ackreq).  Everything else is *)
(* sent one packet per credit.  The sink starts a loop of credits with the *)
(* first packet of a long flow; of a flow that fits the window, only when  *)
(* the ackreq shows that something is missing.  The ackreq is answered by  *)
(* a control packet (XPCTL), from which the source queues the lost         *)
(* unscheduled packets for retransmission.                                 *)
(*                                                                         *)
(* The network reorders.  It drops credits and control packets silently,   *)
(* unscheduled packets silently at an Aeolus threshold, and gives up the   *)
(* flow (setFinished) if it drops data anywhere else.  Rates, times and    *)
(* the tentative flag only decide when credits are sent and which of them  *)
(* are dropped: here, any time and any.                                    *)
(***************************************************************************)
EXTENDS Integers, Sequences, SequencesExt

CONSTANTS
  FlowSizes,       \* sizes in bytes a flow may have
  Mss,             \* _mss
  InitCwnd,        \* _cwnd and _init_cwnd, bytes sent without a credit
  MaxCredits       \* bound: credits in the network (more are dropped)

ASSUME XPassAssumption ==
  /\ FlowSizes \subseteq Nat \ {0} /\ FlowSizes # {}
  /\ Mss \in Nat \ {0} /\ InitCwnd \in Nat \ {0}
  /\ MaxCredits \in Nat \ {0}

VARIABLES
  \* the source
  flowSize,     \* _flow_size
  highestSent,  \* _highest_sent
  lastUnsched,  \* _last_unsched_sent
  lastAcked,    \* _last_acked
  rtxQueue,     \* _rtx_queue
  finished,     \* _finished: delivered, or given up
  \* the sink
  cumAck,       \* _cumulative_ack
  received,     \* _received: blocks above a hole
  lastPacket,   \* _last_packet_seqno, 0 if not known
  isPulling, isRecovering,
  timers,       \* events of the sink in the event list
  fcts,         \* number of flow completion times (FCT) reported
  \* the network
  net,          \* data packets
  credits,      \* credits, by the cumulative ack put in them
  ctls,         \* control packets, by the ack they carry
  ctlLost       \* whether one was dropped (no code reads it)

srcVars  == <<flowSize, highestSent, lastUnsched, lastAcked, rtxQueue>>
sinkVars == <<cumAck, received, lastPacket, isPulling, isRecovering, timers, fcts>>
netVars  == <<net, credits, ctls>>
vars == <<srcVars, finished, sinkVars, netVars, ctlLost>>

Init ==
  /\ flowSize \in FlowSizes
  /\ highestSent = 0 /\ lastUnsched = 0 /\ lastAcked = 0 /\ rtxQueue = <<>>
  /\ finished = FALSE
  /\ cumAck = 0 /\ received = <<>> /\ lastPacket = 0
  /\ isPulling = FALSE /\ isRecovering = FALSE /\ timers = 0 /\ fcts = 0
  /\ net = {} /\ credits = <<>> /\ ctls = {} /\ ctlLost = FALSE

LesserOf(a, b) == IF a <= b THEN a ELSE b

-----------------------------------------------------------------------------
(* XPassSrc *)

PktSize == IF flowSize < Mss THEN flowSize ELSE Mss    \* _pkt_size

\* The packet of the data after the first offset bytes.
DataPacket(offset, unsched) ==
  LET size == LesserOf(PktSize, flowSize - offset)
  IN [seq |-> offset + 1, size |-> size, unsched |-> unsched,
      last |-> offset + size >= flowSize, ackreq |-> FALSE]

AckRequest(offset) ==
  [seq |-> offset + 1, size |-> 1, unsched |-> FALSE, last |-> FALSE, ackreq |-> TRUE]

\* startflow: the unscheduled window, packet after packet, and the ackreq.
Window == {DataPacket(offset, TRUE) :
             offset \in {o \in 0..(LesserOf(InitCwnd, flowSize) - 1) : o % PktSize = 0}}
StartFlow ==
  /\ highestSent = 0
  /\ \E p \in Window :
       /\ \A q \in Window : q.seq <= p.seq
       /\ lastUnsched' = p.seq
       /\ net' = Window \cup {AckRequest(p.seq + p.size - 1)}
       /\ highestSent' = p.seq + p.size
  /\ UNCHANGED <<flowSize, lastAcked, rtxQueue, finished, sinkVars, credits, ctls, ctlLost>>

\* send_packet: a retransmission if there is one, or new data.
\* Mutant: a source that has sent everything once ignores its credits.
SendPacketNewFirst(rtx) ==
  \/ /\ highestSent >= flowSize
     /\ rtxQueue' = rtx /\ UNCHANGED <<net, highestSent>>
  \/ /\ highestSent < flowSize
     /\ LET p == DataPacket(highestSent, FALSE)
        IN net' = net \cup {p} /\ highestSent' = highestSent + p.size
     /\ rtxQueue' = rtx

SendPacket(rtx) ==
  \/ /\ rtx # <<>>
     /\ net' = net \cup {Head(rtx)} /\ rtxQueue' = Tail(rtx)
     /\ UNCHANGED highestSent
  \/ /\ rtx = <<>> /\ highestSent >= flowSize
     /\ rtxQueue' = rtx /\ UNCHANGED <<net, highestSent>>
  \/ /\ rtx = <<>> /\ highestSent < flowSize
     /\ LET p == DataPacket(highestSent, FALSE)
        IN net' = net \cup {p} /\ highestSent' = highestSent + p.size
     /\ rtxQueue' = rtx

\* What a credit says of the ack: the sink fills _ackno, but the source reads
\* _cumulative_ack, which keeps the 0 it was allocated with.
CumulativeAck(credit) == 0

\* Packets below a new ack are counted; as many are taken from the front.
Purged(acked) ==
  LET n == Len(SelectSeq(rtxQueue, LAMBDA p : p.seq < acked))
  IN SubSeq(rtxQueue, n + 1, Len(rtxQueue))

ReceiveCredit(i) ==
  /\ LET ack == CumulativeAck(credits[i])
     IN IF ack > lastAcked
        THEN lastAcked' = ack /\ SendPacket(Purged(ack))
        ELSE SendPacket(rtxQueue) /\ UNCHANGED lastAcked
  /\ credits' = RemoveAt(credits, i)
  /\ UNCHANGED <<flowSize, lastUnsched, finished, sinkVars, ctls, ctlLost>>

\* Mutant: from the packet after the ack on.
ReceiveCtlSkips(ack) ==
  /\ LET n == IF ack < lastUnsched THEN (lastUnsched - ack + PktSize - 1) \div PktSize ELSE 0
     IN rtxQueue' = rtxQueue \o [k \in 1..n |-> DataPacket(ack + k * PktSize, FALSE)]
  /\ ctls' = ctls \ {ack}
  /\ UNCHANGED <<flowSize, highestSent, lastUnsched, lastAcked, finished, sinkVars, net, credits, ctlLost>>

\* Mutant: the number of packets is rounded down.
ReceiveCtlShort(ack) ==
  /\ LET n == IF ack < lastUnsched THEN (lastUnsched - ack) \div PktSize ELSE 0
     IN rtxQueue' = rtxQueue \o [k \in 1..n |-> DataPacket(ack + (k - 1) * PktSize, FALSE)]
  /\ ctls' = ctls \ {ack}
  /\ UNCHANGED <<flowSize, highestSent, lastUnsched, lastAcked, finished, sinkVars, net, credits, ctlLost>>

\* The unscheduled packets from the ack on are queued for retransmission.
ReceiveCtl(ack) ==
  /\ LET n == IF ack < lastUnsched THEN (lastUnsched - ack + PktSize - 1) \div PktSize ELSE 0
     IN rtxQueue' = rtxQueue \o [k \in 1..n |-> DataPacket(ack + (k - 1) * PktSize, FALSE)]
  /\ ctls' = ctls \ {ack}
  /\ UNCHANGED <<flowSize, highestSent, lastUnsched, lastAcked, finished, sinkVars, net, credits, ctlLost>>

-----------------------------------------------------------------------------
(* XPassSink *)

\* Blocks at the front of list that follow on from byte c are merged.
Follows(list, c, i) ==
  list[i].seq = IF i = 1 THEN c + 1 ELSE list[i - 1].seq + list[i - 1].size
Merged(list, c) ==
  CHOOSE k \in 0..Len(list) :
    /\ \A i \in 1..k : Follows(list, c, i)
    /\ k < Len(list) => ~ Follows(list, c, k + 1)

\* A block is put before the first one that does not start below it, unless
\* that one has its sequence number.
Insert(list, b) ==
  LET k == CHOOSE k \in 1..(Len(list) + 1) :
             /\ \A i \in 1..(k - 1) : list[i].seq < b.seq
             /\ k <= Len(list) => b.seq <= list[k].seq
  IN IF k <= Len(list) /\ list[k].seq = b.seq THEN list ELSE InsertAt(list, k, b)

\* The cumulative ack and the blocks above it once p has arrived.
Accept(p) ==
  LET end == p.seq + p.size - 1
      k   == Merged(received, end)
  IN IF p.seq = cumAck + 1
     THEN [ack  |-> IF k = 0 THEN end ELSE received[k].seq + received[k].size - 1,
           rest |-> SubSeq(received, k + 1, Len(received))]
     ELSE [ack  |-> cumAck,
           rest |-> IF p.seq < cumAck + 1 THEN received
                    ELSE Insert(received, [seq |-> p.seq, size |-> p.size])]

\* Data above a window is pulled from its first packet on.
StartsPulling == ~ isPulling /\ flowSize > InitCwnd
\* Mutant: an ackreq starts credits though they are being sent.
StartsRecoveringTwice(p, ack) == p.ackreq /\ ack <= p.seq

\* An ackreq starts the credits of a short flow.
StartsRecovering(p, ack) == p.ackreq /\ ack <= p.seq /\ ~ (isPulling \/ StartsPulling)

\* Mutant: completes again with every packet that comes later.
CompletesAgain(ack, last) == last > 0 /\ ack >= last

CompletesWith(ack, last) == last > 0 /\ ack >= last /\ ~ finished

ReceiveData(p) ==
  LET new  == Accept(p)
      last == IF p.last THEN p.seq + p.size - 1 ELSE lastPacket
      done == CompletesWith(new.ack, last)
      caughtUp == p.seq = cumAck + 1 /\ p.seq + p.size - 1 >= InitCwnd
  IN /\ cumAck' = new.ack /\ received' = new.rest /\ lastPacket' = last
     /\ isPulling' = (isPulling \/ StartsPulling)
     /\ isRecovering' = (StartsRecovering(p, new.ack) \/ (isRecovering /\ ~ caughtUp))
     /\ timers' = timers + (IF StartsPulling THEN 1 ELSE 0)
                         + (IF StartsRecovering(p, new.ack) THEN 1 ELSE 0)
     /\ ctls' = IF p.ackreq THEN ctls \cup {LesserOf(new.ack, p.seq)} ELSE ctls
     /\ finished' = (finished \/ done)
     /\ fcts' = IF done THEN fcts + 1 ELSE fcts
     /\ net' = net \ {p}
     /\ UNCHANGED <<srcVars, credits, ctlLost>>

\* doNextEvent: a credit, and the next event unless the flow is over.
SendCredit ==
  /\ timers > 0
  /\ credits' = IF Len(credits) < MaxCredits THEN Append(credits, cumAck) ELSE credits
  /\ timers' = IF finished THEN timers - 1 ELSE timers
  /\ UNCHANGED <<srcVars, finished, cumAck, received, lastPacket, isPulling,
                 isRecovering, fcts, net, ctls, ctlLost>>

-----------------------------------------------------------------------------
(* The network: queues and pipes *)

DropCredit(i) ==
  /\ credits' = RemoveAt(credits, i)
  /\ UNCHANGED <<srcVars, finished, sinkVars, net, ctls, ctlLost>>

DropCtl(ack) ==
  /\ ctls' = ctls \ {ack} /\ ctlLost' = TRUE
  /\ UNCHANGED <<srcVars, finished, sinkVars, net, credits>>

\* CreditQueue::receivePacket at its threshold for unscheduled packets.
DropUnscheduled(p) ==
  /\ p.unsched
  /\ net' = net \ {p}
  /\ UNCHANGED <<srcVars, finished, sinkVars, credits, ctls, ctlLost>>

\* A full queue, a link that is down or the wrong downlink: setFinished.
DropData(p) ==
  /\ net' = net \ {p} /\ finished' = TRUE
  /\ UNCHANGED <<srcVars, sinkVars, credits, ctls, ctlLost>>

\* The end: nothing is left in the network or in the event list.
Over ==
  /\ finished /\ timers = 0 /\ netVars = <<{}, <<>>, {}>>
  /\ UNCHANGED vars

Next ==
  \/ Over
  \/ StartFlow
  \/ \E i \in DOMAIN credits : ReceiveCredit(i)
  \/ \E ack \in ctls : ReceiveCtl(ack)
  \/ \E p \in net : ReceiveData(p)
  \/ SendCredit
  \/ \E i \in DOMAIN credits : DropCredit(i)
  \/ \E ack \in ctls : DropCtl(ack)
  \/ \E p \in net : DropUnscheduled(p) \/ DropData(p)

Spec == Init /\ [][Next]_vars

\* The simulator runs every event, the network delivers or drops what it
\* holds, and it does not drop every credit.  (A flow has finitely many data
\* packets, so delivering some is delivering each.)
FairSpec ==
  /\ Spec
  /\ WF_vars(StartFlow)
  /\ WF_vars(SendCredit)
  /\ WF_vars(\E p \in net : ReceiveData(p))
  /\ WF_vars(\E ack \in ctls : ReceiveCtl(ack))
  /\ SF_vars(\E i \in DOMAIN credits : ReceiveCredit(i))

-----------------------------------------------------------------------------
(* Properties *)

DataPackets == [seq : Nat, size : Nat, unsched : BOOLEAN, last : BOOLEAN, ackreq : BOOLEAN]

\* Every variable has the type the code declares for it.
TypeOK ==
  /\ flowSize \in FlowSizes /\ finished \in BOOLEAN
  /\ {highestSent, lastUnsched, lastAcked, cumAck, lastPacket, timers, fcts} \subseteq Nat
  /\ rtxQueue \in Seq(DataPackets) /\ net \subseteq DataPackets
  /\ received \in Seq([seq : Nat, size : Nat])
  /\ isPulling \in BOOLEAN /\ isRecovering \in BOOLEAN /\ ctlLost \in BOOLEAN
  /\ credits \in Seq(Nat) /\ ctls \subseteq Nat

Bytes(b) == b.seq..(b.seq + b.size - 1)
Arrived == 1..cumAck \cup UNION {Bytes(received[i]) : i \in DOMAIN received}

\* The list of received blocks is sorted, has no overlap and lies above a
\* hole: a block below the hole would stop the merging for ever.  It holds
\* because a retransmission has the same bounds as the packet it replaces.
BlocksAboveHole ==
  \A i \in DOMAIN received :
    received[i].seq > 1 + IF i = 1 THEN cumAck
                          ELSE received[i - 1].seq + received[i - 1].size - 2

\* A retransmission repeats a packet of the first window bound for bound,
\* whatever the ack the source was given.
RetransmitsWindow ==
  \A i \in DOMAIN rtxQueue : [rtxQueue[i] EXCEPT !.unsched = TRUE] \in Window

\* The safety invariant of reassembly: types, blocks above a hole, and
\* retransmissions that repeat the window.
Inv == TypeOK /\ BlocksAboveHole /\ RetransmitsWindow

\* Two credit loops for one flow would double its rate: the sink has at most
\* one event outstanding, and has one as long as a flow it pulls goes on.
OneCreditLoop ==
  /\ timers <= 1
  /\ (isPulling \/ isRecovering) /\ ~ finished => timers = 1

\* No byte is taken for delivered that was not sent, and whatever is neither
\* delivered nor in the network can still be sent again, once the control
\* packet is back: as long as it is under way, nothing is lost for good.
NothingLostForGood ==
  \A b \in 1..flowSize :
    \/ b \in Arrived
    \/ b > highestSent
    \/ \E p \in net : b \in Bytes(p) \/ p.ackreq
    \/ \E i \in DOMAIN rtxQueue : b \in Bytes(rtxQueue[i])
    \/ \E ack \in ctls : b > ack
    \/ finished \/ ctlLost \/ highestSent = 0

\* The flow implements the promise of a transport: a completion time is
\* reported once, when every byte has arrived, and never for a flow that was
\* given up.
Transfer ==
  INSTANCE FlowTransfer WITH
    Sizes <- FlowSizes, size <- flowSize, arrived <- Arrived,
    outcome <- CASE fcts = 0 /\ ~ finished -> "running"
                 [] fcts = 0 /\ finished   -> "givenUp"
                 [] fcts = 1               -> "delivered"
                 [] fcts > 1               -> "delivered again"
ImplementsTransfer == Transfer!Spec

\* Every flow ends, delivered or given up, unless its control packet was lost.
Completes == <>(finished \/ ctlLost)

=============================================================================
