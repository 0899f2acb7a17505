------------------------------ MODULE ClosXPass ------------------------------
(***************************************************************************)
(* ExpressPass in the Clos simulator (src/src/clos/xpass.cpp), the older   *)
(* copy of the transport, where it differs from that of Opera (XPass).     *)
(* The first window is one packet; there is no ackreq, no control packet   *)
(* and no threshold for unscheduled packets; every packet has the size of  *)
(* the others (_pkt_size), the last one too; the sink starts its credits   *)
(* with the first packet.  Nothing is ever queued for retransmission, and  *)
(* the timer returns at once (RESEND_ON_TIMEOUT is not defined): a packet  *)
(* that a queue drops is lost, and the credits of its flow never end.      *)
(***************************************************************************)
EXTENDS XPass

VARIABLE dataLost   \* history: a queue dropped data of the flow

\* What only the transport of Opera has.
operaVars == <<flowSize, lastUnsched, rtxQueue, isRecovering, ctls, ctlLost>>

\* What the source and the sink have; the number of FCTs stands for their log.
closSrcVars  == <<flowSize, highestSent, lastAcked, finished>>
closSinkVars == <<cumAck, received, lastPacket, isPulling, timers, fcts>>

ClosInit == Init /\ dataLost = FALSE

\* The packet of the data after the first offset bytes.
WholePacket(offset) ==
  [seq |-> offset + 1, size |-> PktSize, unsched |-> FALSE,
   last |-> offset + PktSize >= flowSize, ackreq |-> FALSE]

\* send_packet; _rtx_queue is empty.
ClosSendPacket ==
  \/ /\ highestSent >= flowSize
     /\ UNCHANGED <<net, highestSent>>
  \/ /\ highestSent < flowSize
     /\ net' = net \cup {WholePacket(highestSent)}
     /\ highestSent' = highestSent + PktSize

\* A window (_cwnd) of _mss is one packet.
ClosStartFlow ==
  /\ highestSent = 0
  /\ ClosSendPacket
  /\ UNCHANGED <<operaVars, lastAcked, finished, closSinkVars, credits, dataLost>>

\* receivePacket and pull_packets, which sends one packet whatever the number
\* of the pull.
ClosReceiveCredit(i) ==
  /\ LET ack == CumulativeAck(credits[i])
     IN lastAcked' = IF ack > lastAcked THEN ack ELSE lastAcked
  /\ ClosSendPacket
  /\ credits' = RemoveAt(credits, i)
  /\ UNCHANGED <<operaVars, finished, closSinkVars, dataLost>>

\* Nothing asks whether the flow has finished before.
ClosReceiveData(p) ==
  LET new  == Accept(p)
      last == IF p.last THEN p.seq + p.size - 1 ELSE lastPacket
      done == last > 0 /\ new.ack = last
  IN /\ cumAck' = new.ack /\ received' = new.rest /\ lastPacket' = last
     /\ isPulling' = TRUE
     /\ timers' = IF isPulling THEN timers ELSE timers + 1
     /\ finished' = (finished \/ done)
     /\ fcts' = IF done THEN fcts + 1 ELSE fcts
     /\ net' = net \ {p}
     /\ UNCHANGED <<operaVars, highestSent, lastAcked, credits, dataLost>>

\* doNextEvent of the sink, as in Opera.
ClosSendCredit == SendCredit /\ UNCHANGED dataLost

ClosDropCredit(i) == DropCredit(i) /\ UNCHANGED dataLost

\* A full CreditQueue drops data and tells nobody.
ClosDropData(p) ==
  /\ net' = net \ {p} /\ dataLost' = TRUE
  /\ UNCHANGED <<operaVars, closSrcVars, closSinkVars, credits>>

ClosOver ==
  /\ highestSent > 0 /\ timers = 0 /\ netVars = <<{}, <<>>, {}>>
  /\ UNCHANGED <<vars, dataLost>>

ClosNext ==
  \/ ClosOver \/ ClosStartFlow \/ ClosSendCredit
  \/ \E i \in DOMAIN credits : ClosReceiveCredit(i) \/ ClosDropCredit(i)
  \/ \E p \in net : ClosReceiveData(p) \/ ClosDropData(p)

-----------------------------------------------------------------------------
(* Properties *)

\* As nothing is sent twice, a byte that was sent arrives, is on its way, or
\* was in a packet that a queue dropped.
ClosNothingLost ==
  ~ dataLost => \A b \in 1..flowSize :
                  b \in Arrived \/ b > highestSent \/ \E p \in net : b \in Bytes(p)

\* A flow that loses no data completes, whatever credits are dropped: one
\* credit is sent for each packet that is missing.
ClosCompletes == <>(fcts > 0 \/ dataLost)

=============================================================================
