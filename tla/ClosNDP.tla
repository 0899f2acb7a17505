------------------------------ MODULE ClosNDP -------------------------------
(***************************************************************************)
(* The NDP transport of the Clos simulator (src/src/clos/ndp.cpp), where   *)
(* it differs from that of Opera (NDP).  Packets are spread over the paths *)
(* of a static network, and the source keeps the last feedback in a ring:  *)
(* a returned packet is sent again at once if enough of it were ACKs, as   *)
(* its path must be the bad one.  There are no timeouts (RESEND_ON_TIMEOUT *)
(* is not defined, so rtx_timer_hook returns), a NACK always waits for a   *)
(* pull, and an ACK that carries its pull leaves one pull too many         *)
(* expected: the line that counts it follows an "if (_log_me)" whose own   *)
(* statement is commented out.                                             *)
(*                                                                         *)
(* The path of a packet decides its delay only, and delays are arbitrary   *)
(* here: the choice of paths is left out (SourceRouted checks the routes). *)
(***************************************************************************)
EXTENDS NDP

CONSTANTS HistLen   \* HIST_LEN

VARIABLES
  history,     \* _feedback_history, oldest first
  overtaken    \* history: a pull was taken before a NACK sent earlier

closVars == <<history, overtaken>>

ClosInit == Init /\ history = <<>> /\ overtaken = FALSE

\* count_feedback; its scores of single paths are left out.
CountFeedback(fb) ==
  LET all == Append(history, fb)
  IN history' = IF Len(all) > HistLen THEN Tail(all) ELSE all

\* is_bad_path: a third of the feedback was ACKs.
IsBadPath(hist) ==
  LET acks == Len(SelectSeq(hist, LAMBDA fb : fb = "ack"))
  IN acks > 0 /\ Len(hist) \div acks <= 3

\* pull_packets.
ClosPullPackets(no, rtx, sent0) ==
  /\ PullPackets(no, rtx, sent0)
  /\ overtaken' = (overtaken \/ \E f \in feedback' : f.kind = "nack" /\ f.no <= no)

ClosStartFlow == StartFlow /\ UNCHANGED closVars

ClosReceivePull(f) ==
  /\ f.kind = "pull"
  /\ pullWindow' = pullWindow - 1
  /\ feedback' = feedback \ {f}
  /\ ClosPullPackets(f.no, rtxQueue, sentTimes)
  /\ UNCHANGED <<firstWindow, fcts, history, sinkVars, pacerVars, faultVars>>

\* processAck.
ClosReceiveAck(f) ==
  /\ f.kind = "ack"
  /\ pullWindow' = pullWindow + 1 /\ firstWindow' = firstWindow - 1
  /\ CountFeedback("ack")
  /\ fcts' = IF AllAcked(f.cum) THEN fcts + 1 ELSE fcts
  /\ feedback' = feedback \ {f}
  /\ ClosPullPackets(IF f.pull THEN f.no ELSE 0, rtxQueue, Without(sentTimes, {f.packet}))
  /\ UNCHANGED <<sinkVars, pacerVars, faultVars>>

\* processNack.
ClosReceiveNack(f) ==
  /\ f.kind = "nack"
  /\ pullWindow' = pullWindow + 1 /\ firstWindow' = firstWindow - 1
  /\ CountFeedback("nack")
  /\ feedback' = feedback \ {f}
  /\ ClosPullPackets(IF f.pull THEN f.no ELSE 0,
                     Append(rtxQueue, f.packet), Without(sentTimes, {f.packet}))
  /\ UNCHANGED <<fcts, sinkVars, pacerVars, faultVars>>

\* processRTS.
ClosReceiveBounced(p) ==
  /\ p.form = "bounced"
  /\ firstWindow' = firstWindow - 1
  /\ CountFeedback("bounce")
  /\ Sends(IF (pullWindow = 0 /\ firstWindow' <= 1) \/ IsBadPath(history') THEN 1 ELSE 0,
           <<p.no>> \o rtxQueue, net (-) One(p), Without(sentTimes, {p.no}))
  /\ UNCHANGED <<lastPull, pullWindow, fcts, overtaken, sinkVars, pacerVars, feedback,
                 faultVars>>

\* The sink and the pacer act as in Opera.
ClosReceiveHeader(p) == ReceiveHeader(p) /\ UNCHANGED closVars
ClosReceiveData(p)   == ReceiveData(p) /\ UNCHANGED closVars
ClosPacerEvent       == PacerEvent /\ UNCHANGED closVars
ClosLoseFeedback(f)  == LoseFeedback(f) /\ UNCHANGED closVars

\* The network trims, returns and drops as in Opera.
ClosFault == \E p \in DOMAIN net : (Trim(p) \/ Bounce(p) \/ DropBounced(p)) /\ UNCHANGED closVars

\* The end: nothing under way and no event.
ClosOver ==
  /\ highestSent > 0 /\ net = EmptyBag /\ feedback = {} /\ events = 0
  /\ UNCHANGED <<vars, closVars>>

ClosFeedback == \E f \in feedback : ClosReceivePull(f) \/ ClosReceiveAck(f) \/ ClosReceiveNack(f)
ClosPacket ==
  \E p \in DOMAIN net : ClosReceiveBounced(p) \/ ClosReceiveHeader(p) \/ ClosReceiveData(p)

ClosNext ==
  \/ ClosOver \/ ClosStartFlow \/ ClosFeedback \/ ClosPacket \/ ClosPacerEvent \/ ClosFault
  \/ \E f \in feedback : ClosLoseFeedback(f)

-----------------------------------------------------------------------------
(* Properties *)

\* Without timers, nothing but a loss makes the source forget a packet.
ClosNotForgotten ==
  losses = 0 =>
    \A n \in Missing \cap 1..highestSent : UnderWay(n) \/ n \in ToSet(rtxQueue)

\* "a pull that gets there faster on another path can supercede" another one
\* (ndp.cpp:588), but a pull that arrives before the NACK it was sent for may
\* be spent on nothing, and the packet then waits for ever.
ClosCompletes == <>(fcts > 0 \/ bounces > 0 \/ losses > 0 \/ overtaken)

=============================================================================
