------------------------------- MODULE DCTCP --------------------------------
(***************************************************************************)
(* A flow of DCTCP: TCP whose source counts the acks with a congestion     *)
(* mark (set by an ECNQueue over its threshold; here any may be marked)    *)
(* and once per window cuts the window by a smoothed fraction of them,     *)
(* alfa.                                                                   *)
(*                                                                         *)
(* alfa is a floating point number that stays positive once it is; the     *)
(* model keeps whether it is positive, and lets the cut be any that such a *)
(* number gives.  DCTCPSrc::doNextEvent starts the flow twice: it calls    *)
(* startflow, and then TcpSrc::doNextEvent calls it again.                 *)
(***************************************************************************)
EXTENDS TCP

VARIABLES
  seen, marked,  \* _pkts_seen, _pkts_marked in the window, per superslice
  alfa,          \* _alfa > 0, per superslice
  pastCwnd       \* _past_cwnd

ecn == <<seen, marked, alfa, pastCwnd>>
vars == <<source, sink, network, ecn>>

Init ==
  /\ TCPInit
  /\ seen = [s \in Slices |-> 0] /\ marked = [s \in Slices |-> FALSE]
  /\ alfa = [s \in Slices |-> FALSE] /\ pastCwnd = [s \in Slices |-> 0]

\* doNextEvent at the start: startflow, twice.  The second start finds the
\* window in use, but sends a second SYN.
StartFlow(s) ==
  /\ highestSent = 0
  /\ cwnd' = [w \in Slices |-> InitCwnd]
  /\ ssthresh' = [w \in Slices |-> NoThreshold]
  /\ pastCwnd' = [w \in Slices |-> 2 * Mss]
  /\ Sends(s, 0, 0, cwnd', established, FALSE,
           IF established THEN EmptyBag
           ELSE One([seq |-> 1, size |-> 1]))
  /\ UNCHANGED <<established, bypass, lastAcked, dupacks, recoverq, inRecovery,
                 rtxPending, finished, sink, acks, faults, seen, marked, alfa>>

\* The windows c that _cwnd * (1 - _alfa / 2) may give, within the bounds the
\* code puts on them.
Cuts(c) == {Least(Most(x, Mss), MaxCwnd) : x \in (c \div 2)..(c - 1)}

\* DCTCPSrc::receivePacket: count the ack; a mark ends slow start; after a
\* window of acks, cut it.  Then TcpSrc::receivePacket.
ReceiveAck(a, w, s, echo) ==
  LET ss == IF echo THEN [ssthresh EXCEPT ![w] = Least(@, cwnd[w])] ELSE ssthresh
      marks == marked[w] \/ echo
  IN /\ BagIn(a, acks)
     /\ \/ finished /\ UNCHANGED ecn /\ Acknowledged(a, w, s, cwnd, ssthresh)
        \/ /\ ~finished /\ (seen[w] + 1) * Mss < pastCwnd[w]
           /\ seen' = [seen EXCEPT ![w] = @ + 1]
           /\ marked' = [marked EXCEPT ![w] = marks]
           /\ UNCHANGED <<alfa, pastCwnd>>
           /\ Acknowledged(a, w, s, cwnd, ss)
        \/ /\ ~finished /\ (seen[w] + 1) * Mss >= pastCwnd[w]
           /\ seen' = [seen EXCEPT ![w] = 0]
           /\ marked' = [marked EXCEPT ![w] = FALSE]
           /\ alfa' = [alfa EXCEPT ![w] = @ \/ marks]
           /\ \E c \in IF alfa'[w] THEN Cuts(cwnd[w]) ELSE {cwnd[w]} :
                /\ pastCwnd' = [pastCwnd EXCEPT ![w] = c]
                /\ Acknowledged(a, w, s, [cwnd EXCEPT ![w] = c],
                                IF alfa'[w] THEN [ss EXCEPT ![w] = c] ELSE ss)

\* A timeout, with the deflate_window of DCTCPSrc.
Timeout(w) ==
  /\ TimesOut(w, Deflated(TimedOutWindow(w)))
  /\ seen' = [seen EXCEPT ![w] = 0] /\ marked' = [marked EXCEPT ![w] = FALSE]
  /\ pastCwnd' = [pastCwnd EXCEPT ![w] = TimedOutWindow(w)]
  /\ UNCHANGED alfa

Over == finished /\ ~rtxPending /\ net = EmptyBag /\ acks = EmptyBag /\ UNCHANGED vars

Next ==
  \/ \E s \in Slices : StartFlow(s) \/ Timeout(s)
  \/ \E a \in BagToSet(acks), w, s \in Slices, e \in BOOLEAN : ReceiveAck(a, w, s, e)
  \/ RtxTimerHook /\ UNCHANGED ecn
  \/ \E p \in BagToSet(net) : ReceiveData(p) /\ UNCHANGED ecn
  \/ Lose /\ UNCHANGED ecn
  \/ Over

Spec == Init /\ [][Next]_vars

\* The start, the scanner and its events happen: all are in the event list.
\* A packet that is not lost arrives.
FairSpec ==
  /\ Spec
  /\ WF_vars(\E s \in Slices : StartFlow(s))
  /\ WF_vars(\E s \in Slices : Timeout(s))
  /\ WF_vars(RtxTimerHook /\ UNCHANGED ecn)
  /\ WF_vars(\E a \in BagToSet(acks), w, s \in Slices, e \in BOOLEAN : ReceiveAck(a, w, s, e))
  /\ WF_vars(\E p \in BagToSet(net) : ReceiveData(p) /\ UNCHANGED ecn)

-----------------------------------------------------------------------------
(* Properties *)

\* Every variable has the type the code declares for it.
TypeOK ==
  /\ highestSent \in 0..(FlowSize + 2 * Mss) /\ lastAcked \in 0..FlowSize
  /\ cwnd \in [Slices -> 0..(MaxCwnd + 3 * Mss)]
  /\ ssthresh \in [Slices -> 0..NoThreshold]
  /\ dupacks \in 0..4 /\ recoverq \in 0..(FlowSize + 2 * Mss)
  /\ cumAck \in 0..(FlowSize + 2 * Mss) /\ received \in Seq(1..(FlowSize + Mss))
  /\ IsABag(net) /\ IsABag(acks)
  /\ faults \in 0..MaxFaults
  /\ seen \in [Slices -> Nat] /\ pastCwnd \in [Slices -> Nat]
  /\ {established, bypass, inRecovery, timer, rtxPending, finished} \subseteq BOOLEAN

\* A flow under way always has its timer set, or the event of it scheduled:
\* else a loss would stop it for ever (receivePacket turns the timer off with
\* an ack of everything, and relies on sending something then).
TimerWhileRunning == highestSent > 0 /\ ~finished => timer \/ rtxPending

\* Every window has room for a packet, whatever cuts, deflations and changes of
\* superslice it went through: the acks of everything sent would else be the
\* last event of the flow.
RoomForAPacket == highestSent > 0 => \A s \in Slices : cwnd[s] >= Mss

\* The safety invariant of the timer: types, a timer while the flow runs, and a
\* window that lets its timeout send a packet.
Inv == TypeOK /\ TimerWhileRunning /\ RoomForAPacket

\* A recovery under way can end: there is data outstanding whose ack ends it.
RecoveryCanEnd == inRecovery => lastAcked < recoverq /\ recoverq <= highestSent

\* The source never takes for acknowledged, and the sink never acknowledges,
\* bytes that did not come, though the sink joins blocks by the size of
\* another packet.
AckedArrived ==
  /\ 1..Least(cumAck, FlowSize) \subseteq arrived
  /\ lastAcked <= cumAck /\ \A a \in BagToSet(acks) : a <= cumAck

\* The flow completes, if only MaxFaults packets are lost.
Completes == <>finished

\* A flow of TCP does what FlowTransfer promises of one.
Flow == INSTANCE FlowTransfer WITH
  Sizes <- {FlowSize}, size <- FlowSize,
  arrived <- arrived \cap 1..(FlowSize + 1),
  outcome <- IF finished THEN "delivered" ELSE "running"
ImplementsTransfer == Flow!Spec

=============================================================================
