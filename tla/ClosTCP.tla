------------------------------ MODULE ClosTCP -------------------------------
(***************************************************************************)
(* A flow of DCTCP in the Clos simulator (src/src/clos/tcp.cpp, dctcp.cpp) *)
(* where it differs from that of Opera (TCP, DCTCP).  There is one window, *)
(* kept here as the same value for every superslice; every packet has one  *)
(* size (_pkt_size), the last one too; the flow is started once; and the   *)
(* source knows what was dropped: a queue that drops a packet records it   *)
(* (add_to_dropped), and the third duplicate ack of one that was not       *)
(* dropped but is late is ignored (ORACLE).  DCTCPSrc::receivePacket does  *)
(* not ask whether the flow has finished.                                  *)
(***************************************************************************)
EXTENDS DCTCP

VARIABLES dropped   \* _dropped_at_queue

ClosTCPInit == Init /\ dropped = EmptyBag

\* The window and its threshold.
Cwnd     == cwnd[CHOOSE s \in Slices : TRUE]
Ssthresh == ssthresh[CHOOSE s \in Slices : TRUE]
Windows(c, t) == cwnd' = [s \in Slices |-> c] /\ ssthresh' = [s \in Slices |-> t]

\* What DCTCPSrc counts, in the same way.
Seen     == seen[CHOOSE s \in Slices : TRUE]
Marked   == marked[CHOOSE s \in Slices : TRUE]
Alfa     == alfa[CHOOSE s \in Slices : TRUE]
PastCwnd == pastCwnd[CHOOSE s \in Slices : TRUE]
Counts(n, mark, al, past) ==
  /\ seen' = [s \in Slices |-> n] /\ marked' = [s \in Slices |-> mark]
  /\ alfa' = [s \in Slices |-> al] /\ pastCwnd' = [s \in Slices |-> past]

\* send_packets with everything up to a acknowledged and window c, from h on.
ClosSends(h, a, c, est, on, more) ==
  LET starts == Starts(h, a, c) IN
  IF ~est
  THEN /\ net' = net (+) more (+) One([seq |-> 1, size |-> 1])
       /\ highestSent' = 1 /\ timer' = TRUE
  ELSE /\ net' = net (+) more (+) SetToBag({Again(q) : q \in starts})
       /\ highestSent' = h + Mss * Cardinality(starts)
       /\ timer' = (on \/ starts # {})

\* startflow.
ClosStartFlow ==
  /\ highestSent = 0
  /\ Windows(InitCwnd, NoThreshold)
  /\ pastCwnd' = [s \in Slices |-> 2 * Mss]
  /\ ClosSends(0, 0, InitCwnd, established, FALSE, EmptyBag)
  /\ UNCHANGED <<established, bypass, lastAcked, dupacks, recoverq, inRecovery, rtxPending,
                 finished, sink, acks, faults, seen, marked, alfa, dropped>>

-----------------------------------------------------------------------------
(* TcpSrc::receivePacket of the ack n, with what DCTCPSrc has left of the  *)
(* window, r; h and on are _highest_sent and the timer as the ack has set  *)
(* them.                                                                   *)

Keeps(r) == Counts(r.seen, r.marked, r.alfa, r.past) /\ UNCHANGED dropped

ClosNewAck(n, r, h, on) ==
  /\ ~inRecovery
  /\ lastAcked' = n /\ dupacks' = 0
  /\ LET c == Least(Inflated(r.cwnd, r.ssthresh, h, n), MaxCwnd)
     IN Windows(c, r.ssthresh) /\ ClosSends(h, n, c, established', on, EmptyBag)
  /\ Keeps(r)
  /\ UNCHANGED <<recoverq, inRecovery>>

ClosFullAck(n, r, h, on) ==
  /\ inRecovery /\ n >= recoverq
  /\ lastAcked' = n /\ dupacks' = 0 /\ inRecovery' = FALSE
  /\ LET c == Least(r.ssthresh, h - n + Mss)
     IN Windows(c, r.ssthresh) /\ ClosSends(h, n, c, established', on, EmptyBag)
  /\ Keeps(r)
  /\ UNCHANGED recoverq

ClosPartialAck(n, r, h) ==
  /\ inRecovery /\ n < recoverq
  /\ lastAcked' = n
  /\ LET c == Most(r.cwnd - (n - lastAcked), 0) + Mss
     IN Windows(c, r.ssthresh) /\ ClosSends(h, n, c, established', TRUE, One(Again(n)))
  /\ Keeps(r)
  /\ UNCHANGED <<dupacks, recoverq, inRecovery>>

ClosDupAck(r) ==
  /\ \/ inRecovery /\ Windows(Least(r.cwnd + Mss, MaxCwnd), r.ssthresh) /\ UNCHANGED dupacks
     \/ /\ ~inRecovery /\ dupacks # 2
        /\ Windows(r.cwnd, r.ssthresh)
        /\ dupacks' = Least(dupacks + 1, 4)   \* past 3 it only grows
  /\ \E c \in {cwnd'[s] : s \in Slices} :
       ClosSends(highestSent, lastAcked, c, established', timer, EmptyBag)
  /\ Keeps(r)
  /\ UNCHANGED <<lastAcked, recoverq, inRecovery>>

WasItDropped(q) == BagIn(q, dropped)

ClosThirdIgnored(r) ==
  /\ ~inRecovery /\ dupacks = 2 /\ dupacks' = 3
  /\ lastAcked < recoverq \/ ~WasItDropped(lastAcked + 1)
  /\ Windows(r.cwnd, r.ssthresh) /\ Keeps(r)
  /\ UNCHANGED <<lastAcked, recoverq, inRecovery, highestSent, timer, net>>

\* The deflate_window is that of DCTCPSrc, or returns at once (_is_hpcc).
ClosStartRecovery(r) ==
  /\ ~inRecovery /\ dupacks = 2 /\ dupacks' = 3
  /\ lastAcked >= recoverq /\ WasItDropped(lastAcked + 1)
  /\ dropped' = dropped (-) One(lastAcked + 1)
  /\ inRecovery' = TRUE /\ recoverq' = highestSent
  /\ LET t == IF r.deflates THEN Deflated(r.cwnd) ELSE r.ssthresh IN Windows(t + 3 * Mss, t)
  /\ Counts(0, FALSE, r.alfa, IF r.deflates THEN r.cwnd ELSE r.past)
  /\ net' = net (+) One(Again(lastAcked)) /\ timer' = TRUE
  /\ UNCHANGED <<lastAcked, highestSent>>

ClosAcknowledged(no, r) ==
  LET new  == no > lastAcked
      done == new /\ no >= highestSent
      h    == IF done THEN no ELSE highestSent
      old  == finished \/ no < lastAcked
  IN /\ acks' = acks (-) One(no)
     /\ established' = (established \/ (~old /\ no = 1))
     /\ finished' = (finished \/ (~old /\ AllAcked(no)))
     /\ IF old \/ AllAcked(no)
        THEN /\ Windows(r.cwnd, r.ssthresh) /\ Keeps(r)
             /\ UNCHANGED <<highestSent, lastAcked, dupacks, recoverq, inRecovery, timer, net>>
        ELSE IF new
        THEN ClosNewAck(no, r, h, ~done) \/ ClosFullAck(no, r, h, ~done) \/ ClosPartialAck(no, r, h)
        ELSE ClosDupAck(r) \/ ClosThirdIgnored(r) \/ ClosStartRecovery(r)
     /\ UNCHANGED <<bypass, rtxPending, sink, faults>>

\* The windows that _cwnd * (1 - _alfa / 2) may give.
ClosCuts(c) == {Most(x, Mss) : x \in (c \div 2)..(c - 1)}

\* What DCTCPSrc::receivePacket makes of the window before TcpSrc sees the ack.
Counted(echo) ==
  LET mark == Marked \/ echo
      al   == Alfa \/ mark
      t    == IF echo THEN Least(Ssthresh, Cwnd) ELSE Ssthresh
  IN IF (Seen + 1) * Mss < PastCwnd
     THEN {[seen |-> Seen + 1, marked |-> mark, alfa |-> Alfa, past |-> PastCwnd,
            cwnd |-> Cwnd, ssthresh |-> t, deflates |-> TRUE]}
     ELSE {[seen |-> 0, marked |-> FALSE, alfa |-> al, past |-> c, cwnd |-> c,
            ssthresh |-> IF al THEN c ELSE t, deflates |-> TRUE] : c \in IF al THEN ClosCuts(Cwnd) ELSE {Cwnd}}

ClosReceiveAck(a, echo) == BagIn(a, acks) /\ \E r \in Counted(echo) : ClosAcknowledged(a, r)

-----------------------------------------------------------------------------
(* The timer, the sink and the network *)

ClosTimerHook == RtxTimerHook /\ UNCHANGED <<ecn, dropped>>

\* doNextEvent with _rtx_timeout_pending, when deflate_window leaves t in the
\* threshold.
ClosTimesOut(t) ==
  /\ rtxPending /\ rtxPending' = FALSE
  /\ Windows(Mss, t)
  /\ inRecovery' = FALSE /\ recoverq' = highestSent /\ dupacks' = 0
  /\ highestSent' = IF established THEN lastAcked + Mss ELSE highestSent
  /\ net' = net (+) One(IF established THEN Again(lastAcked) ELSE [seq |-> 1, size |-> 1])
  /\ timer' = (timer \/ established)
  /\ UNCHANGED <<established, bypass, lastAcked, finished, sink, acks, faults, dropped>>

ClosTimeout ==
  \E c \in {TimedOutWindow(s) : s \in Slices} :
    ClosTimesOut(Deflated(c)) /\ Counts(0, FALSE, Alfa, c)

\* TcpSink::receivePacket, send_ack.
ClosReceiveData(p) == ReceiveData(p) /\ UNCHANGED <<ecn, dropped>>

\* A queue that drops a packet tells its source, add_to_dropped; one that drops
\* an ack does not.
ClosLose ==
  /\ Lose /\ UNCHANGED ecn
  /\ \/ net' = net /\ UNCHANGED dropped
     \/ \E p \in BagToSet(net) :
          net' = net (-) One(p) /\ dropped' = dropped (+) One(p.seq)

ClosOver == Over /\ UNCHANGED dropped

ClosNext ==
  \/ ClosStartFlow \/ ClosTimeout \/ ClosTimerHook \/ ClosLose \/ ClosOver
  \/ \E a \in BagToSet(acks), e \in BOOLEAN : ClosReceiveAck(a, e)
  \/ \E p \in BagToSet(net) : ClosReceiveData(p)

=============================================================================
