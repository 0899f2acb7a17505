-------------------------------- MODULE TCP ---------------------------------
(***************************************************************************)
(* One flow of TCP (NewReno with fast recovery), its source TcpSrc and its *)
(* sink TcpSink, without the congestion control that DCTCP adds.           *)
(*                                                                         *)
(* A source may keep one window per superslice of the rotor network        *)
(* (TDTCP): an ack adjusts the window of the superslice its data left in,  *)
(* the source sends by the window of the present one.  Sequence numbers    *)
(* count bytes; a SYN takes byte 1, so that the last byte of a flow with a *)
(* SYN is FlowSize + 1.                                                    *)
(*                                                                         *)
(* The network reorders and loses.  The retransmission timer is polled by  *)
(* a scanner for all flows: it first schedules an event and only that      *)
(* event acts, whatever came in between.  It goes off when nothing is left *)
(* in the network, or while something is; losses and early timeouts        *)
(* together are at most MaxFaults.  Round trip times and counters that   *)
(* are only printed are left out.                                          *)
(***************************************************************************)
EXTENDS Integers, Sequences, FiniteSets, Bags, SequencesExt

CONSTANTS
  FlowSize,      \* _flow_size, bytes
  Mss,           \* _mss and _minss
  InitCwnd,      \* _init_cwnd
  MaxCwnd,       \* get_max_cwnd()
  NoThreshold,   \* the first _ssthresh, 0xffffffff in the code
  Slices,        \* superslices that have a window of their own (TDTCP)
  NoSyn,         \* values of _established at the start: set_nosyn() or not
  Bypasses,      \* values of _bypass_tcp, which only HPCCSrc sets
  MaxFaults      \* bound: packets and acks lost, and timeouts too early

ASSUME TCPAssumption ==
  /\ Mss \in Nat \ {0} /\ FlowSize \in Nat /\ FlowSize >= Mss
  /\ InitCwnd \in Nat /\ InitCwnd >= Mss
  /\ MaxCwnd \in Nat /\ MaxCwnd >= 3 * Mss /\ MaxCwnd >= InitCwnd
  /\ NoThreshold \in Nat /\ NoThreshold >= MaxCwnd + 3 * Mss
  /\ Slices # {} /\ NoSyn \subseteq BOOLEAN /\ NoSyn # {}
  /\ Bypasses \subseteq BOOLEAN /\ Bypasses # {} /\ MaxFaults \in Nat

VARIABLES
  \* the source
  established,  \* _established
  bypass,       \* _bypass_tcp
  highestSent, lastAcked,
  cwnd, ssthresh,       \* one of each per superslice
  dupacks, recoverq, inRecovery,
  timer,        \* whether _RFC2988_RTO_timeout is set
  rtxPending,   \* _rtx_timeout_pending: the event of the timer is scheduled
  finished,     \* _finished
  \* the sink
  cumAck,
  received,     \* starts of the blocks above a hole, in order
  arrived,      \* every byte that has come (no code reads it)
  \* the network
  net,          \* bag of data packets
  acks,         \* bag of the numbers acknowledged
  faults        \* losses and early timeouts so far

source  == <<established, bypass, highestSent, lastAcked, cwnd, ssthresh,
             dupacks, recoverq, inRecovery, timer, rtxPending, finished>>
sink    == <<cumAck, received, arrived>>
network == <<net, acks, faults>>

TCPInit ==
  /\ established \in NoSyn /\ bypass \in Bypasses
  /\ highestSent = 0 /\ lastAcked = 0
  /\ cwnd = [s \in Slices |-> 0] /\ ssthresh = [s \in Slices |-> 0]
  /\ dupacks = 0 /\ recoverq = 0 /\ inRecovery = FALSE
  /\ timer = FALSE /\ rtxPending = FALSE /\ finished = FALSE
  /\ cumAck = 0 /\ received = <<>> /\ arrived = {}
  /\ net = EmptyBag /\ acks = EmptyBag
  /\ faults = 0

Least(a, b) == IF a < b THEN a ELSE b
Most(a, b)  == IF a > b THEN a ELSE b

\* One element, as a bag.
One(x) == SetToBag({x})

-----------------------------------------------------------------------------
(* Sending *)

\* The last byte of the flow to send.
LastByte == FlowSize + 1

\* Where the packets start that the loop of send_packets sends from highest h
\* on, with everything up to a acknowledged and a window of c: whole packets
\* while they fit, and a last one to the end of the flow.
Starts(h, a, c) ==
  {h + k * Mss : k \in {n \in 0..FlowSize :
    h + n * Mss < FlowSize /\ a + c >= h + (n + 1) * Mss}}

\* The size of the packet after byte h.
SizeAt(h) == IF h + Mss <= FlowSize THEN Mss ELSE FlowSize - h + 1

\* Mutant: the timer is not set for data.
SendsUntimed(s, h, a, cw, est, on, more) ==
  IF ~est
  THEN /\ highestSent' = 1 /\ timer' = TRUE
       /\ net' = net (+) more (+) One([seq |-> 1, size |-> 1])
  ELSE LET starts == Starts(h, a, cw[s]) IN
       /\ net' = net (+) more (+) SetToBag({[seq |-> q + 1, size |-> SizeAt(q)] :
                                          q \in starts})
       /\ highestSent' = IF starts = {} THEN h
                         ELSE LET q == CHOOSE q \in starts : \A r \in starts : r <= q
                              IN q + SizeAt(q)
       /\ timer' = on

\* send_packets, in superslice s, with the windows cw: a SYN until one is
\* acknowledged, then what the window of s allows.  on is the timer so far,
\* more a bag of packets sent just before.
Sends(s, h, a, cw, est, on, more) ==
  IF ~est
  THEN /\ highestSent' = 1 /\ timer' = TRUE
       /\ net' = net (+) more (+) One([seq |-> 1, size |-> 1])
  ELSE LET starts == Starts(h, a, cw[s]) IN
       /\ net' = net (+) more
                 (+) SetToBag({[seq |-> q + 1, size |-> SizeAt(q)] :
                               q \in starts})
       /\ highestSent' = IF starts = {} THEN h
                         ELSE LET q == CHOOSE q \in starts : \A r \in starts : r <= q
                              IN q + SizeAt(q)
       /\ timer' = (on \/ starts # {})

\* Mutant: the packet that ends with the last byte acknowledged.
AgainLast(a) == [seq |-> a, size |-> Least(FlowSize, Mss)]

\* retransmit_packet: the packet above a, as long as any.
Again(a) == [seq |-> a + 1, size |-> Least(FlowSize, Mss)]

-----------------------------------------------------------------------------
(* The source *)

\* inflate_window with everything up to a acknowledged: slow start by what
\* was acknowledged, then by Mss per window.
Inflated(c, t, h, a) ==
  LET newly == Least(a + c - h, Mss)
      c2 == IF c < t THEN c + Least(t - c, newly) ELSE c + (newly * Mss) \div c
  IN IF bypass \/ newly < 0 THEN c ELSE Least(c2, MaxCwnd)

\* A new ack, n, outside of recovery.
NewAck(n, w, s, cw, ss, h, on) ==
  /\ ~inRecovery
  /\ lastAcked' = n /\ dupacks' = 0
  /\ cwnd' = [cw EXCEPT ![w] = Least(Inflated(cw[w], ss[w], h, n), MaxCwnd)]
  /\ ssthresh' = ss
  /\ Sends(s, h, n, cwnd', established', on, EmptyBag)
  /\ UNCHANGED <<recoverq, inRecovery>>

\* Mutant: recovery goes on.
FullAckStays(n, w, s, cw, ss, h, on) ==
  /\ inRecovery /\ n >= recoverq
  /\ lastAcked' = n /\ dupacks' = 0
  /\ cwnd' = [cw EXCEPT ![w] = Least(ss[w], h - n + Mss)]
  /\ ssthresh' = ss
  /\ Sends(s, h, n, cwnd', established', on, EmptyBag)
  /\ UNCHANGED <<recoverq, inRecovery>>

\* The ack that ends recovery: it covers all that was sent before the loss.
FullAck(n, w, s, cw, ss, h, on) ==
  /\ inRecovery /\ n >= recoverq
  /\ lastAcked' = n /\ dupacks' = 0 /\ inRecovery' = FALSE
  /\ cwnd' = [cw EXCEPT ![w] = Least(ss[w], h - n + Mss)]
  /\ ssthresh' = ss
  /\ Sends(s, h, n, cwnd', established', on, EmptyBag)
  /\ UNCHANGED recoverq

\* An ack in recovery that shows another hole: deflate by what it covers and
\* send the next packet again.
PartialAck(n, w, s, cw, ss, h, on) ==
  /\ inRecovery /\ n < recoverq
  /\ lastAcked' = n
  /\ cwnd' = [cw EXCEPT ![w] = Most(cw[w] - (n - lastAcked), 0) + Mss]
  /\ ssthresh' = ss
  /\ Sends(s, h, n, cwnd', established', TRUE, One(Again(n)))
  /\ UNCHANGED <<dupacks, recoverq, inRecovery>>

\* A duplicate ack in recovery: a packet has left the network.
DupInRecovery(w, s, cw, ss) ==
  /\ inRecovery
  /\ cwnd' = [cw EXCEPT ![w] = Least(cw[w] + Mss, MaxCwnd)]
  /\ ssthresh' = ss
  /\ Sends(s, highestSent, lastAcked, cwnd', established', timer, EmptyBag)
  /\ UNCHANGED <<lastAcked, dupacks, recoverq, inRecovery>>

\* A duplicate ack that is not the third.
DupAck(s, cw, ss) ==
  /\ ~inRecovery /\ dupacks # 2
  /\ dupacks' = Least(dupacks + 1, 4)   \* past 3 it only grows
  /\ cwnd' = cw /\ ssthresh' = ss
  /\ Sends(s, highestSent, lastAcked, cw, established', timer, EmptyBag)
  /\ UNCHANGED <<lastAcked, recoverq, inRecovery>>

\* The third, before all of an earlier loss is recovered (RFC 3782), or with
\* a selective ack whose data is not recorded to have left the host in the
\* superslice of the missing packet (TDTCP_SACK; any may): counted only.
ThirdIgnored(cw, ss) ==
  /\ ~inRecovery /\ dupacks = 2
  /\ dupacks' = 3
  /\ cwnd' = cw /\ ssthresh' = ss
  /\ UNCHANGED <<lastAcked, recoverq, inRecovery, highestSent, timer, net>>

\* The threshold that deflate_window leaves for a window of c.
Deflated(c) == Most(c \div 2, 2 * Mss)

\* The third that starts recovery (with the deflate_window of TcpSrc, whatever
\* the class of the source).
StartRecovery(w, cw, ss) ==
  /\ ~inRecovery /\ dupacks = 2 /\ lastAcked >= recoverq
  /\ dupacks' = 3 /\ inRecovery' = TRUE /\ recoverq' = highestSent
  /\ ssthresh' = [ss EXCEPT ![w] = Deflated(cw[w])]
  /\ cwnd' = [cw EXCEPT ![w] = ssthresh'[w] + 3 * Mss]
  /\ net' = net (+) One(Again(lastAcked))
  /\ timer' = TRUE
  /\ UNCHANGED <<lastAcked, highestSent>>

\* Mutant: as soon as the last packet may be under way.
AllAckedEarly(no) == no + Mss >= FlowSize

\* Whether an ack covers the flow (of one with a SYN: all but its last byte).
AllAcked(no) == no >= FlowSize

\* TcpSrc::receivePacket of an ack for a packet that left in superslice w, in
\* superslice s, with the windows cw and thresholds ss.  The whole flow
\* acknowledged ends it and clears the windows; acks after that, and old ones,
\* are ignored.
Acknowledged(no, w, s, cw, ss) ==
  LET new == no > lastAcked
      done == new /\ no >= highestSent
      h == IF done THEN no ELSE highestSent
  IN /\ acks' = acks (-) One(no)
     /\ IF finished \/ no < lastAcked
        THEN /\ cwnd' = cw /\ ssthresh' = ss
             /\ UNCHANGED <<established, highestSent, lastAcked, dupacks,
                            recoverq, inRecovery, timer, finished, net>>
        ELSE /\ established' = (established \/ no = 1)
             /\ finished' = AllAcked(no)
             /\ \/ /\ finished'
                   /\ cwnd' = cw /\ ssthresh' = ss
                   /\ UNCHANGED <<highestSent, lastAcked, dupacks, recoverq,
                                  inRecovery, timer, net>>
                \/ /\ ~finished' /\ new
                   /\ \/ NewAck(no, w, s, cw, ss, h, ~done)
                      \/ FullAck(no, w, s, cw, ss, h, ~done)
                      \/ PartialAck(no, w, s, cw, ss, h, ~done)
                \/ /\ ~finished' /\ ~new
                   /\ \/ DupInRecovery(w, s, cw, ss)
                      \/ DupAck(s, cw, ss)
                      \/ ThirdIgnored(cw, ss)
                      \/ StartRecovery(w, cw, ss)
     /\ UNCHANGED <<bypass, rtxPending, sink, faults>>

\* rtx_timer_hook, called by the scanner for every flow.  It resets the timer
\* and schedules the event that times out.
RtxTimerHook ==
  /\ timer /\ ~finished /\ highestSent > 0 /\ ~rtxPending
  /\ rtxPending' = TRUE
  /\ \/ net = EmptyBag /\ acks = EmptyBag /\ UNCHANGED faults
     \/ /\ net # EmptyBag \/ acks # EmptyBag
        /\ faults < MaxFaults /\ faults' = faults + 1
  /\ UNCHANGED <<established, bypass, highestSent, lastAcked, cwnd, ssthresh,
                 dupacks, recoverq, inRecovery, timer, finished, sink, net, acks>>

\* The window of superslice w when a timeout deflates it.
TimedOutWindow(w) ==
  IF inRecovery THEN Least(ssthresh[w], highestSent - lastAcked + Mss) ELSE cwnd[w]

\* doNextEvent with _rtx_timeout_pending, in superslice w: back to one packet,
\* sent again.  It does not ask whether the flow has finished since; then it
\* works with the contents the cleared windows had.  deflated is what the
\* deflate_window of the class of the source leaves in the threshold.
TimesOut(w, deflated) ==
  /\ rtxPending /\ rtxPending' = FALSE
  /\ ssthresh' = [ssthresh EXCEPT ![w] = deflated]
  /\ cwnd' = [cwnd EXCEPT ![w] = Mss]
  /\ inRecovery' = FALSE /\ recoverq' = highestSent /\ dupacks' = 0
  /\ highestSent' = IF established THEN lastAcked + Mss ELSE highestSent
  /\ IF established
     THEN net' = net (+) One(Again(lastAcked))
     ELSE net' = net (+) One([seq |-> 1, size |-> 1])
  /\ timer' = (timer \/ established)
  /\ UNCHANGED <<established, bypass, lastAcked, finished, sink, acks, faults>>

-----------------------------------------------------------------------------
(* The sink *)

\* Mutant: every block is taken, whatever hole lies before it.
JoinedAny(cum, blocks, n) == [cum |-> cum + Len(blocks) * n, blocks |-> <<>>]

\* The cumulative ack after the loop that takes every received block from the
\* front that continues it: each adds the size of the packet that has just
\* come, n, not its own.
Joined(cum, blocks, n) ==
  LET run == CHOOSE k \in 0..Len(blocks) :
        /\ \A i \in 1..k : blocks[i] = cum + 1 + (i - 1) * n
        /\ k < Len(blocks) => blocks[k + 1] # cum + 1 + k * n
  IN [cum |-> cum + run * n, blocks |-> SubSeq(blocks, run + 1, Len(blocks))]

\* A block above a hole is put in its place, once.
WithBlock(blocks, q) ==
  IF q \in Range(blocks) THEN blocks
  ELSE LET k == Cardinality({i \in 1..Len(blocks) : blocks[i] < q})
       IN SubSeq(blocks, 1, k) \o <<q>> \o SubSeq(blocks, k + 1, Len(blocks))

\* TcpSink::receivePacket and send_ack: every packet is answered with the
\* cumulative ack.  The superslice the packet left in (a packet sent again has
\* that of the packet its memory was last used for), the congestion mark and
\* the selective acks are chosen where the ack is received.
ReceiveData(p) ==
  LET n == p.size
      j == Joined(p.seq + n - 1, received, n)
  IN /\ BagIn(p, net)
     /\ net' = net (-) One(p)
     /\ arrived' = arrived \cup p.seq..(p.seq + n - 1)
     /\ CASE p.seq = cumAck + 1 -> cumAck' = j.cum /\ received' = j.blocks
          [] p.seq <= cumAck    -> UNCHANGED <<cumAck, received>>
          [] p.seq > cumAck + 1 -> /\ received' = WithBlock(received, p.seq)
                                   /\ UNCHANGED cumAck
     /\ acks' = acks (+) One(cumAck')
     /\ UNCHANGED <<source, faults>>

Lose ==
  /\ faults < MaxFaults /\ faults' = faults + 1
  /\ \/ \E p \in BagToSet(net) : net' = net (-) One(p) /\ UNCHANGED acks
     \/ \E a \in BagToSet(acks) : acks' = acks (-) One(a) /\ UNCHANGED net
  /\ UNCHANGED <<source, sink>>

=============================================================================
