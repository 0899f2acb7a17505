------------------------------ MODULE RateTCP -------------------------------
(***************************************************************************)
(* The TCP sources that keep a window of their own: HPCCSrc, which         *)
(* computes it from the stamps of INTQueues, and BoltSrc, which is told by *)
(* BoltQueues to decrease it (an early feedback, SRC) or may increase it;  *)
(* in both simulators.  With an ack each puts its window in place of       *)
(* TcpSrc's, and TcpSrc goes on as ever: it recovers, times out and sends  *)
(* by the window it was given last.                                        *)
(*                                                                         *)
(* HPCC's floating point may give any window within the bounds.  Bolt's    *)
(* window is an unsigned number; NoThreshold, 0xffffffff, is the largest.  *)
(* Only the window of superslice 0 is used.                                *)
(***************************************************************************)
EXTENDS ClosTCP

CONSTANTS
  BoltCwnd,   \* _bdp, the first window of Bolt in Opera
  MaxSrcs     \* bound: early feedback that decreases a window

ASSUME RateAssumption == BoltCwnd \in Mss..MaxCwnd /\ MaxSrcs \in Nat

VARIABLES
  ownCwnd,    \* BoltSrc::_cwnd, which hides TcpSrc::_cwnd
  lastSeqAI,  \* _last_seq_ai
  srcs        \* early feedback so far (no code reads it)

own == <<ownCwnd, lastSeqAI, srcs>>
rateVars == <<vars, dropped, own>>

RateInit == ClosTCPInit /\ ownCwnd = 0 /\ lastSeqAI = 0 /\ srcs = 0

First == CHOOSE s \in Slices : TRUE
Bounded(c) == Most(Least(c, MaxCwnd), Mss)

\* The window c for TcpSrc, and c for its threshold.
With(f, c) == [f EXCEPT ![First] = c]

-----------------------------------------------------------------------------
(* Opera *)

\* startflow of TcpSrc; that of the class has only set its own variables.
RateStarts(c) ==
  /\ highestSent = 0
  /\ cwnd' = [w \in Slices |-> InitCwnd] /\ ssthresh' = [w \in Slices |-> NoThreshold]
  /\ Sends(First, 0, 0, cwnd', established, FALSE, EmptyBag)
  /\ ownCwnd' = c
  /\ UNCHANGED <<established, bypass, lastAcked, dupacks, recoverq, inRecovery, rtxPending,
                 finished, sink, acks, faults, ecn, dropped, lastSeqAI, srcs>>

HPCCStartFlow == RateStarts(0)
BoltStartFlow == RateStarts(BoltCwnd)

\* computeWnd: any window.
HPCCWindows == {Bounded(c) : c \in Mss..MaxCwnd}

HPCCReceiveAck(a) ==
  /\ BagIn(a, acks)
  /\ \/ finished /\ Acknowledged(a, First, First, cwnd, ssthresh)
     \/ ~finished /\ \E c \in HPCCWindows :
          Acknowledged(a, First, First, With(cwnd, c), With(ssthresh, c))
  /\ UNCHANGED <<ecn, dropped, own>>

\* handleAck: one packet more if the queues let it, and one per window.
AddsPerWindow(a) == a >= lastSeqAI
BoltIncreased(a, inc) ==
  Bounded((ownCwnd + (IF inc THEN Mss ELSE 0) + IF AddsPerWindow(a) THEN Mss ELSE 0)
            % (NoThreshold + 1))

BoltReceiveAck(a, inc) ==
  /\ BagIn(a, acks)
  /\ \/ finished /\ UNCHANGED own /\ Acknowledged(a, First, First, cwnd, ssthresh)
     \/ /\ ~finished
        /\ ownCwnd' = BoltIncreased(a, inc)
        /\ lastSeqAI' = IF AddsPerWindow(a) THEN highestSent + 1 ELSE lastSeqAI
        /\ Acknowledged(a, First, First, With(cwnd, ownCwnd'), With(ssthresh, ownCwnd'))
        /\ UNCHANGED srcs
  /\ UNCHANGED <<ecn, dropped>>

\* handleSRC: one packet less, modulo the width of the window, and no bound
\* until the next ack.  (One that comes too early changes nothing.)
HandleSRC ==
  /\ highestSent > 0 /\ ~finished /\ srcs < MaxSrcs /\ srcs' = srcs + 1
  /\ ownCwnd' = (ownCwnd - Mss) % (NoThreshold + 1)
  /\ UNCHANGED <<vars, dropped, lastSeqAI>>

\* A timeout deflates TcpSrc's threshold by the window of Bolt, and by nothing
\* with HPCC, whose threshold hides it; their own windows stay.
HPCCTimeout == TimesOut(First, ssthresh[First]) /\ UNCHANGED <<ecn, dropped, own>>
BoltTimeout == TimesOut(First, Deflated(ownCwnd)) /\ UNCHANGED <<ecn, dropped, own>>

-----------------------------------------------------------------------------
(* The Clos simulator *)

ClosHPCCStartFlow == ClosStartFlow /\ UNCHANGED own
ClosBoltStartFlow == ClosStartFlow /\ ownCwnd' = InitCwnd /\ UNCHANGED <<lastSeqAI, srcs>>

\* What TcpSrc finds: the window c; inflate_window and deflate_window return.
Given(c, t) ==
  [seen |-> Seen, marked |-> Marked, alfa |-> Alfa, past |-> PastCwnd,
   cwnd |-> c, ssthresh |-> t, deflates |-> FALSE]

ClosHPCCWindows == {Bounded(c) : c \in Mss..MaxCwnd}

ClosHPCCReceiveAck(a) ==
  /\ BagIn(a, acks)
  /\ \/ finished /\ ClosAcknowledged(a, Given(Cwnd, Ssthresh))
     \/ ~finished /\ \E c \in ClosHPCCWindows : ClosAcknowledged(a, Given(c, c))
  /\ UNCHANGED own

ClosBoltReceiveAck(a, inc) ==
  /\ BagIn(a, acks)
  /\ \/ finished /\ UNCHANGED own /\ ClosAcknowledged(a, Given(Cwnd, Ssthresh))
     \/ /\ ~finished
        /\ ownCwnd' = BoltIncreased(a, inc)
        /\ lastSeqAI' = IF AddsPerWindow(a) THEN highestSent + 1 ELSE lastSeqAI
        /\ ClosAcknowledged(a, Given(ownCwnd', ownCwnd'))
        /\ UNCHANGED srcs

\* handleSRC: not below 0.
ClosHandleSRC ==
  /\ highestSent > 0 /\ ~finished /\ srcs < MaxSrcs /\ srcs' = srcs + 1
  /\ ownCwnd' = Most(ownCwnd - Mss, 0)
  /\ UNCHANGED <<vars, dropped, lastSeqAI>>

ClosRateTimeout == ClosTimesOut(Ssthresh) /\ UNCHANGED <<ecn, own>>

=============================================================================
