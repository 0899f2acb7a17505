--------------------------- MODULE CompositeQueue ---------------------------
(***************************************************************************)
(* The queue of an Opera ToR's uplink in a network that runs NDP and RLB:  *)
(* the trimming queue and, below it, a queue of RLB packets.  An RLB       *)
(* packet may only leave on the direct link to its rack; one that finds    *)
(* the rotor moved on is given back to the RLB module that sent it.        *)
(***************************************************************************)
EXTENDS TrimQueue

CONSTANTS
  Racks,      \* racks the uplink is connected to, in turn
  MaxRlb      \* bound: RLB packets in the queue

VARIABLES
  rlb,        \* _enqueued_rlb: the racks the packets go to
  nextToR,    \* the rack the uplink is connected to
  rlbSent,    \* racks for which a packet left last,
  rlbReturned \* and racks of the packets given back with it

vars == <<trimVars, rlb, nextToR, rlbSent, rlbReturned>>
rlbVars == <<rlb, rlbSent, rlbReturned>>

Init ==
  /\ TrimInit /\ rlb = <<>> /\ nextToR \in Racks /\ rlbSent = {} /\ rlbReturned = {}

AllEmpty(l, h, r) == l = <<>> /\ h = 0 /\ r = <<>>

\* beginService: RLB is served if nothing else waits.
Begin(l, h, r) ==
  \/ BeginService(l, h)
  \/ /\ l = <<>> /\ h = 0 /\ r # <<>>
     /\ serv' = "rlb" /\ timed' = 0 /\ UNCHANGED crt

\* beginService after a packet has left, unless the queue is empty.
Continue(l, h, r) ==
  IF AllEmpty(l, h, r)
  THEN serv' = "none" /\ timed' = 0 /\ UNCHANGED crt
  ELSE Begin(l, h, r)

ReceiveData(size) == DataArrives(size) /\ UNCHANGED <<rlbVars, nextToR>>
ReceiveHeader == HeaderArrives /\ UNCHANGED <<rlbVars, nextToR>>

ReceiveRlb(rack) ==
  /\ Len(rlb) < MaxRlb
  /\ rlb' = Append(rlb, rack)
  /\ IF serv = "none" THEN Begin(low, high, rlb') ELSE UNCHANGED <<serv, crt, timed>>
  /\ UNCHANGED <<low, high, passed, nextToR, rlbSent, rlbReturned>>

CompleteNDP ==
  /\ SendLow \/ SendHigh
  /\ Continue(low', high', rlb)
  /\ UNCHANGED <<rlbVars, nextToR>>

\* Packets for other racks are given back until there is one for this rack;
\* there may be none.
Stale ==
  CHOOSE n \in 0..Len(rlb) :
    /\ \A i \in 1..n : rlb[i] # nextToR
    /\ n < Len(rlb) => rlb[n + 1] = nextToR

CompleteRlb ==
  /\ serv = "rlb"
  /\ rlbReturned' = ToSet(SubSeq(rlb, 1, Stale))
  /\ rlbSent' = {rlb[i] : i \in {Stale + 1} \cap DOMAIN rlb}
  /\ rlb' = SubSeq(rlb, Stale + 2, Len(rlb))
  /\ Continue(low, high, rlb')
  /\ UNCHANGED <<low, high, passed, nextToR>>

\* A downlink sends what it has, whichever rack it is for: it is not modelled
\* here.  The rotor moves on at any time.
Reconfigure ==
  /\ nextToR' \in Racks \ {nextToR}
  /\ rlbSent' = {} /\ rlbReturned' = {}
  /\ UNCHANGED <<trimVars, rlb>>

Next ==
  \/ \E size \in DataSizes : ReceiveData(size)
  \/ ReceiveHeader
  \/ \E rack \in Racks : ReceiveRlb(rack)
  \/ CompleteNDP
  \/ CompleteRlb
  \/ Reconfigure

Spec == Init /\ [][Next]_vars

-----------------------------------------------------------------------------

TypeOK ==
  /\ TrimTypeOK /\ rlb \in Seq(Racks) /\ nextToR \in Racks
  /\ rlbSent \subseteq Racks /\ rlbReturned \subseteq Racks

\* There is an event to serve the next packet exactly if there is a packet:
\* no early return of receivePacket leaves the queue waiting for ever.
WorkConserving == serv = "none" <=> AllEmpty(low, high, rlb)

\* An RLB packet never takes a link that leads elsewhere, and none that could
\* leave is given back.
OnlyDirect == rlbSent \subseteq {nextToR} /\ nextToR \notin rlbReturned

\* The safety invariant: types, byte counts within the buffers, a service
\* whenever a packet waits, and no RLB packet on a wrong link.
Inv == TypeOK /\ WorkConserving /\ OnlyDirect

=============================================================================
