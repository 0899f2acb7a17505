-------------------------------- MODULE RLB ---------------------------------
(***************************************************************************)
(* RotorLB at one host: the RlbModule, the priority queue of the host's    *)
(* NIC that pulls packets from it, and one bulk flow that starts here.     *)
(*                                                                         *)
(* In every slot the matching of one rotor switch changes; the master      *)
(* (RlbMaster.tla) says how many packets of which queue may go, and the    *)
(* module commits them, spaced by dummies, to the commit queue of that     *)
(* switch.  When the switch is about to move on, what is left goes back.   *)
(* The NIC serves RLB below all other traffic.  As long as the module has  *)
(* committed packets a dummy waits in the NIC for them (the doorbell), and *)
(* each time it is served the NIC pulls a packet from the next commit      *)
(* queue.  A full packet of other traffic takes the place of an RLB        *)
(* packet: the module then skips a dummy, or takes a packet back.          *)
(*                                                                         *)
(* RLB keeps no order, so a queue of packets for one destination is their  *)
(* number, and there are two of them: "local" for the packets of the flow, *)
(* "nonlocal" for those of other hosts that take their second hop here.    *)
(* The service of a packet takes any time, and so does a slot.             *)
(***************************************************************************)
EXTENDS Integers, Sequences, FiniteSets, SequencesExt, PacketLists

CONSTANTS
  Ncommit,     \* _Ncommit_queues
  MaxPkts,     \* _max_pkts
  FlowPackets, \* packets of the flow
  MaxOther,    \* bound: packets of other hosts, in all
  MaxWaiting,  \* bound: packets in each of the NIC's other queues
  MaxEvents    \* bound: pending service events of the NIC

ASSUME RLBAssumption ==
  /\ Ncommit \in Nat \ {0, 1}
  /\ {MaxPkts, FlowPackets, MaxEvents} \subseteq Nat \ {0}
  /\ {MaxOther, MaxWaiting} \subseteq Nat

Keys == {"local", "nonlocal"}
Switches == 0..(Ncommit - 1)
Next1(q) == (q + 1) % Ncommit

VARIABLES
  m,           \* the module: queues (_rlb_queue_sizes), commits
               \* (_commit_queues), have, pull, push, skip, and in the NIC
               \* the dummies of its RLB queue, _queuesize[Q_RLB]
  hist,        \* _commit_queue_hist
  slot,        \* _current_commit_queue of the last matching
  expiring,    \* commit queues that have a clean_commit event
  cleaned,     \* that of this slot has fired, or there is none
  waiting,     \* packets in the NIC's queues Q_HI and Q_LO
  servicing,   \* _servicing
  events,      \* pending events of the NIC
  odd,         \* _bytes_sent in units of half a full packet, modulo 2
  owned,       \* packets the host has to send, per queue (no code reads it)
  network,     \* its packets on the way
  others,      \* packets of other hosts that have come so far
  arrived,     \* _pkts_received of the flow's sink
  fcts         \* number of flow completion times reported

modVars == <<m, hist, slot, expiring, cleaned, owned>>
nicVars == <<waiting, servicing, events, odd>>
flowVars == <<network, others, arrived, fcts>>
vars == <<modVars, nicVars, flowVars>>

Init ==
  /\ m = [queues |-> [k \in Keys |-> 0], commits |-> [q \in Switches |-> <<>>],
          have |-> FALSE, pull |-> 0, push |-> 0, skip |-> 0, dummies |-> 0]
  /\ hist = <<>> /\ slot = Ncommit - 1 /\ expiring = {} /\ cleaned = TRUE
  /\ waiting = [p \in {"hi", "lo"} |-> 0] /\ servicing = "none" /\ events = 0 /\ odd = 0
  /\ owned = [k \in Keys |-> 0] /\ network = [k \in Keys |-> 0]
  /\ others = 0 /\ arrived = 0 /\ fcts = 0

-----------------------------------------------------------------------------
(* RlbModule *)

IsReal(q) == q # <<>> /\ Head(q) \in Keys

\* The index before push: meant to wrap around, it becomes 1.
Before(push) == IF push = 0 THEN 1 % Ncommit ELSE push - 1
BeforeSteps(push, n) == FoldLeft(LAMBDA p, i : Before(p), push, [i \in 1..n |-> i])

\* check_all_empty, which rings the doorbell of the NIC: its dummy is removed.
CheckAllEmpty(s) ==
  IF \A q \in Switches : s.commits[q] = <<>>
  THEN [s EXCEPT !.have = FALSE, !.dummies = @ - 1]
  ELSE s

\* A packet returns to the front of its queue, a dummy is freed.
\* Mutant: every packet returns to the local queue.
TakeBackLocal(queues, p) == IF p \in Keys THEN [queues EXCEPT !["local"] = @ + 1] ELSE queues

TakeBack(queues, p) == IF p \in Keys THEN [queues EXCEPT ![p] = @ + 1] ELSE queues

PushOne(s) ==
  LET q == s.commits[s.push] IN
  [s EXCEPT !.queues = IF q = <<>> THEN @ ELSE TakeBack(@, Last(q)),
            !.commits[s.push] = IF q = <<>> THEN @ ELSE Front(q),
            !.skip = @ - 1,
            !.push = Before(@)]

CommitPush(s, n) == CheckAllEmpty(FoldLeft(LAMBDA t, i : PushOne(t), s, [i \in 1..n |-> i]))

\* A full packet has taken the place of an RLB packet.
NICPush(s) ==
  IF ~ s.have THEN s
  ELSE IF s.skip + 1 > Ncommit - 1
  THEN CommitPush([s EXCEPT !.skip = @ + 1], s.skip + 1 - (Ncommit - 1))
  ELSE [s EXCEPT !.skip = @ + 1]

\* The commit queues NICpull passes over: those without a packet to send, as
\* many as there are skips.
At(s, n) == (s.pull + n) % Ncommit

Passed(s) ==
  CHOOSE n \in 0..s.skip :
    /\ n = s.skip \/ IsReal(s.commits[At(s, n)])
    /\ \A i \in 0..(n - 1) : ~ IsReal(s.commits[At(s, i)])

\* What NICpull returns: a new dummy if the queue is empty.
Pulled(s) ==
  LET q == s.commits[At(s, Passed(s))] IN IF q = <<>> THEN "dummy" ELSE Head(q)

\* The module after NICpull.
\* Mutant: the NIC is not told that nothing is left.
NICPullUntold(s) ==
  LET n == Passed(s) visited == {At(s, i) : i \in 0..n} IN
  [s EXCEPT !.commits = [q \in Switches |-> IF q \in visited /\ @[q] # <<>>
                                            THEN Tail(@[q]) ELSE @[q]],
            !.pull = At(s, n + 1), !.skip = 0]

NICPull(s) ==
  LET n == Passed(s)
      visited == {At(s, i) : i \in 0..n}
      t == CheckAllEmpty(
             [s EXCEPT !.commits = [q \in Switches |-> IF q \in visited /\ @[q] # <<>>
                                                       THEN Tail(@[q]) ELSE @[q]],
                       !.pull = At(s, n + 1),
                       !.push = BeforeSteps(@, n),
                       !.skip = @ - n])
  IN IF ~ t.have THEN [t EXCEPT !.skip = 0]
     ELSE IF t.skip > 0 THEN CommitPush(t, t.skip)
     ELSE t

\* The commit queue for grants n: in every place the sender whose time is the
\* earliest, of those whose time has come and that have packets, or a dummy.
Placed(queues, n, acc, i) ==
  LET due == {k \in Keys : /\ acc.sent[k] < n[k] /\ acc.sent[k] < queues[k]
                           /\ acc.sent[k] * MaxPkts < i * n[k]}
      first == CHOOSE k \in due : \A l \in due :
                 \/ acc.sent[k] * n[l] < acc.sent[l] * n[k]
                 \/ acc.sent[k] * n[l] = acc.sent[l] * n[k] /\ (k = "nonlocal" \/ l = k)
  IN IF due = {}
     THEN [acc EXCEPT !.queue = Append(@, "dummy")]
     ELSE [queue |-> Append(acc.queue, first), sent |-> [acc.sent EXCEPT ![first] = @ + 1]]

Spaced(queues, n) ==
  FoldLeft(LAMBDA acc, i : Placed(queues, n, acc, i),
           [queue |-> <<>>, sent |-> [k \in Keys |-> 0]], [i \in 1..MaxPkts |-> i])

\* enqueue_commit for switch q.
EnqueueCommit(s, q, n) ==
  LET spaced == Spaced(s.queues, n) IN
  [s EXCEPT !.queues = [k \in Keys |-> @[k] - spaced.sent[k]],
            !.commits[q] = @ \o spaced.queue,
            !.have = TRUE,
            !.pull = IF s.have THEN @ ELSE q,
            !.push = IF s.have THEN @ ELSE Before(q),
            !.dummies = IF s.have THEN @ ELSE @ + 1]

\* The module after clean_commit.
OldestQueue == Head(hist)

Cleaned(s) ==
  LET back == FoldLeft(TakeBack, s.queues, s.commits[OldestQueue])
      t == [s EXCEPT !.queues = back, !.commits[OldestQueue] = <<>>]
  IN IF s.have THEN CheckAllEmpty(t) ELSE t

-----------------------------------------------------------------------------
(* PriorityQueue: the NIC *)

QueueSize(dummies, w) == dummies + w["hi"] + w["lo"]

\* beginService.
Chosen(dummies, w) ==
  IF w["hi"] > 0 THEN "hi" ELSE IF w["lo"] > 0 THEN "lo" ELSE "rlb"

BeginIfEmpty(size, dummies, w) ==
  IF size = 0
  THEN servicing' = Chosen(dummies, w) /\ events' = events + 1
  ELSE UNCHANGED <<servicing, events>>

\* The end of completeService.
Continue(dummies, w) ==
  IF QueueSize(dummies, w) > 0
  THEN servicing' = Chosen(dummies, w) /\ UNCHANGED events
  ELSE servicing' = "none" /\ events' = events - 1

\* Other traffic: "hi" packets are half as long as a full one, "lo" are full.
ReceiveOther(p) ==
  /\ waiting[p] < MaxWaiting /\ events < MaxEvents
  /\ waiting' = [waiting EXCEPT ![p] = @ + 1]
  /\ BeginIfEmpty(QueueSize(m.dummies, waiting), m.dummies, waiting')
  /\ UNCHANGED <<modVars, odd, flowVars>>

ServeOther(p) ==
  /\ events > 0 /\ servicing = p /\ waiting[p] > 0
  /\ waiting' = [waiting EXCEPT ![p] = @ - 1]
  /\ odd' = IF p = "hi" THEN 1 - odd ELSE odd
  /\ m' = IF p = "lo" \/ odd = 1 THEN NICPush(m) ELSE m
  /\ Continue(m'.dummies, waiting')
  /\ UNCHANGED <<hist, slot, expiring, cleaned, owned, flowVars>>

ServeRLB ==
  /\ events > 0 /\ servicing = "rlb" /\ m.dummies > 0
  /\ m' = NICPull(m)
  /\ LET p == Pulled(m) IN
       IF p = "dummy" THEN UNCHANGED <<owned, network>>
       ELSE owned' = [owned EXCEPT ![p] = @ - 1] /\ network' = [network EXCEPT ![p] = @ + 1]
  /\ Continue(m'.dummies, waiting)
  /\ UNCHANGED <<hist, slot, expiring, cleaned, waiting, odd, others, arrived, fcts>>

\* The queue in service has been emptied by a doorbell.  Q_NONE indexes past
\* the queues: whatever is read there, nothing is served.
ServeNothing ==
  /\ events > 0
  /\ CASE servicing = "rlb" -> m.dummies = 0
       [] servicing = "none" -> TRUE
       [] OTHER -> waiting[servicing] = 0
  /\ Continue(m.dummies, waiting)
  /\ UNCHANGED <<modVars, waiting, odd, flowVars>>

-----------------------------------------------------------------------------
(* Packets, matchings and their ends *)

Receive(k, n) ==
  /\ m' = [m EXCEPT !.queues[k] = @ + n]
  /\ owned' = [owned EXCEPT ![k] = @ + n]
  /\ UNCHANGED <<hist, slot, expiring, cleaned, nicVars>>

\* RlbSrc::startflow.
StartFlow ==
  /\ owned["local"] + network["local"] + arrived = 0
  /\ Receive("local", FlowPackets)
  /\ UNCHANGED flowVars

\* A packet of another host comes for its second hop.
ReceiveNonlocal ==
  /\ others < MaxOther
  /\ Receive("nonlocal", 1)
  /\ others' = others + 1
  /\ UNCHANGED <<network, arrived, fcts>>

\* A ToR that cannot send a packet in time gives it back.
Returned(k) ==
  /\ network[k] > 0
  /\ network' = [network EXCEPT ![k] = @ - 1]
  /\ Receive(k, 1)
  /\ UNCHANGED <<others, arrived, fcts>>

\* The sink: the flow is complete when its bytes are there.
Deliver(k) ==
  /\ network[k] > 0
  /\ network' = [network EXCEPT ![k] = @ - 1]
  /\ arrived' = IF k = "local" THEN arrived + 1 ELSE arrived
  /\ fcts' = IF k = "local" /\ arrived' >= FlowPackets THEN fcts + 1 ELSE fcts
  /\ UNCHANGED <<modVars, nicVars, others>>

\* A new matching: the master grants n packets, or there is nothing to send.
\* What it grants may be more than there is (see RlbMaster).
NewMatching(n) ==
  /\ cleaned /\ events < MaxEvents
  /\ slot' = Next1(slot)
  /\ cleaned' = (Next1(slot') \notin expiring)
  /\ IF \A k \in Keys : n[k] = 0
     THEN UNCHANGED <<m, hist, expiring, servicing, events>>
     ELSE /\ m' = EnqueueCommit(m, slot', n)
          /\ hist' = Append(hist, slot')
          /\ expiring' = expiring \cup {slot'}
          /\ IF m.have THEN UNCHANGED <<servicing, events>>
             ELSE BeginIfEmpty(QueueSize(m.dummies, waiting), m'.dummies, waiting)
  /\ UNCHANGED <<waiting, odd, owned, flowVars>>

\* The slot of the matching that is N - 1 slots old ends.
CleanCommit ==
  /\ ~ cleaned
  /\ m' = Cleaned(m)
  /\ hist' = Tail(hist)
  /\ expiring' = expiring \ {Next1(slot)}
  /\ cleaned' = TRUE
  /\ UNCHANGED <<slot, owned, nicVars, flowVars>>

Next ==
  \/ \E p \in {"hi", "lo"} : ReceiveOther(p) \/ ServeOther(p)
  \/ ServeRLB
  \/ ServeNothing
  \/ StartFlow
  \/ ReceiveNonlocal
  \/ \E k \in Keys : Returned(k) \/ Deliver(k)
  \/ \E n \in [Keys -> 0..MaxPkts] : NewMatching(n)
  \/ CleanCommit

Spec == Init /\ [][Next]_vars

-----------------------------------------------------------------------------

\* Every variable has the type the code declares for it.
TypeOK ==
  /\ m \in [queues : [Keys -> Nat], commits : [Switches -> Seq(Keys \cup {"dummy"})],
            have : BOOLEAN, pull : Switches, push : Switches, skip : 0..(Ncommit - 1),
            dummies : Nat]
  /\ hist \in Seq(Switches) /\ slot \in Switches /\ expiring \subseteq Switches
  /\ cleaned \in BOOLEAN
  /\ waiting \in [{"hi", "lo"} -> 0..MaxWaiting] /\ servicing \in {"none", "hi", "lo", "rlb"}
  /\ events \in 0..MaxEvents /\ odd \in {0, 1}
  /\ owned \in [Keys -> Nat] /\ network \in [Keys -> Nat]
  /\ others \in 0..MaxOther /\ arrived \in 0..FlowPackets /\ fcts \in {0, 1}

\* The packets of queue k in a commit queue, and in all of them.
Count(k, q) == SumSeq([i \in 1..Len(q) |-> IF q[i] = k THEN 1 ELSE 0])
Committed(k) == SumSeq([i \in 1..Ncommit |-> Count(k, m.commits[i - 1])])

\* Through commits, pulls, pushes and cleaning, a packet the host has to send
\* is in its queue or in one commit queue: none is lost, none is there twice.
NoPacketLost == \A k \in Keys : owned[k] = m.queues[k] + Committed(k)

\* The NIC has a dummy exactly as long as the module has something committed:
\* NICpull never finds _have_packets FALSE, doorbell never an empty queue.
DummyWhileCommitted ==
  /\ m.dummies = IF m.have THEN 1 ELSE 0
  /\ m.have <=> \E q \in Switches : m.commits[q] # <<>>

\* A packet waits in a commit queue only as long as the rotor switch it is for
\* keeps its matching: what clean_commit takes is the queue that expires.
OnlyWhileMatched == \A q \in Switches : m.commits[q] # <<>> => q \in expiring

\* The safety invariant of the module: types, skips within their limit, a dummy
\* as long as something is committed, commits for present matchings only.
Inv == TypeOK /\ DummyWhileCommitted /\ OnlyWhileMatched

=============================================================================
