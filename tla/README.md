# TLA+ models of the Flare/Opera simulator

This directory specifies, model-checks and partly proves the packet-level
simulators in `src/`: an extension of htsim for rotor networks (`src/src/opera`,
with the ExpressPass/Flare transport and its competitors), and its sibling for
static networks (`src/src/clos`). File names below are relative to
`src/src/opera/` unless they start with `src/` or `clos/` (`src/src/clos/`).

The simulator is a discrete-event program: one thread, and an event list that
calls one object at a time. What makes it hard is not threads but the order of
events: arrivals, ends of transmissions and timers that share one handler,
slices that change while a packet is in flight, packets that are dropped,
trimmed or returned in one place and counted in another, and transports whose
two ends, and the queues between them, share state.

## 1. Inventory

| Component | State | Operations | Talks to | Hard behaviour | What makes it correct |
|---|---|---|---|---|---|
| Credit queue (`creditqueue.cpp`, and `clos/creditqueue.cpp`) | data FIFO and its bytes, credit FIFO with expiry times, token bucket, what is being sent, one pending event | `receivePacket`, `handleCredit`, `beginService`, `completeService`, `doNextEvent` | event list, pipe, `XPassSrc::setFinished` | two kinds of event in one handler, told apart by the clock | one wake-up, pacing, no loss without a counter, bounded idling |
| NIC credit queue (`NICCreditQueue`) | in addition a ranking of the credits (map, ordered set, slice it was made in) and the labels put on packets | `trackRxCredit`, `eraseRxCredit`, `rebuildRxCreditPriorities`, `selectRxCredit`, `completeService` | topology | three structures that hold the same credits; ranks that age with the slice | the structures agree, shortest first, paths exist |
| Rotor topology (`datacenter/dynexp_topology.cpp`) | slice lengths, adjacency, label-switched paths | slice clock, lookups | everyone | slices of length 0, wrap-around | paths lead to their ToR |
| Graph topology (`datacenter/graph_topology.cpp`) | the tables read from a file | `read_params`, lookups | everyone | a file with one wrong number | what is accepted never leads a packet astray |
| Pipe (`pipe.cpp`) and FIFO queue (`queue.cpp`) | packets in flight, queue | `sendFromPipe`, `sendFromQueue` | topology, next queue, host | the next ToR is looked up on leaving the link, in the slice of that moment | delivered to its host or dropped, counted once |
| ExpressPass/Flare transport (`xpass.cpp`, `clos/xpass.cpp`) | source: what was sent, acked, is to be sent again; sink: cumulative ack, blocks above it, credit loop, rates | `startflow`, `receivePacket` on both sides, `send_packet`, `doNextEvent` | network, NIC queue | reordering, loss, the ackreq in the sequence space, `_finished` written by the queues | a flow completes once, and only when all has arrived; one credit loop; nothing lost for good |
| NDP (`ndp.cpp`, `clos/ndp.cpp`) | source: window, queue to send again, send times, pulls expected; sink: reassembly; pacer: pulls waiting | ACK, NACK, pull, returned packet, timeout, pacer event | each other | headers overtake data, pulls overtake feedback, forced retransmissions | no packet forgotten, the receiver clocks the source, completion |
| Trimming queue (`compositequeue.cpp`, `clos/compositequeue.cpp`) | low, high and RLB queue, whose turn it is | arrival, trimming, return, `beginService`, `completeService` | source, RLB module | a packet is cut behind the one in service; an RLB packet finds its rotor moved on | no starvation, served for the time that was scheduled |
| RotorLB (`rlb.cpp`, `rlbmodule.cpp`, `PriorityQueue` in `queue.cpp`) | per-destination queues, commit queues with three indices, the doorbell in the NIC | commit, pull, push, clean, the master's matching | NIC, master, slices | indices that wrap separately; capacity shared by rounding | every packet in one place; grants fit the links and use them |
| TCP, DCTCP (`tcp.cpp`, `dctcp.cpp`, `clos/`) | windows (per superslice), recovery, timer flags; sink blocks | start, ack, timeout in two steps, data | ECN queue | late timers, a sink that joins blocks by another packet's size | never without a timer, completes, acked bytes have arrived |
| HPCC, Bolt (`hpcc.cpp`, `bolt.cpp`, `clos/`) | a window that hides TcpSrc's | ack, early feedback, timeout | INT and Bolt queues | two windows that disagree; an unsigned window without a lower bound | as for TCP |
| Queues of TCP flows (`ecnqueue.cpp`, `intqueue.cpp`, `boltqueue.cpp`, `queue.cpp`, `clos/`) | packets by priority, tokens | arrival, service, early feedback, marking | sources | feedback enters the queue that sends it | marks, tokens from unused capacity only |
| Hop-by-hop backpressure (`hbh.cpp`, `hbhqueue.cpp`) | counts per rack and port, who waits for whom | poll, extract, service, return | neighbouring queues | counts made in one queue and undone in another; three kinds of loss; queues that wait for each other | counts match, limits hold, nothing lost, no deadlock |
| Static networks (`clos/datacenter/*_topology.cpp`) | links, tables of routes | `init_network`, `get_paths`, `Packet::bounce` | packets | index arithmetic; forward and reverse routes that must mirror each other | routes use links that exist, a returned packet comes home |
| Event list (`eventlist.cpp`) | multimap of time to source | `sourceIsPending`, `doNextEvent` | everyone | ties, end time | time order, each event once |
| Loggers, parsers, drivers, scripts | - | - | - | none | - |

`PROJECT.json` lists every component with what is modelled of it, and every
hazard with the properties aimed at it.

## 2. Modules

    Slices ------------------.
    CreditLink --+-- CreditQueue
                 |        '-- ClosCreditQueue - MCCreditQueue ---.
                 '-- NICCreditQueue - MCNICCreditQueue ----------+- CreditQueueProofs*
    FlowTransfer <-- refined by XPass, NDP, TCP, each in both simulators
    XPass ------- ClosXPass --------- MCXPass ------- XPassProofs*
    NDP --------- ClosNDP ----------- MCNDP --------- NDPProofs*
    TCP -- DCTCP -- ClosTCP -- RateTCP -- MCDCTCP --- DCTCPProofs*
    TrimQueue --- CompositeQueue --.
    SignalQueue -------------------+- MCQueues ---.
    HbH ------------------------------ MCHbH      +-- QueueProofs*
     '--------------------------------------------'
    PacketLists (used by TrimQueue, SignalQueue, NICCreditQueue, GraphTopology,
        NDP, RLB, HbH, MCCreditQueue)
    PacketListFacts* (lemmas the proofs share)
    RLB, RlbMaster ---------------------------------- RLBProofs*
    Fabric, GraphTopology ----------+- FabricProofs*
                                    |
    FatTree -- OtherTrees -- ServerNetworks -- SourceRouted -- MCFabric

(* holds proofs, checked by TLAPS.)

The two simulators are sibling copies. The module of a Clos component extends
that of Opera, and holds the handlers that differ; one run checks
both (a variable `clos`, fixed by the initial state, says which one a behaviour
belongs to), so that one property speaks of both copies.

**Credit queues.**
- **CreditLink** is what the credit queues share: the variables of class
  `CreditQueue`, the token bucket (`Tokens`, `TokenTime`:
  `updateAvailCredit`), the four ways a service can end up (`SendCredit`,
  `SendData`, `AwaitToken`, `NothingToSend`) and the ways an arrival is refused.
  Time is counted in byte times. Events carry a label (`tx`, `timer`) that only
  properties read; a second event like a pending one is kept apart (`copy`),
  since the event list is a multimap.
- **CreditQueue** adds FIFO credits. `ReceiveCredit` and `ReceiveData` are
  `receivePacket`, `TxDone` and `CreditTimer` the two branches of
  `doNextEvent`, `CompleteService` and `BeginService` the functions of these
  names; `next_cred`'s dropping of expired credits is part of `BeginService`.
- **ClosCreditQueue**: the copy without expiry and shaping, with its own order
  of tests in `credit_ready`. One module stands for switch and host: the NIC
  there only adds timestamps (clos/creditqueue.cpp:212-245).
- **NICCreditQueue** adds the ranking with `-rxhopprio` and the labels that
  `completeService` puts on packets. The random path is a choice. **Slices** is
  the slice clock.

**Transports.** Each is one flow, with source, sink and the network between
them; the network reorders, and loses what a queue of that network may lose.
- **XPass**, **ClosXPass**: it drops credits and control packets silently,
  unscheduled packets silently or with `setFinished`, and other data with
  `setFinished`, as the queues do. Rates, jitter and the tentative flag decide
  only when credits go: any time. In the Clos copy every packet is full size and
  nothing is sent again, so a flow whose data is lost (`dataLost`) never ends;
  its properties say so.
- **NDP**, **ClosNDP**: `Timeout` is one entry of the scanner, `ReceiveAck`,
  `ReceiveNack`, `ReceivePull`, `ReceiveBounced` are the source's handlers,
  `ReceiveHeader` and `ReceiveData` the sink's, `PacerEvent` the pull pacer. In
  the Clos copy, the history of feedback that makes a path bad is kept; the
  choice among the good paths is free.
- **TCP** is `TcpSrc` and `TcpSink`: one operator per branch of `receivePacket`,
  the timer in the two steps the code has (`RtxTimerHook` schedules an event,
  `TimesOut` acts). **DCTCP** adds the start (twice: two SYNs), the cuts and its
  own `deflate_window`; **ClosTCP** the single window, the oracle of dropped
  packets and the fixed packet size. **RateTCP** adds the windows of HPCC and
  Bolt: `HandleSRC` is an early feedback, `HPCCReceiveAck` and `BoltReceiveAck`
  replace `TcpSrc`'s window and go on with its handler.
- **FlowTransfer** is the promise of a transport: an outcome is reported once,
  `delivered` only when every byte has arrived. XPass, NDP and TCP refine it
  (`ImplementsTransfer`, `EachImplementsTransfer`).
- **HbH** is the source, the sink and all queues of the network: the calls of one
  event run through several queues, so that the queues are one record and each
  function is an operator from a record to the next. The loops of the code are
  folds of an operator for one turn (`PollOne`, `PollFor`, `TrySendLost`). A
  packet is lost, and returned to its source (`AddToLost`), in three places: on a
  link that is down (`PipeDelivers`), at a full queue or one whose link is down
  (`Receive`), and at the downlink of another rack (`SendFromQueue`, after
  `Queue::sendFromQueue`). The last happens to a packet that waited at an uplink
  while the rotor turned, and was pulled by the rack it leads to then.

**Queues.**
- **TrimQueue** is the trimming queue of the Clos simulator, **CompositeQueue**
  adds Opera's RLB queue below it and the return of RLB packets to their module.
- **SignalQueue** has the plain `Queue`, `ECNQueue`, `INTQueue`, `BoltQueue` of
  both simulators and the Clos `PriorityQueue` (the NIC), with one action for
  the arrival and one for the end of a service of each class. `BoltReceives`
  does in order what the code does: size check, supply, early feedback (possibly
  into this queue), tokens, enqueue.
- **PacketLists**: the bytes of a list of packets, and what is left of a list
  when some leave it, as recursive functions that can be reasoned about.
- **RLB** is the `RlbModule` of a host, its NIC with the doorbell, and a flow;
  **RlbMaster** the computation of a matching for one pair of racks, step by
  step (a rack sends to one rack and receives from one, so that is all of it).

**Networks.**
- **Fabric** is one packet on its way through NIC, ToR queues and links of a
  network, while slices change at any point. It counts what the code
  counts for its flow. `Networks` are the topologies it may run on, rotor or
  static; `network` is fixed by the initial state. That the paths of a slice lead
  where they should (`IsNetwork`) is an assumption on the topology file of a
  rotor network, which the code does not check. **GraphTopology** is the reader of
  graph files, all its checks and the tables it fills (`NetworkOf`): one of
  Fabric's networks, with one slice, and there the reader's checks do show it.
- **FatTree**, **OtherTrees**, **ServerNetworks** are the links built and the
  route tables computed by ten topologies of the Clos simulator, with the
  literal numbers of the code (which the classes have as literals or macros);
  **SourceRouted** is the walk of a packet along its route, and its return.

Definitions called "Mutant" are plausible bugs. They are never part of a
specification; each is put in the place of the definition that follows it to
see that a property would notice.

## 3. Runs

| Run | Instance and bounds | Shows |
|---|---|---|
| `credit_queue` | 4 credits and 2 other packets of sizes 2 and 3 arrive in any order until time 9; spacing 4, bucket 2, buffer 5 bytes (two packets of 3 do not fit), Aeolus threshold 4, 3 credits at most, lifetime 7; both simulators. 1.42M states | events, pacing, expiry and buffer of the ToR queue |
| `nic_queue` | 3 credits and a packet of size 3 to a destination 1 to 3 hops away or in the rack, until time 6; slices of 3, 0 and 4; lifetime 4, so credits expire in the queue and across a slice change. 115K states, with fairness | the ranking, the stamped paths, and that the queue drains |
| `xpass` | flows of 1, 3, 4, 6, 7 and 9 bytes with packets of 2 and a window of 4: shorter than a packet, one window, window and more, with a short last packet; 2 credits in the network at a time; both simulators. 27.7K states, with fairness | reassembly, retransmission, one credit loop, the refinement, completion |
| `ndp` | 3 packets, window 2, 2 faults (trimmed, returned or lost packets), a history of 12; both simulators. 269K states, with fairness | no packet forgotten, self-clocking, the refinement, completion |
| `dctcp` | 10 bytes in packets of 3, first window 6, largest 9; Bolt's window is a number modulo 19 that starts at 6 and may be decreased 3 times, so that it wraps; 2 faults (losses or early timeouts), 1 with HPCC and Bolt; one superslice; with and without a SYN (HPCC with, Bolt without, as in the drivers); both simulators. 627K states, with fairness | timer, recovery, sink, the refinement, completion |
| `composite` | trimming queue: 6 bytes per queue, packets of 2 and 3, headers of 1, shares 2:3, two racks, two RLB packets. Queues of TCP: buffer 6, acks of 1, threshold 3, nine classes. For ever. 329K states | service, starvation, timing, congestion signals, tokens |
| `rlb` | 3 commit queues, grants up to 2 packets, 1 packet of the flow, 1 of another host, 1 waiting in each other queue of the NIC. 1.18M states | every packet in one place; the doorbell |
| `rlb_master` | two racks of two hosts, every combination of queue lengths out of 2 or 3 values each, link of 5 packets, 5 rounds | grants fit, and leave nothing over |
| `hbh` | three racks; a rotor that joins A to B, turns, joins A to C and turns again, one that always joins B and C, one that joins A and C while the first turns (so a path of two hops in one slice of four); two flows to C of 2 and 1 packets, limits D = 1, P = 0, queues of 2 packets, 3 slice changes. 35K states | counts, limits, no loss (all three kinds happen), no deadlock |
| `fabric` | rotor network: 4 ToRs, 2 hosts and 2 uplinks each, 3 slices, one with a rotor that is down; paths of 1 to 3 hops; credits, data and control packets; with and without jitter. Graph files: a ring of 4 ToRs and every file that differs from it in one line and is accepted. Static networks: all hosts of the 1:1 tree with K = 4, and of the larger ones hosts on both sides of every boundary of racks and pods; BCube with 3 ports and 3 levels, CamCube 5x5x5. 184K states | credits are accounted for once, waste is the links used, delivery, the countdown of hops; the route tables |
| `xpass_ackreq_byte`, `ndp_returned` | see section 6 | disagreements of the code with its comments |

Why these bounds are enough. The credit queue's bucket holds 2 tokens, so 4
credits drain it, wait for a token and use it; a lifetime of 7 lets credits
expire behind others; two data packets are what it takes for one to be in
service and one to wait. `ProbHops` has a hop count that is always admitted and
one that is not always. The NIC queue sees a credit ranked in one slice, in
service when the slice changes, and ranked anew. In `xpass` up to four blocks
wait above a hole; the size `window + 1` is left out: it is finding 1. NDP needs
three packets for one to be beyond the window, and two faults for one packet to
be trimmed and its header returned. TCP needs four packets of
which the last is short: three duplicate acks, a recovery, a partial ack, a
timeout in the middle of it. A trimming queue with two packets of 3 is full, and
shares of 2:3 take five packets to come round. The Bolt queue sees every token
spent, debt, and feedback into itself. In `hbh` the rotor that turns from B to C
is what takes a packet to a wrong rack: one held at A for B is pulled by C. Three
racks are the fewest for that and for an indirect path; D = 1 lets two packets
for C meet in a queue of two, which is then full for the next, and P = 0 is the
tightest limit per port. In `fabric` every event can happen in any slice, so the number
of slices and ToRs only has to cover each kind of mismatch: right ToR, wrong
ToR, link down. The static networks are the real ones, but for K and the size
of BCube.

Named bounds in the specifications: `ArrivalWindow`, `MaxCredits`, `MaxData`
(CreditLink), `MaxCredits` (XPass), `MaxFaults` (NDP, TCP), `HistLen` is the
code's, `MaxSrcs` (RateTCP), `MaxRlb` (CompositeQueue), `MaxPru`, `SinceBound`
(SignalQueue), `MaxOther`, `MaxWaiting`, `MaxEvents` (RLB), `MaxChanges` (HbH).
The arrival bounds only end a run; after `ArrivalWindow` a queue goes on until
its event list is empty (`Quiet`). In XPass a credit sent into a network that
holds `MaxCredits` is lost, as any credit may be.

Deadlock is checked but for two runs: in `hbh` a network whose slice has changed
may really stop with packets left (`NoneStuck` says when it may not), and
`rlb_master` is a computation that ends. Elsewhere `Quiet` and `Over` (the event
list is empty, the flow or packet is at its end) are the only ways to stop.

Several properties are conjunctions (`Inv`, `NICInv`, `EachInv`,
`Accounting`, `OnItsWay`, `WithinBounds`): the named parts are defined
and explained separately, one of them being the type invariant.

### Properties worth a second look

- `OneWakeUp`: the source warns of "double events". A queue that holds
  anything has exactly one event pending, an empty one none. `EventMeaning`: the
  timer is never mistaken for the end of a transmission, though the handler
  compares clock values only.
- `CreditPace`, `BurstPace` (in `WithinBounds`): the long-term rate of credits,
  and the size of a burst. `IdleOnlyForToken`, `DataNotStarved`: data that
  arrives while the queue waits for a token does not start the link. The wait
  is bounded.
- `NICInv` (with `OrderMatchesQueue`, `RanksOfOneSlice`), `ShortestFirst`,
  `RouteExists`: the ranking across drops, transmissions and slice changes.
- `Inv` of XPass (`BlocksAboveHole`, `RetransmitsWindow`), `NothingLost`: the
  merging relies on retransmissions having the bounds of the packets of the
  window.
- `NeverForgotten` (NDP): a packet the sink misses is under way, queued, or has a
  timer. It allows for one loss: a packet repeated on a timeout has no timer.
  `SelfClocked` (in `Inv`): never more in the network than the receiver asked
  for. `OnePlace` (in `Inv`): a packet that is queued to be sent again is not also
  under way or timed, or it would be sent twice for two pulls. It takes the
  timeout to be longer than a round trip, as `Timeout` does.
- `Inv` of TCP (`TimerWhileRunning`, `RoomForAPacket`): `receivePacket` turns the
  timer off with an ack of everything and relies on sending something next; a
  window below a packet would leave the flow without either. `AckedArrived`: the
  sink joins blocks by the size of whatever packet came last.
- `EachInv`: `DebtIsBacklog` says what the supply token of a BoltQueue is for:
  windows grow only into capacity that was left unused. `Warned`: no data waits
  behind more than the threshold without its source being told. `Overrun`: the
  queue exceeds its buffer by one ack at most, that of its own feedback.
- `EachNoStarvation`, `EachServedAsTimed`: `_crt` is not reset while one of the
  queues is empty, and a packet may be cut behind the one the pending event was
  timed for.
- `NoPacketLost`, `DummyWhileCommitted` (RLB): three indices that wrap separately,
  and a doorbell that must be in the NIC exactly while something is committed.
- `LimitsHold`, `CountsMatch`, `NoneStuck` (HbH): a packet is counted by
  the queue that polls for it and uncounted by another's service, loss or
  overflow, each working out the port again. `NothingLost`: three actors lose
  packets and each must return it once; the downlink of another rack does so in
  the midst of its `completeService`, and must put none on the link to its host.
- `Accounting`: statements of the documents under
  `src/run/ring_credit_distance` and `src/run/multibottleneck_credit_order`.
  `OnItsWay`: the next ToR is looked up in the slice of the moment, so what is
  lost must be lost to a change of slice (`StableSliceDelivers`), and to nothing
  in a static network (`StaticKeepsAll`).
  `RoutesSound`: the route tables agree with the links, are what the network is
  made for (all the shortest ways, or disjoint ones), and a packet that is turned
  back anywhere comes home.

### Fairness

Weak fairness of the events a component has pending: `EventList::doNextEvent`
runs the next event as long as there is one, and each event is the first of the
list at some time. Arrivals, losses, trimming, early feedback and slice changes
are not fair.

- `nic_queue` (`NICFairSpec`): the queue's own events and time.
- `xpass` (`MCFairSpec`): the flow starts; a due credit event runs; data and the
  control packet, when they stay in the network, are delivered; and of the
  credits sent for ever, some arrive (strong fairness: each may be lost). The
  queue at the sender's NIC admits credits again as soon as it has sent some
  (`Drains`). Losing a control packet is allowed, and then the flow may hang:
  `Completes` makes the exception explicit (`ctlLost`), as the code has no retry.
- `ndp`, `dctcp` (`MCFairSpec`): the flow starts, timers and pacer events run,
  packets that stay in the network are delivered. NDP completes unless a header
  or feedback was lost; in the Clos copy also unless a pull has overtaken the
  NACK it was sent for (section 6). TCP completes.

## 4. Proofs

TLAPS proves the following for every value of the constants that satisfies the
named assumptions of the modules, which TLC evaluates on every run. A theorem
states the property that a run checks on a small instance.

| Module | Theorem | States | Of |
|---|---|---|---|
| `CreditQueueProofs` | `TypeCorrect` | `TypeOK` | CreditQueue |
| | `ExactlyOneEvent` | `OneWakeUp` | |
| | `EventsMeanWhatTheySay` | `EventMeaning` | |
| | `NothingVanishes` | `Conservation` | |
| | `BoundedIdle` | `IdleOnlyForToken` | |
| | `PacedCredits` | `CreditPace` | |
| | `BothQueuesSound` | `TypeOK`, `OneWakeUp`, `EventMeaning`, `Conservation`, `CreditPace`, `IdleOnlyForToken` | CreditQueue and ClosCreditQueue |
| | `BoundsKept` | `WithinBounds` | |
| | `RankingSound` | `NICInv` | NICCreditQueue |
| | `RoutesExist` | `RouteExists` | |
| | `BestFirst` | `ShortestFirst` (action property) | |
| | `NICExactlyOneEvent` | `OneWakeUp` | |
| `XPassProofs` | `Reassembles` | `Inv` | XPass and ClosXPass |
| | `OneLoop` | `OneCreditLoop` | |
| | `NothingLostAlways` | `NothingLost` | |
| | `ImplementsFlowTransfer` | `EachImplementsTransfer` (refinement) | |
| `NDPProofs` | `ClockedByReceiver` | `Inv` | NDP and ClosNDP |
| | `MissingIsKnown` | `NeverForgotten` | |
| | `ImplementsFlowTransfer` | `ImplementsTransfer` (refinement) | |
| `DCTCPProofs` | `TCPTimerAndWindows` | `Inv` | TCP, DCTCP, HPCC and Bolt, in both simulators |
| | `TCPRecoveryCanEnd` | `RecoveryCanEnd` | |
| | `TCPAckedArrived` | `AckedArrived` | |
| | `TCPImplementsFlowTransfer` | `ImplementsTransfer` (refinement) | |
| `QueueProofs` | `QueuesSound` | `EachInv` | TrimQueue, CompositeQueue, all classes of SignalQueue |
| | `NoQueueStarves` | `EachNoStarvation` | |
| | `QueuesServeAsTimed` | `EachServedAsTimed` (action property) | |
| | `HbHCountsMatch` | `HbHInv` | HbH |
| | `HbHLimitsHold` | `LimitsHold` | |
| | `HbHNothingLost` | `NothingLost` | |
| `RLBProofs` | `RLBInv` | `Inv` | RLB |
| | `RLBNoPacketLost` | `NoPacketLost` | |
| | `MatchingFitsLinks` | `LinksNotOverrun` | RlbMaster |
| | `AcceptsFitReceivers` | `ReceiversNotOverrun` | |
| `FabricProofs` | `CreditsAccounted` | `Accounting` | Fabric |
| | `PacketsOnTheirWay` | `OnItsWay` | |
| | `GraphFileIsNetwork` | `IsNetwork` of every file that is accepted | GraphTopology |

Each specification has one inductive invariant, `IInv` (`BothInv` for
both credit queues, `NICIInv` for the NIC, `MasterIInv` for the matchings, `HbHIInv`
for backpressure), with a theorem of its own (`Invariance`, `BothInvariance`,
`NICInvariance`, `XPassInvariant`, `NDPInvariance`, `TCPInvariance`,
`QueueInvariance`, `HbHInvariance`, `RLBInvariance`, `MasterInvariance`,
`FabricInvariance`), one lemma per action, and the properties as consequences. None
of the properties is inductive by itself.

**Credit queue.** `OneWakeUp` needs to know which event is pending and what the
link is doing, or a timer could fire in the middle of a transmission: `Serving`
says that the link sends a credit, sends data, waits for a token or rests, with
the event, the clock and the queue that go with each. `CreditPace` needs the
balance of the bucket: `Bucket` says that the credits sent, the one in service
and the tokens left are paid for by the time of the last token. `TokenFacts`
shows that `updateAvailCredit` preserves that balance, with
integer division; it serves all three queues. The first part of
CreditQueueProofs is about Opera's queue (`Spec`).

**Both credit queues, and their bounds.** The second part is about `MCSpec`, the
specification that the run `credit_queue` checks, with a queue of either
simulator and the history of its last starts. The lemmas `Clos...Step` show that
the Clos copy keeps the same invariant, though it asks for tokens in another
order and has a flag for its timer, so all six properties hold there too
(`BothQueuesSound`). For the bounds, `NextMoves` and the Clos lemmas show once
that every step of either queue is one of a few *moves* of the link (a credit
starts, data starts, a wait starts, the link rests, goes on, or an arrival
passes it), and each bound is then shown for the moves. `Window` is what makes
`BurstPace` inductive: for each of the last starts, more time has gone by at the
last token than the later credits and the tokens at hand are worth. `HeadWaits`
does that for `DataNotStarved`: when a credit is in service before waiting data,
it belongs to the burst that the bucket allowed when the data came to the head
(`Burst`), or is the one the link had waited for (`AfterWait`). `Unexpired` says
that credits expire in the order of the queue, and `Buffer` splits the bytes of
the queue by kind of packet.

**NIC queue.** `Ranking` says that the ordered set holds the keys of exactly the
credits that are queued and not in service, and that a rank is of the slice of
the last selection, unless the credit arrived in another one. That a credit
without a rank never meets a selection in the slice it was left out in is a
statement about time: `Recent` bounds the time since the last selection by a
transmission or the wait for a token. `SameTurn` is the lemma about
the slice clock this rests on: two times in the same slice, closer than a cycle
less that slice, have no other slice in between. From these `ShortestFirst`
follows: the order that was kept up to date by insertions is the one a full
ranking would give.

**ExpressPass.** The invariant is about blocks of bytes. `Framed`: any two
blocks anywhere (in the network, in the sink's list, in the first window) are
the same or disjoint, and the cumulative ack falls inside none. `Sorted`: the
list of the sink is in order and above a hole. A block that arrives is then
already there, at the front, or goes into a gap; the merging stops where the
bytes stop (`MergedProperties`). Retransmissions stay in the frame because they
are made from acks that are multiples of the packet size (`Acks`,
`Retransmits`). `Accounted` says for every byte where it is: arrived, carried,
to be retransmitted, or announced by the probe. `Loop` ties the credit loop to
the flow size and the first packets. The Clos copy, which sends nothing twice,
has its own part (`ClosInv`).

**NDP.** `Placed` says that every packet number is in one place: in the network,
in an answer, or queued to be sent again, where it has no timer. That makes it
possible to count. `Clocked` is what makes `SelfClocked` inductive: the packets
in the network, once more the headers and NACKs among them (they will be sent
again without a pull of their own), and the timers of packets that are nowhere
are covered by the window, the pulls that the source has not taken, the trims
and the losses. `KnownStill` does it for `NeverForgotten`: a packet under way
has a timer too, so that the first loss takes one of the two and the second
could take the other. `Heard`: what an ACK says has arrived, and stays so
however late it is read; with it the completion times are true (`Reported`) and
the refinement follows. Two lemmas, one for each simulator, go through the
actions (`OperaStep`, `ClosStep`). The proof uses no assumption but
`NDPAssumption`; the bag of the network counts each packet once, so its sums are
cardinalities of sets (`PacketListFacts`, FiniteSetTheorems).

**TCP and its variants.** The argument is about frames (`InFrame`). The sink
joins blocks by the size of whatever packet has just come, and after a timeout
the source goes on from `lastAcked + Mss` whatever it had sent before. Both are
right because every packet starts a whole number of packets after the first byte
of data, `b`, which is 1 with a SYN and 0 without. No variable holds `b`, so the
invariant is `\E b \in {0, 1} : Framed(b)`, and the lemmas of the steps have `b`
as a parameter. `Framed(b)` says of everything that names a byte (the packets
and acks in the network, the blocks of the sink, the marks of the source) that
it is in the frame, and holds the types, the timer and the windows: `WindowsOK`
keeps each window at or above one packet through the cuts of a third duplicate
ack, a partial ack and a timeout, with integer division. The handler of an ack
is one lemma per branch (new ack, ack in recovery, duplicate, third duplicate),
each of which serves `TcpSrc`, the two DCTCPs and, with a window set before,
HPCC and Bolt. `RecoveryCanEnd` is part of the invariant: a timeout, which goes
back behind what was sent, must not leave a recovery whose end no ack can reach.

**Queues.** `HeadersPass` and `DataPasses` count what a turn has given away: `_crt`
has grown by each packet sent, and had not reached the end of the share before
the last one, so that `NoStarvation` is a bound on the number of steps of `_crt`.
`Served` and `InService` say that what the pending event was timed for is still
at the head of its queue; `ServedAsTimed` is that, at the end of the service.
`DebtIsBacklog` (the supply token of a BoltQueue) is inductive together with the
types; its lemmas go through every order of early feedback and arrival.

**Hop-by-hop backpressure.** The state says what each queue, link and source
holds; the properties speak of packets. `HbHIInv` joins the two by a ledger, a
function that gives every packet of every flow its one place: not yet sent, held
at a queue, in service, on a link, back at its source or at its sink, with the
queue that counts it as present and the queue that expects it. `Placement` says
which places are possible (a packet in service at a rack is counted there and
expected at the queue its path and link lead to, as `Bound` and `LinkTo` say),
the predicates named after the fields (`HeldOK`, `ServingOK`, `PipeOK`,
`BackOK`) that each list holds the packets placed in it and no others, and
`DstOK`, `PortOK`, `NicOK`, `FlightOK` that each counter is the number of places
it stands for. No variable holds the ledger, so the invariant is that there is
one. An event moves packets one at a time: the lemmas about `Moved` say what one
move does to each list and counter, and the operators of the model are sequences
of moves, so every one of them keeps `Good`, the invariant of the record of
queues, wherever in the run of an event it is called. The loops are folds, and
keep what a turn keeps (`FoldSolved`). An event also keeps the windows of the
sources, as the loops of `triggerSending` rely on, and what the downlinks have in
service (`Untouched`, `SameDown`): the source to which a downlink returns a packet
sends before that downlink is done, and must leave it idle. `ChangeSlice`
moves nothing but may cut a link; the packet on it is then expected at a queue
it does not reach, and `PipeDelivers` takes it out of the count of that one. The
properties count sets of packets, the counters places: two packets in one set
differ in number, so the counts agree (`AsManyPackets`).

**Networks.** `Stage` says what is true of a packet in each place: at a ToR, its
hop count is the number of links it entered, its port is the one its path (or
its host) asks for, and its counters hold no waste yet (`AtToR`). `OnPath` is
what connects these with the topology: as long as the packet has met no slice
but that of its path, it is at the ToR which the path reaches after that many
hops. From it follow `StableSliceDelivers` and, since in a static network there
is no other slice, `StaticKeepsAll`. The theorems hold for every network in
which the paths of a slice lead where they should. `GraphFileIsNetwork` shows
that a graph file which passes the checks of the reader is one, if every pair
has a route: `VisitsFacts` goes along a route, and `PortFacts` takes a neighbour
to its port and back.

**RotorLB at a host.** `Keeps` counts each packet: what is in a queue and in all
commit queues together is what the host owns, so that pulls, pushes back and the
cleaning of a commit queue are transfers. `clean_commit` empties the queue of
the matching that ends, and only that one may hold packets which no present
matching serves: `History` keeps the age of each matching, in the order of the
indices, which wrap (`Older`), and `OnlyWhileMatched` says that what is
committed has a matching that is not over. `NICTypes` says that the dummy is in
the NIC exactly while something is committed, whatever priority is in service.

**The matching.** What `fairshare1d` and its callers do is adding and
subtracting sums over racks of any size, so the proof begins with sums of
functions over a finite set. `Sum` adds in an order that a CHOOSE picks:
`PartSumTake` shows that the order does not matter, and `SumOfPairs` that a
matrix adds up by rows as by elements, which is what `fairshare2d_2` uses. A
round of `fairshare1d` keeps the difference of what is wanted and what is free
(`RoundFacts`), whatever the remainder of its division, so the shares are at
most the demand and the capacity together. `Shared2D` and `Shared2D2` are the
invariants of the two loops. `NothingLeftOver` is not proved: it depends on
`maxiter`.

**Lemmas on data.** `PacketListFacts` proves what the recursive functions of
PacketLists compute (`BytesOf` of a queue that gains or loses a packet, `Kept`),
and that a fold ends where the recursion it stands for does (`FoldSolved`,
`SameFold`), after the facts about numbers that this takes. Induction works here
without the library's induction theorems: `AllNumbers` is induction for a set of
numbers, from the least-element principle, and a recursive function exists
because its partial functions do.

**Findings about the models.** Some assumptions turned out to be missing or too
weak when the proofs were tried, and were added as far as the code's settings
justify: `NICAssumption` (a slice must not end and come round between two
selections), `TurnAssumption` and `RoomAssumption` of the trimming queue
(section 5), and `PaceAssumption` of MCCreditQueue: a full bucket of credits and
two more are sent within one spacing. Credits have 64 bytes, a spacing is at
least a full packet of 1500, and the bucket holds two. Credits that are long
compared to the spacing would take up the link without end. The largest window
of TCP has to be at least three packets and the initial `ssthresh` above every
window (`TCPAssumption`; the code has 0xffffffff and windows of many packets): a
third duplicate ack adds three packets to a window of one. A rack must not send
to infinitely many hosts (`MasterAssumption`). For HbH: a rotor joins no other
racks at once but is down in between (`HbHAssumption`; so it is in all topology
files of `src/topologies`), or a packet would reach another rack than the one
that counts it; the racks of a flow differ (`startflow` asserts it), and the
burst of the start, which does not look at `_max_inflight`, is within it (2
packets of 20).

**Only model-checked.** The route tables of the static networks of the Clos
simulator (`RoutesSound`): they are tables of numbers for given sizes, with
nothing in them to vary. That a matching leaves nothing over
(`NothingLeftOver`), which holds for a number of iterations that depends on the
size of the racks. That HbH does not deadlock in a slice that does not change
(`NoneStuck`): the limits per port make queues wait for each other along the
routes, and whether they can wait in a circle depends on the routes of the
network; the run has racks that reach each other by way of the third. And all
liveness (`Drains`, `EachCompletes`, `Completes`): fairness and ENABLED are
beyond the prover.

## 5. Not modelled

- Credit queue: reports, per-flow statistics other than drops and deliveries,
  the recorded latencies, further credit priorities (`CRED_Q_N` is 1), the end
  of the simulation time.
- NIC queue: a queue whose next selection falls into the next turn of the same
  slice. `NICAssumption` excludes it: the longest service or wait and the longest
  slice fit into a cycle. The ranks would be taken for fresh ones, since a slice
  is known by its number only. (That a service is shorter than a cycle is not
  enough: the proof of `BestFirst` fails, as it may end in the same slice, one
  turn later.)
- XPass: `feedbackControl`, `feedbackControl2`, `nextCreditWait` and the
  estimate of credits in flight: floating-point rates that decide only when
  credits are sent. 32-bit wrap-around of sequence numbers (flows over 4 GB).
- NDP: pulls of several flows that share the pacer (`fairpullqueue.cpp`), and
  the strategies of the Clos copy that score paths by pulls; a path is any path.
  `SINGLE_PATH` keeps no history. Round trip times are only logged.
- TCP: round trip times and what is printed. The superslice and the ECN echo of
  an ack, a mismatch of its selective acks, and Bolt's request for an increase are
  chosen when the source reads them, so more combinations are allowed than a
  network produces. Windows per superslice are modelled; the run has one
  superslice. HPCC's floating-point computation is any window within its bounds,
  the INT stamps that feed it are left out. Early feedback comes at any time, up
  to `MaxSrcs` times. A plain SYN is the default of `TcpSrc`, none what
  `main_dctcp` and `main_bolt` set; `bypass` is what HPCC (and, as `_is_hpcc`,
  Bolt of the Clos simulator) sets. `TcpSrc` by itself, MPTCP, and the other
  transports inherited from htsim (RCP, QCN, CBR) are left out.
- Queues: PAUSE packets never occur (only lossless input queues, which no driver
  builds, send them); rounding of the supply of a BoltQueue; its `int` token
  wraps after 0.17 s without a packet (bound `SinceBound`). A trimming
  queue too small for two packets (`RoomAssumption`; the drivers give 46 packets):
  it would cut the packet in service, which then leaves under another's time.
  Headers longer than `_ratio_low` (`TurnAssumption`; 64 bytes against 1500):
  they would end every turn before data is served, and starve it.
- RLB: its order of packets (RLB keeps none), the service times. The drivers of the
  repository do not start RLB: the code is modelled as it stands.
- HbH: one host per rack, one path per pair ("assumes single-path routing",
  hbhqueue.cpp:79), no liveness: `NoneStuck` is the freedom from deadlock of a
  slice that does not change. After a change packets may be left at a queue: the
  next one forgets who waits for it when they are not connected
  (`HbHQueue::poll`), a case the code has a TODO for (hbhqueue.cpp:45).
- Fabric: bandwidth and delay; each event takes any time. A route of a static
  network is a list of links: lossless elements, feeder queues and the lower
  speed of failed links are left out, as are `print_path` and the utilisation
  monitor. The 1:1 tree is for even K. A packet with a route without reverse is
  dropped where it would be turned back. The networks other than the fat trees
  are inherited from htsim and no driver builds them; `expander_topology.cpp` has
  no usable reverse routes (section 6). A graph file must have a route for every
  pair (`HasRoutes`), which the reader does not check.
- The event list: any order of simultaneous events is allowed everywhere.
  Loggers, parsers, drivers and scripts have no behaviour of their own.

## 6. Findings

1. `xpass_ackreq_byte`: the ackreq takes a byte of the sequence space for which
   `set_flowsize` announces "+1 for ackreq" (`xpass.cpp:84`) but adds none. A
   flow of window + 1 bytes never ends: its last byte is never sent.
2. `ndp_returned`: a returned packet is sent again at once only "if we're not
   expecting any more pulls" (`ndp.cpp:179`), by a count that a NACK which
   carries its pull leaves too high. A flow of one packet that is trimmed and
   returned is never sent again.

Observations that contradict no document, and that the models take as they are:

- Clos NDP: the line that counts down the pulls expected stands under
  `if (_log_me)` (clos/ndp.cpp:379-381). A pull that overtakes the NACK it was
  sent for is spent on nothing and strands the packet (`overtaken`).
- Clos XPass sends nothing again: a flow that loses data never ends, nor do its
  credits. A Clos TCP flow with a SYN sends one byte less than its size.
- Bolt's window wraps below zero (bolt.cpp:71; clos/bolt.cpp guards it), so that
  early feedback can raise it to the maximum with the next ack. A timeout leaves
  the own window of HPCC and Bolt as it was: the next ack undoes the reduction.
- A packet that makes a BoltQueue send early feedback keeps its request for an
  increase (boltqueue.cpp:83-102), since the tests are one `if`-`else` chain.
- An INT stamp does not count the packet it is put on. `_txbytes` is not
  initialised by the second constructor of `Queue` (queue.cpp:38-50).
- A queue that is resumed by PAUSE while a packet is in service schedules a
  second event (clos/queue.cpp:209-213); no driver can bring that about.
- The reverse routes of the expander are pushed onto the forward ones
  (clos/datacenter/expander_topology.cpp:328-331, against the comment at 323).
- The reader of graph files accepts a network in which a pair has no route;
  choosing one is then a division by zero.
- With hop jitter, the NIC can store a hop count of 0 (creditqueue.cpp:754), which
  has no chance at all of being admitted, though "more hops, less chance" is meant.

## 7. Plan

Done: all modules of section 2 and the proofs of section 4. What TLC alone checks is
listed there, with the reason. A condition on the routes under which `NoneStuck`
holds would be worth a theorem.

Left to model, if anything calls for it: several flows at one pull pacer, the
rate control of XPass, lossless queues.
