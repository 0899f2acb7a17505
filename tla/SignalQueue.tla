---------------------------- MODULE SignalQueue -----------------------------
(***************************************************************************)
(* The queues that TCP flows go through, in both simulators: the plain     *)
(* Queue; ECNQueue, which marks packets that leave it congested; INTQueue, *)
(* which stamps them with its length; BoltQueue, which sends the source    *)
(* early feedback, and grants increases of the window against tokens; and  *)
(* PriorityQueue, the NIC of a host of the Clos simulator.                 *)
(*                                                                         *)
(* Time counts the bytes a link carries: a packet of n bytes is in service *)
(* for n ticks, and an idle link supplies a byte a tick.  (The code        *)
(* computes a supply in floating point and drops the fraction of a byte;   *)
(* and _sm_token, an int, would wrap if no data came for 2^31 ticks, which *)
(* is 0.17 s: bound SinceBound is below that.)                             *)
(* The stamps are chosen freely where a source reads them.  PAUSE packets, *)
(* which only lossless input queues send, do not occur.                    *)
(***************************************************************************)
EXTENDS Integers, Sequences, SequencesExt, FiniteSetsExt, PacketLists

CONSTANTS
  Buffer,      \* _maxsize (and a bound: what the NIC holds)
  AckSize, PacketSizes,
  Mtu,         \* MTU_SIZE
  Threshold,   \* _K of an ECNQueue, _CCthresh of a BoltQueue
  MaxPru       \* bound: _pru_token

ASSUME SignalAssumption ==
  /\ AckSize \in Nat \ {0} /\ PacketSizes \subseteq (AckSize + 1)..Mtu /\ PacketSizes # {}
  /\ Mtu \in Nat /\ Buffer \in Nat /\ Buffer >= Mtu /\ Threshold \in Nat /\ MaxPru \in Nat

VARIABLES
  kind,       \* the class of the queue
  enqueued,   \* _enqueued: a sequence per level, the head is served next
  servicing,  \* _servicing, "none" if no event is pending
  timedFor,   \* size of the packet the pending event was timed for
  left,       \* ticks until that event
  pru, sm,    \* _pru_token, _sm_token
  since,      \* ticks since _last_sm_t
  over,       \* the queue was over the threshold since a packet left it last
  marked,     \* whether that packet was marked
  overtaken   \* data sent since an ack waits (no code reads over, overtaken)

signalVars ==
  <<kind, enqueued, servicing, timedFor, left, pru, sm, since, over, marked, overtaken>>
tokens == <<pru, sm, since>>

Levels == {"lo", "mid", "hi"}
Bolts  == {"bolt", "closbolt"}
Kinds  == {"queue", "ecn", "int", "closqueue", "closecn", "closint", "nic"} \cup Bolts

\* What arrives: acks, data and data sent again; whether a queue has sent
\* early feedback for it.
Packets == [type : {"ack"}, size : {AckSize}, early : {FALSE}]
             \cup [type : {"data", "again"}, size : PacketSizes, early : BOOLEAN]

SignalInit ==
  /\ kind \in Kinds
  /\ enqueued = [l \in Levels |-> <<>>] /\ servicing = "none" /\ timedFor = 0 /\ left = 0
  /\ pru = 0 /\ sm = 0 /\ since = 0
  /\ over = FALSE /\ marked = FALSE /\ overtaken = 0

LevelBytes(q) == BytesOf(q)
QueueSize(q) == LevelBytes(q["lo"]) + LevelBytes(q["mid"]) + LevelBytes(q["hi"])

\* A BoltQueue serves acks first, the NIC acks, then what is sent again.
BoltLevel(p) == IF p.type = "ack" THEN "hi" ELSE "lo"
GetPriority(p) == CASE p.type = "ack" -> "hi" [] p.type = "again" -> "mid" [] OTHER -> "lo"
Level(p) == IF kind \in Bolts THEN BoltLevel(p) ELSE IF kind = "nic" THEN GetPriority(p) ELSE "lo"

NextLevel(q) ==
  IF q["hi"] # <<>> THEN "hi" ELSE IF q["mid"] # <<>> THEN "mid" ELSE "lo"

\* beginService with the packets q, if there are any.
BeginNext(q) ==
  IF QueueSize(q) = 0
  THEN servicing' = "none" /\ timedFor' = 0 /\ left' = 0
  ELSE /\ servicing' = NextLevel(q)
       /\ timedFor' = Head(q[NextLevel(q)]).size /\ left' = timedFor'

Enqueue(q, p) == [q EXCEPT ![Level(p)] = Append(@, p)]

\* p joins the packets q, and is served if nothing is.
Enters(q, p) ==
  /\ enqueued' = Enqueue(q, p)
  /\ IF servicing = "none" THEN BeginNext(enqueued') ELSE UNCHANGED <<servicing, timedFor, left>>
  /\ over' = (over \/ (kind \in {"ecn", "closecn"} /\ QueueSize(enqueued') > Threshold))
  /\ UNCHANGED <<kind, marked, overtaken>>

\* What does not fit is dropped, and TCP data recorded with its source: it
\* leaves no trace in the queue.
HasRoom(q, p) == QueueSize(q) + p.size <= Buffer

-----------------------------------------------------------------------------
(* receivePacket of each class *)

QueueReceives(p)     == kind = "queue" /\ HasRoom(enqueued, p) /\ Enters(enqueued, p) /\ UNCHANGED tokens
ClosQueueReceives(p) == kind = "closqueue" /\ HasRoom(enqueued, p) /\ Enters(enqueued, p) /\ UNCHANGED tokens
ECNReceives(p)       == kind = "ecn" /\ HasRoom(enqueued, p) /\ Enters(enqueued, p) /\ UNCHANGED tokens
ClosECNReceives(p)   == kind = "closecn" /\ HasRoom(enqueued, p) /\ Enters(enqueued, p) /\ UNCHANGED tokens
INTReceives(p)       == kind = "int" /\ HasRoom(enqueued, p) /\ Enters(enqueued, p) /\ UNCHANGED tokens
ClosINTReceives(p)   == kind = "closint" /\ HasRoom(enqueued, p) /\ Enters(enqueued, p) /\ UNCHANGED tokens

\* The NIC has no limit.
NICReceives(p) == kind = "nic" /\ HasRoom(enqueued, p) /\ Enters(enqueued, p) /\ UNCHANGED tokens

\* updateSupply: the supply since the last data, less this packet.
Supplied(p) == Min({sm + since - p.size, Mtu})

\* An increase asked for by a packet is paid for by a flow that ended, or by
\* supply; else the packet loses its request.
\* Mutant: any supply pays.
PaysWithAny(s) ==
  \/ pru > 0 /\ pru' = pru - 1 /\ sm' = s
  \/ pru = 0 /\ s >= 0 /\ sm' = s - Mtu /\ UNCHANGED pru
  \/ pru = 0 /\ s < 0 /\ sm' = s /\ UNCHANGED pru

Pays(s) ==
  \/ pru > 0 /\ pru' = pru - 1 /\ sm' = s
  \/ pru = 0 /\ s >= Mtu /\ sm' = s - Mtu /\ UNCHANGED pru
  \/ pru = 0 /\ s < Mtu /\ sm' = s /\ UNCHANGED pru

\* sendEarlyFeedback of Opera: an ack goes, at once, into the queue of this
\* ToR that leads to the source.  That may be this very queue, which has
\* looked whether p fits before.
Feedback == [type |-> "ack", size |-> AckSize, early |-> FALSE]
AfterFeedback(q) == IF HasRoom(q, Feedback) THEN {q, Enqueue(q, Feedback)} ELSE {q}

\* Data that finds the queue over the threshold makes it send early feedback,
\* once; else data that ends a flow of more than one window leaves a token.
Warns(p) == ~p.early /\ QueueSize(enqueued) > Threshold

Tokens(p, ends, asks) ==
  /\ since' = 0
  /\ \/ Warns(p) /\ sm' = Supplied(p) /\ UNCHANGED pru
     \/ ~Warns(p) /\ ends /\ pru < MaxPru /\ pru' = pru + 1 /\ sm' = Supplied(p)
     \/ ~Warns(p) /\ ~ends /\ asks /\ Pays(Supplied(p))
     \/ ~Warns(p) /\ ~ends /\ ~asks /\ sm' = Supplied(p) /\ UNCHANGED pru

Seen(p) == [p EXCEPT !.early = @ \/ Warns(p)]

BoltReceives(p, ends, asks) ==
  /\ kind = "bolt" /\ HasRoom(enqueued, p)
  /\ IF p.type = "ack"
     THEN Enters(enqueued, p) /\ UNCHANGED tokens
     ELSE /\ Tokens(p, ends, asks)
          /\ \E q \in IF Warns(p) THEN AfterFeedback(enqueued) ELSE {enqueued} :
               Enters(q, Seen(p))

\* The Clos simulator sends its early feedback back along the route, through
\* another queue.
ClosBoltReceives(p, ends, asks) ==
  /\ kind = "closbolt" /\ HasRoom(enqueued, p)
  /\ IF p.type = "ack"
     THEN Enters(enqueued, p) /\ UNCHANGED tokens
     ELSE Tokens(p, ends, asks) /\ Enters(enqueued, Seen(p))

-----------------------------------------------------------------------------
(* completeService of each class *)

\* The packet in service leaves, marked or not, and the next one is served.
Leaves(level, mark) ==
  /\ servicing # "none" /\ left = 0
  /\ enqueued' = [enqueued EXCEPT ![level] = Tail(@)]
  /\ BeginNext(enqueued')
  /\ marked' = mark
  /\ over' = (kind \in {"ecn", "closecn"} /\ QueueSize(enqueued') > Threshold)
  /\ overtaken' = IF kind \in Bolts \cup {"nic"} /\ level # "hi" /\ enqueued["hi"] # <<>>
                  THEN overtaken + 1 ELSE 0
  /\ UNCHANGED <<kind, tokens>>

\* Marked if the queue, this packet included, is over the threshold.
Mark == QueueSize(enqueued) > Threshold

QueueCompletes     == kind = "queue" /\ Leaves(servicing, FALSE)
ClosQueueCompletes == kind = "closqueue" /\ Leaves(servicing, FALSE)
ECNCompletes       == kind = "ecn" /\ Leaves(servicing, Mark)
ClosECNCompletes   == kind = "closecn" /\ Leaves(servicing, Mark)
INTCompletes       == kind = "int" /\ Leaves(servicing, FALSE)
ClosINTCompletes   == kind = "closint" /\ Leaves(servicing, FALSE)
BoltCompletes      == kind = "bolt" /\ Leaves(servicing, FALSE)
ClosBoltCompletes  == kind = "closbolt" /\ Leaves(servicing, FALSE)
NICCompletes       == kind = "nic" /\ Leaves(servicing, FALSE)

\* Bound: a supply that fills the token whatever comes is not counted on.
SinceBound == 2 * Mtu - sm

\* The time of a byte passes.
Tick ==
  /\ servicing = "none" \/ left > 0
  /\ left' = IF servicing = "none" THEN 0 ELSE left - 1
  /\ since' = IF kind \in Bolts /\ since < SinceBound THEN since + 1 ELSE since
  /\ UNCHANGED <<kind, enqueued, servicing, timedFor, pru, sm, over, marked, overtaken>>

\* Only a BoltQueue reads the early feedback, only the NIC what is sent again.
Arrivals ==
  {p \in Packets : (p.early => kind \in Bolts) /\ (p.type = "again" => kind = "nic")}

SignalNext ==
  \/ \E p \in Arrivals :
       \/ QueueReceives(p) \/ ClosQueueReceives(p)
       \/ ECNReceives(p) \/ ClosECNReceives(p)
       \/ INTReceives(p) \/ ClosINTReceives(p)
       \/ NICReceives(p)
       \/ \E ends, asks \in BOOLEAN : BoltReceives(p, ends, asks) \/ ClosBoltReceives(p, ends, asks)
  \/ QueueCompletes \/ ClosQueueCompletes \/ ECNCompletes \/ ClosECNCompletes
  \/ INTCompletes \/ ClosINTCompletes \/ BoltCompletes \/ ClosBoltCompletes \/ NICCompletes
  \/ Tick

-----------------------------------------------------------------------------

\* Every variable has the type the code declares for it.
SignalTypeOK ==
  /\ kind \in Kinds /\ enqueued \in [Levels -> Seq(Packets)]
  /\ servicing \in Levels \cup {"none"} /\ timedFor \in 0..Mtu /\ left \in 0..timedFor
  /\ pru \in 0..MaxPru /\ sm \in Int /\ sm <= Mtu /\ since \in Nat
  /\ {over, marked} \subseteq BOOLEAN /\ overtaken \in Nat

\* An event is pending exactly if there is a packet.
Serves == servicing = "none" <=> QueueSize(enqueued) = 0

\* The buffer is exceeded by one ack at most, that of early feedback the queue
\* sent to itself, and only in Opera.
Overrun == QueueSize(enqueued) <= Buffer + IF kind = "bolt" THEN AckSize ELSE 0

\* No data waits behind more than the threshold of data without its source
\* being told, by this queue or one before.
Warned ==
  kind \in Bolts =>
    \A i \in DOMAIN enqueued["lo"] :
      LevelBytes(SubSeq(enqueued["lo"], 1, i - 1)) > Threshold => enqueued["lo"][i].early

\* The supply token is in debt by the backlog at most: increases are granted
\* only out of capacity that was left unused.
DebtIsBacklog ==
  kind \in Bolts =>
    sm + since + QueueSize(enqueued) - (timedFor - left) >= 0

\* The safety invariant of these queues.
SignalInv == SignalTypeOK /\ Serves /\ Overrun /\ Warned /\ DebtIsBacklog

\* An ack waits for the data in service, never for more.
AckWaitsForOne == overtaken <= 1

\* A packet leaves after its own time, whatever came meanwhile; and the first
\* one to leave an ECNQueue that has been over its threshold is marked.
LeavesAsTimed ==
  [][\A l \in Levels :
       Len(enqueued'[l]) < Len(enqueued[l]) =>
         left = 0 /\ Head(enqueued[l]).size = timedFor /\ (over => marked')]_signalVars

=============================================================================
