---------------------------- MODULE CreditLink -----------------------------
(***************************************************************************)
(* What the egress queues of the ExpressPass/Flare transport have in       *)
(* common (class CreditQueue of src/src/opera/creditqueue.cpp): one link   *)
(* shared by data packets and credits.  Credits have priority but are      *)
(* paced by a token bucket: one token every Spacing (the time of a full    *)
(* data frame on the reverse path), at most MaxAvailCred saved up.         *)
(*                                                                         *)
(* This module has the state, the token bucket, the ways a service can     *)
(* start and the ways an arriving packet can be refused.  CreditQueue (the *)
(* ToR ports) and NICCreditQueue (the hosts) extend it with the order in   *)
(* which credits are served.                                               *)
(*                                                                         *)
(* Time is counted in byte times (_ps_per_byte = 1), so that the drain     *)
(* time of a packet is its size.                                           *)
(***************************************************************************)
EXTENDS Integers, Sequences, FiniteSets

CONSTANTS
  Spacing,        \* time between two credit tokens (_ps_per_byte * _data_size)
  CredSize,       \* bytes of a credit
  DataSizes,      \* sizes of the other packets (full frames, ackreq, XPCTL)
  MaxSize,        \* _maxsize: bytes of data the queue holds
  MaxSizeUnsched, \* _maxsize_unsched: Aeolus threshold for unscheduled data
  MaxSizeCred,    \* _maxsize_cred: bytes of credits the queue holds
  MaxTentCred,    \* _max_tent_cred: tentative credits are refused above it
  ShapingThresh,  \* _shaping_thresh: Flare shapes credits above it
  MaxAvailCred,   \* _max_avail_cred: size of the token bucket
  CredTimeout,    \* _cred_timeout: lifetime of a queued credit
  Hops,           \* remaining-hop values (tidalhop) a credit can carry
  ProbHops,       \* DynExpTopology::get_prob_hops, see Chances
  ArrivalWindow,  \* bound: arrivals, and idle time, stop at this time
  MaxCredits,     \* bound: number of credits that arrive
  MaxData         \* bound: number of other packets that arrive

\* Admission probability above the shaping threshold: 0.0, 1.0 or between.
Chances == {"never", "sometimes", "always"}

ASSUME CreditQueueAssumption ==
  /\ Spacing \in Nat \ {0}
  /\ CredSize \in Nat \ {0}
  /\ DataSizes \subseteq Nat \ {0}
  /\ MaxSize \in Nat /\ MaxSizeUnsched \in Nat /\ MaxSizeCred \in Nat
  /\ MaxTentCred \in Nat /\ ShapingThresh \in Nat
  /\ MaxAvailCred \in Nat \ {0}
  /\ CredTimeout \in Nat /\ CredSize <= CredTimeout
  /\ Hops \subseteq Int
  /\ ProbHops \in [Hops -> Chances]
  /\ ArrivalWindow \in Nat /\ MaxCredits \in Nat /\ MaxData \in Nat

NoPendingTx == -1     \* NO_PENDING_TX

\* What the queue can be handed: credits, XPDATA packets (UNSCHED when sent
\* without a credit), and XPCTL, which stands for every other type.
Credits  == [tent : BOOLEAN, flare : BOOLEAN, hops : Hops]
DataPkts == [type : {"XPDATA", "UNSCHED", "XPCTL"}, size : DataSizes]

VARIABLES
  now,          \* EventList::now()
  dataQ,        \* _enqueued, the next packet to send first
  queueSize,    \* _queuesize
  credQ,        \* _enqueued_cred[0]: expiry times (tmp_ts), oldest first
  availCred,    \* _avail_cred
  lastCredT,    \* _last_cred_t, the instant of the last token
  nextSchedTx,  \* _next_sched_tx
  txNext,       \* _tx_next
  nextPrio,     \* _next_prio
  timerPending, \* _cred_tx_pending
  events,       \* entries of the event list whose source is this queue
  creds,        \* _tot_creds, _tx_creds and the _drop_* counters
  datas,        \* packets received, sent and dropped (_num_drops)
  aborted       \* number of calls of XPassSrc::setFinished()

clockVars   == <<availCred, lastCredT>>
serviceVars == <<nextSchedTx, txNext, nextPrio, timerPending, events>>
vars == <<now, dataQ, queueSize, credQ, clockVars, serviceVars, creds, datas, aborted>>

\* Credits received, sent, and dropped by reason.
CreditCounters == [tot : Nat, tx : Nat, overflow : Nat, timeout : Nat,
                   shaping : Nat, tentative : Nat]
Dropped == creds.overflow + creds.timeout + creds.shaping + creds.tentative
CredBytes == Len(credQ) * CredSize     \* queuesize_cred()
IsEmpty == dataQ = <<>> /\ credQ = <<>>

Init ==
  /\ now = 0
  /\ dataQ = <<>> /\ queueSize = 0 /\ credQ = <<>>
  /\ availCred = 1 /\ lastCredT = 0
  /\ nextSchedTx = NoPendingTx /\ txNext = "NONE" /\ nextPrio = -1
  /\ timerPending = FALSE /\ events = {}
  /\ creds = [tot |-> 0, tx |-> 0, overflow |-> 0, timeout |-> 0,
              shaping |-> 0, tentative |-> 0]
  /\ datas = [tot |-> 0, tx |-> 0, drop |-> 0]
  /\ aborted = 0

-----------------------------------------------------------------------------
(* The token bucket *)

LesserOf(a, b) == IF a <= b THEN a ELSE b

\* Mutant: the bucket has no size.
TokensUncapped == availCred + ((now - lastCredT) \div Spacing)

\* Mutant: the time of the last token is never moved on.
TokenTimeUnmoved == lastCredT

\* updateAvailCredit: the tokens at hand now, and the time of the last one.
Tokens    == LesserOf(availCred + ((now - lastCredT) \div Spacing), MaxAvailCred)
TokenTime == now - ((now - lastCredT) % Spacing)

UpdateAvailCredit == availCred' = Tokens /\ lastCredT' = TokenTime

\* Mutant: a token is spent that is not there.
TokensOverdrawn == Tokens - 1

\* credit_ready: what is left once a token, if there is one, is spent.
TokensLeft == IF Tokens > 0 THEN Tokens - 1 ELSE Tokens

\* Events: "tx" and "timer" are labels for the properties, no action looks at
\* them.  The event list is a multiset, so a second event like one that is
\* pending already is another event.
Event(kind, time) == [kind |-> kind, at |-> time, copy |-> 1]

\* sourceIsPendingRel
Scheduled(evs, kind, time) ==
  evs \cup {[Event(kind, time) EXCEPT !.copy = IF Event(kind, time) \in evs THEN 2 ELSE 1]}

-----------------------------------------------------------------------------
(* beginService, on the queues dq and cq, the remaining events evs and the *)
(* counters st.  credit_ready() is called whether or not a credit waits,   *)
(* so a token is spent when only data is sent.                             *)

SendCredit(evs) ==
  /\ timerPending' = FALSE
  /\ events' = Scheduled(evs, "tx", now + CredSize)
  /\ nextSchedTx' = now + CredSize
  /\ txNext' = "CRED" /\ nextPrio' = 0

SendData(p, evs) ==
  /\ events' = Scheduled(evs, "tx", now + p.size)
  /\ nextSchedTx' = now + p.size
  /\ txNext' = "DATA"
  /\ UNCHANGED <<nextPrio, timerPending>>

\* Mutant: the timer that ended is still taken for a transmission.
AwaitTokenUnreset(evs) ==
  /\ timerPending' = TRUE
  /\ events' = Scheduled(evs, "timer", TokenTime + Spacing)
  /\ nextPrio' = 0
  /\ UNCHANGED <<nextSchedTx, txNext>>

\* Mutant: the timer is not marked as pending.
AwaitTokenUnmarked(evs) ==
  /\ events' = Scheduled(evs, "timer", TokenTime + Spacing)
  /\ nextPrio' = 0
  /\ nextSchedTx' = NoPendingTx /\ txNext' = "NONE"
  /\ UNCHANGED timerPending

\* Mutant: wakes up one token too late.
AwaitTokenLate(evs) ==
  /\ timerPending' = TRUE
  /\ events' = Scheduled(evs, "timer", TokenTime + 2 * Spacing)
  /\ nextPrio' = 0
  /\ nextSchedTx' = NoPendingTx /\ txNext' = "NONE"

\* scheduleCredit: wake up when the next token is due.
AwaitToken(evs) ==
  /\ timerPending' = TRUE
  /\ events' = Scheduled(evs, "timer", TokenTime + Spacing)
  /\ nextPrio' = 0
  /\ nextSchedTx' = NoPendingTx /\ txNext' = "NONE"

NothingToSend(evs) ==
  /\ events' = evs
  /\ nextSchedTx' = NoPendingTx /\ txNext' = "NONE"
  /\ UNCHANGED <<nextPrio, timerPending>>

-----------------------------------------------------------------------------
(* receivePacket: the credits that are refused *)

\* The credit is dropped: only the bucket and the counters st change.
DropCredit(st) ==
  /\ creds' = st
  /\ UpdateAvailCredit
  /\ UNCHANGED <<now, dataQ, queueSize, credQ, serviceVars, datas, aborted>>

Overflows        == CredBytes + CredSize > MaxSizeCred
RefusedAsTent(c) == c.tent /\ CredBytes > MaxTentCred
IsShaped(c)      == c.flare /\ CredBytes > ShapingThresh

\* Mutant: the drop is not counted.
CreditOverflowUncounted(c) == Overflows /\ DropCredit([creds EXCEPT !.tot = @ + 1])

CreditOverflow(c) == Overflows /\ DropCredit([creds EXCEPT !.tot = @ + 1, !.overflow = @ + 1])

CreditTentative(c) ==
  /\ ~ Overflows /\ RefusedAsTent(c)
  /\ DropCredit([creds EXCEPT !.tot = @ + 1, !.tentative = @ + 1])

\* drand() < 1 - get_prob_hops(tidalhop)
CreditShaped(c) ==
  /\ ~ Overflows /\ ~ RefusedAsTent(c) /\ IsShaped(c)
  /\ ProbHops[c.hops] \in {"never", "sometimes"}
  /\ DropCredit([creds EXCEPT !.tot = @ + 1, !.shaping = @ + 1])

-----------------------------------------------------------------------------
(* receivePacket: the other packets that are refused *)

DropData ==
  /\ datas' = [datas EXCEPT !.tot = @ + 1, !.drop = @ + 1]
  /\ UpdateAvailCredit
  /\ UNCHANGED <<now, dataQ, queueSize, credQ, serviceVars, creds>>

NoRoom(p)    == queueSize + p.size > MaxSize
IsAeolus(p)  == p.type = "UNSCHED" /\ queueSize + p.size > MaxSizeUnsched

\* No room: the flow of an XPDATA packet is given up (setFinished),
\* unscheduled or not.
DataOverflow(p) ==
  /\ NoRoom(p)
  /\ aborted' = aborted + IF p.type = "XPCTL" THEN 0 ELSE 1
  /\ DropData

\* Unscheduled packets are dropped early; the flow goes on.
DataUnscheduled(p) ==
  /\ ~ NoRoom(p) /\ IsAeolus(p)
  /\ DropData /\ UNCHANGED aborted

-----------------------------------------------------------------------------
(* Time and rest *)

\* The event list moves on: not past an event, and not for nothing once the
\* arrivals have stopped.
Tick ==
  /\ \A e \in events : now < e.at
  /\ events # {} \/ now < ArrivalWindow
  /\ now' = now + 1
  /\ UNCHANGED <<dataQ, queueSize, credQ, clockVars, serviceVars, creds, datas, aborted>>

\* The event list is empty and nothing more arrives: the simulation ends.
Quiet ==
  /\ now >= ArrivalWindow /\ events = {}
  /\ UNCHANGED vars

-----------------------------------------------------------------------------
(* Properties of both kinds of queue *)

\* The comment above credit_ready() warns of "double events": a queue that
\* holds anything has exactly one event outstanding (none: it would be stuck
\* for ever; two: a packet would be sent ahead of its time), an empty queue
\* has none.
OneWakeUp == IF IsEmpty THEN events = {} ELSE \E e \in events : events = {e}

\* The assertions of doNextEvent, beginService and completeService hold at
\* every event, and the timer is never taken for the end of a transmission.
EventMeaning ==
  /\ IsEmpty => txNext = "NONE"
  /\ \A e \in events :
       IF e.kind = "tx"
       THEN /\ e.at = nextSchedTx
            /\ \/ txNext = "CRED" /\ credQ # <<>> /\ nextPrio = 0
               \/ txNext = "DATA" /\ dataQ # <<>>
       ELSE /\ nextSchedTx = NoPendingTx /\ txNext = "NONE"
            /\ timerPending /\ credQ # <<>> /\ nextPrio = 0

\* No credit and no packet is lost or counted twice: what came in was sent,
\* was dropped for one reason, or is still queued.
Conservation ==
  /\ creds.tot = creds.tx + Dropped + Len(credQ)
  /\ datas.tot = datas.tx + datas.drop + Len(dataQ)

\* ExpressPass's guarantee that the data credits trigger fits the link: since
\* the start, never more credits than tokens, one per Spacing and the first.
CreditPace == (creds.tx - 1) * Spacing <= now

\* A link that is idle although data waits is waiting for a credit token:
\* data that arrives meanwhile does not start the link, so the wait has to
\* be bounded by one Spacing.
IdleOnlyForToken ==
  txNext = "NONE" /\ dataQ # <<>> =>
    credQ # <<>> /\ \E e \in events : e.kind = "timer" /\ e.at <= now + Spacing

\* Once arrivals stop, everything queued is sent or dropped and the queue
\* returns to rest.
Drains == <>[](IsEmpty /\ events = {})

=============================================================================
