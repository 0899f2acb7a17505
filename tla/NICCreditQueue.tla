--------------------------- MODULE NICCreditQueue ---------------------------
(***************************************************************************)
(* The egress queue of a host whose receiver ranks its credits by the      *)
(* length of the path they will take (NICCreditQueue with _rx_hop_prio):   *)
(* shortest path first, oldest first among equals.  Paths change with the  *)
(* slice, so the ranking is rebuilt by the first selection in a new slice. *)
(*                                                                         *)
(* The packet map _rx_credit_priorities is the rank fields of the queued   *)
(* credits; the ordered set _rx_credit_order is a variable of its own, and *)
(* the code has to keep the two in step.                                   *)
(***************************************************************************)
EXTENDS CreditLink, Slices, PacketLists, SequencesExt

CONSTANTS
  Dsts,         \* destinations of this host's packets
  SameRack,     \* those behind the same ToR
  PathHops,     \* get_no_hops of every path to a destination in a slice
  CreditKinds,  \* credits that arrive, and
  DataKinds     \* other packets that arrive, but for their destination

ASSUME NICAssumption ==
  /\ Dsts # {} /\ SameRack \subseteq Dsts
  /\ PathHops \in [Dsts \ SameRack -> [0..(NSlices - 1) -> Seq(Nat \ {0})]]
  /\ \A d \in Dsts \ SameRack, s \in 0..(NSlices - 1) : PathHops[d][s] # <<>>
  /\ CreditKinds \subseteq Credits /\ DataKinds \subseteq DataPkts
  \* From one selection to the next a slice does not end and come round again:
  \* then its number would not tell that the ranks are stale.
  /\ \A wait \in DataSizes \cup {CredSize, Spacing}, k \in 0..2 :
       wait + SliceTime[k] <= CycleTime

VARIABLES
  order,      \* _rx_credit_order: the credits ranked, as <<hops, sequence>>
  inService,  \* _rx_credit_in_service, as its sequence number; 0 if none
  lastSlice,  \* _last_priority_slice
  nextSeq,    \* _next_rx_enqueue_sequence, from 1
  route       \* the label-switching state put on the last packet sent

nicVars == <<order, inService, lastSlice, nextSeq, route>>
allVars == <<vars, nicVars>>

NoSlice == -1

\* Within the rack a packet takes the downlink at once and needs no path.
NoRoute(dst) == [slice |-> NoSlice, dst |-> dst, path |-> 0, hops |-> 0]

NICInit ==
  /\ Init
  /\ order = {} /\ inService = 0 /\ lastSlice = NoSlice /\ nextSeq = 1
  /\ route = NoRoute(CHOOSE d \in Dsts : TRUE)

CurSlice == TimeToSlice(now)

-----------------------------------------------------------------------------
(* Paths and ranks *)

\* The path indices and get_no_hops; path 1 of 0 hops within the rack.
Paths(dst, slice) == IF dst \in SameRack THEN {1} ELSE DOMAIN PathHops[dst][slice]
HopCount(dst, slice, path) == IF dst \in SameRack THEN 0 ELSE PathHops[dst][slice][path]

\* setRxCreditPriority, with the path that fast_rand() chose.
Ranked(c, slice, path) ==
  [c EXCEPT !.slice = slice, !.path = path, !.hops = HopCount(c.dst, slice, path)]

Unranked(dst) ==
  [seq |-> nextSeq, dst |-> dst, expiry |-> now + CredTimeout,
   slice |-> NoSlice, path |-> 1, hops |-> 0]

\* trackRxCredit: a new credit is ranked at once only if the ranking is that
\* of the current slice; otherwise the next selection ranks it.
Tracked(dst) ==
  IF CurSlice = lastSlice
  THEN {Ranked(Unranked(dst), CurSlice, path) : path \in Paths(dst, CurSlice)}
  ELSE {Unranked(dst)}

Key(c) == <<c.hops, c.seq>>
KeysOf(cs) == {Key(c) : c \in {d \in cs : d.slice # NoSlice}}

\* RxCreditPriorityLess
Before(a, b) == a[1] < b[1] \/ (a[1] = b[1] /\ a[2] < b[2])

\* Mutant: the oldest credit, whatever its path.
Oldest(ord) == {k \in ord : \A other \in ord : k[2] <= other[2]}

\* The beginning of the ordered set (none if it is empty).
First(ord) == {k \in ord : \A other \in ord \ {k} : Before(k, other)}

\* rebuildRxCreditPriorities: every outcome of ranking the credits cq anew.
Rebuilt(cq) ==
  LET choices == {f \in [DOMAIN cq -> UNION {Paths(d, CurSlice) : d \in Dsts}] :
                    \A i \in DOMAIN cq : f[i] \in Paths(cq[i].dst, CurSlice)}
  IN {[i \in DOMAIN cq |-> Ranked(cq[i], CurSlice, f[i])] : f \in choices}

-----------------------------------------------------------------------------
(* beginService, on the credits cq ranked by ord *)

NICExpired(c) == now + CredSize > c.expiry

\* Mutant: expired credits stay in the order.
SelectAmongExpired(cq, ord) ==
  LET fresh == Kept(cq, {c \in ToSet(cq) : ~ NICExpired(c)})
  IN IF CurSlice = lastSlice
     THEN {[queue |-> fresh, order |-> ord]}
     ELSE {[queue |-> q, order |-> KeysOf(ToSet(q))] : q \in Rebuilt(fresh)}

\* dropExpiredRxCredits and the rest of selectRxCredit: the credits left and
\* their order.  Credits of an older slice are ranked anew.
Select(cq, ord) ==
  LET fresh == Kept(cq, {c \in ToSet(cq) : ~ NICExpired(c)})
      gone  == {c \in ToSet(cq) : NICExpired(c)}
  IN IF CurSlice = lastSlice
     THEN {[queue |-> fresh, order |-> ord \ KeysOf(gone)]}
     ELSE {[queue |-> q, order |-> KeysOf(ToSet(q))] : q \in Rebuilt(fresh)}

NICBeginService(dq, cq, ord, evs, st) ==
  \E sel \in Select(cq, ord) :
    LET ready == Tokens > 0
        found == sel.order # {}
    IN /\ credQ' = sel.queue
       /\ dataQ' = dq
       /\ lastSlice' = CurSlice
       /\ creds' = [st EXCEPT !.timeout = @ + (Len(cq) - Len(sel.queue))]
       /\ availCred' = TokensLeft
       /\ lastCredT' = TokenTime
       /\ \/ /\ ready /\ found /\ SendCredit(evs)
             /\ \E k \in First(sel.order) :
                  order' = sel.order \ {k} /\ inService' = k[2]
          \/ /\ \/ ~ (ready /\ found) /\ dq # <<>> /\ SendData(Head(dq), evs)
                \/ ~ ready /\ found /\ dq = <<>> /\ AwaitToken(evs)
                \/ ~ found /\ dq = <<>> /\ NothingToSend(evs)
             /\ order' = sel.order /\ inService' = 0

-----------------------------------------------------------------------------
(* receivePacket *)

NICCreditAdmitted(c, dst) ==
  /\ ~ Overflows /\ ~ RefusedAsTent(c)
  /\ IsShaped(c) => ProbHops[c.hops] \in {"sometimes", "always"}
  /\ nextSeq' = nextSeq + 1
  /\ \E entry \in Tracked(dst) :
       LET cq  == Append(credQ, entry)
           ord == order \cup KeysOf({entry})
           st  == [creds EXCEPT !.tot = @ + 1]
       IN IF IsEmpty
          THEN NICBeginService(dataQ, cq, ord, events, st)
          ELSE /\ credQ' = cq /\ order' = ord /\ creds' = st
               /\ UpdateAvailCredit
               /\ UNCHANGED <<dataQ, serviceVars, inService, lastSlice>>
  /\ UNCHANGED <<now, queueSize, datas, aborted, route>>

NICReceiveCredit(c, dst) ==
  /\ creds.tot < MaxCredits /\ now <= ArrivalWindow
  /\ \/ (CreditOverflow(c) \/ CreditTentative(c) \/ CreditShaped(c)) /\ UNCHANGED nicVars
     \/ NICCreditAdmitted(c, dst)

\* ts is credit_ts: the slice of the credit that triggered a Flare packet,
\* NoSlice for a packet that no credit or no Flare credit triggered.
NICDataAdmitted(p, dst, ts) ==
  /\ ~ NoRoom(p) /\ ~ IsAeolus(p)
  /\ queueSize' = queueSize + p.size
  /\ datas' = [datas EXCEPT !.tot = @ + 1]
  /\ LET dq == Append(dataQ, [type |-> p.type, size |-> p.size, dst |-> dst, ts |-> ts])
     IN IF IsEmpty
        THEN NICBeginService(dq, credQ, order, events, creds)
        ELSE /\ dataQ' = dq
             /\ UpdateAvailCredit
             /\ UNCHANGED <<credQ, serviceVars, creds, order, inService, lastSlice>>
  /\ UNCHANGED <<now, aborted, nextSeq, route>>

\* The slices that last for some time, so that a credit can be of them.
RealSlices == {s \in 0..(NSlices - 1) : SliceTime[s % 3] > 0}

NICReceiveData(p, dst, ts) ==
  /\ datas.tot < MaxData /\ now <= ArrivalWindow
  /\ ts # NoSlice => p.type = "XPDATA"
  /\ \/ (DataOverflow(p) \/ DataUnscheduled(p)) /\ UNCHANGED nicVars
     \/ NICDataAdmitted(p, dst, ts)

-----------------------------------------------------------------------------
(* completeService *)

\* Mutant: the packet is stamped with the present slice, whatever the slice of
\* its path.
SetRouteNow(dst, slice, paths) ==
  IF dst \in SameRack THEN route' = NoRoute(dst)
  ELSE \E path \in paths :
         route' = [slice |-> CurSlice, dst |-> dst, path |-> path,
                   hops |-> HopCount(dst, slice, path)]

\* The path is chosen when the packet leaves.  Credits keep the path they
\* were ranked by if the slice is still the same.
SetRoute(dst, slice, paths) ==
  IF dst \in SameRack THEN route' = NoRoute(dst)
  ELSE \E path \in paths :
         route' = [slice |-> slice, dst |-> dst, path |-> path,
                   hops |-> HopCount(dst, slice, path)]

SentCredit == CHOOSE c \in ToSet(credQ) : c.seq = inService

NICCompleteCredit(evs) ==
  LET c  == SentCredit
      cq == Kept(credQ, ToSet(credQ) \ {c})
      st == [creds EXCEPT !.tx = @ + 1]
  IN /\ txNext = "CRED"
     /\ SetRoute(c.dst, CurSlice, IF c.slice = CurSlice THEN {c.path} ELSE Paths(c.dst, CurSlice))
     /\ UNCHANGED <<queueSize, datas>>
     /\ IF dataQ = <<>> /\ cq = <<>>
        THEN /\ credQ' = cq /\ creds' = st /\ inService' = 0
             /\ NothingToSend(evs)
             /\ UNCHANGED <<dataQ, clockVars, order, lastSlice>>
        ELSE NICBeginService(dataQ, cq, order, evs, st)

NICCompleteData(evs) ==
  LET p  == Head(dataQ)
      dq == Tail(dataQ)
      slice == IF p.ts # NoSlice THEN p.ts ELSE CurSlice
  IN /\ txNext # "CRED"
     /\ SetRoute(p.dst, slice, Paths(p.dst, slice))
     /\ queueSize' = queueSize - p.size
     /\ datas' = [datas EXCEPT !.tx = @ + 1]
     /\ IF dq = <<>> /\ credQ = <<>>
        THEN /\ dataQ' = dq
             /\ NothingToSend(evs)
             /\ UNCHANGED <<credQ, creds, clockVars, order, inService, lastSlice>>
        ELSE NICBeginService(dq, credQ, order, evs, creds)

NICTxDone(e) ==
  /\ e.at = now /\ now = nextSchedTx
  /\ NICCompleteCredit(events \ {e}) \/ NICCompleteData(events \ {e})
  /\ UNCHANGED <<now, aborted, nextSeq>>

NICCreditTimer(e) ==
  /\ e.at = now /\ now # nextSchedTx
  /\ IF timerPending /\ txNext = "NONE"
     THEN NICBeginService(dataQ, credQ, order, events \ {e}, creds)
     ELSE /\ events' = events \ {e}
          /\ UNCHANGED <<dataQ, credQ, creds, clockVars, nextSchedTx, txNext, nextPrio,
                         timerPending, order, inService, lastSlice>>
  /\ UNCHANGED <<now, queueSize, datas, aborted, nextSeq, route>>

NICNext ==
  \/ \E c \in CreditKinds, dst \in Dsts : NICReceiveCredit(c, dst)
  \/ \E p \in DataKinds, dst \in Dsts, ts \in {NoSlice} \cup RealSlices :
       NICReceiveData(p, dst, ts)
  \/ \E e \in events : NICTxDone(e)
  \/ \E e \in events : NICCreditTimer(e)
  \/ Tick /\ UNCHANGED nicVars
  \/ Quiet /\ UNCHANGED nicVars

NICSpec == NICInit /\ [][NICNext]_allVars

\* The simulator always runs the next event of its event list.
NICDoNextEvent == \E e \in events : NICTxDone(e) \/ NICCreditTimer(e)
NICFairSpec == NICSpec /\ WF_allVars(NICDoNextEvent) /\ WF_allVars(Tick /\ UNCHANGED nicVars)

-----------------------------------------------------------------------------
(* Properties *)

\* Every variable has the type the code declares for it.
NICTypeOK ==
  LET slices == -1..(NSlices - 1)
  IN /\ now \in Nat /\ queueSize \in Nat
     /\ dataQ \in Seq([type : {"XPDATA", "UNSCHED", "XPCTL"}, size : DataSizes,
                       dst : Dsts, ts : slices])
     /\ credQ \in Seq([seq : Nat, dst : Dsts, expiry : Nat,
                       slice : slices, path : Nat, hops : Nat])
     /\ order \subseteq Nat \X Nat /\ inService \in Nat /\ nextSeq \in Nat
     /\ lastSlice \in slices
     /\ route \in [slice : slices, dst : Dsts, path : Nat, hops : Nat]

\* The assertions of eraseRxCredit and beginService: the ordered set and the
\* queue agree.  Each ranked credit is in the order exactly once, under its
\* current rank, and the credit being sent is queued but can neither be
\* chosen again nor be overtaken.
OrderMatchesQueue ==
  /\ order = KeysOf({c \in ToSet(credQ) : c.seq # inService})
  /\ \A i, j \in DOMAIN credQ : credQ[i].seq = credQ[j].seq => i = j
  /\ (txNext = "CRED") = (\E c \in ToSet(credQ) : c.seq = inService)

\* No stale rank: the ranks in force are lengths of paths of one slice, the
\* one of the last selection, and only credits that came after the slice
\* ended are still without a rank.
RanksOfOneSlice ==
  \A c \in ToSet(credQ) :
    IF c.slice = NoSlice THEN TimeToSlice(c.expiry - CredTimeout) # lastSlice
    ELSE /\ c.seq # inService => c.slice = lastSlice
         /\ c.hops = HopCount(c.dst, c.slice, c.path)

\* The safety invariant of the ranking: types, the order and the queue agree,
\* and no rank is stale.
NICInv == NICTypeOK /\ OrderMatchesQueue /\ RanksOfOneSlice

\* When a credit is started no credit waits whose path, in the present
\* slice, is shorter, nor an older one of the same length, nor an expired one.
ShortestFirst ==
  [][inService' # 0 /\ inService' # inService =>
       \A c, d \in ToSet(credQ') :
         c.seq = inService' =>
           /\ d.slice = CurSlice /\ ~ NICExpired(d)
           /\ d # c => Before(Key(c), Key(d))]_allVars

\* Every packet leaves with a path that exists in the slice it is stamped
\* with, even if the slice changed while it was sent.
RouteExists ==
  route.path # 0 => /\ route.path \in Paths(route.dst, route.slice)
                    /\ route.hops = HopCount(route.dst, route.slice, route.path)

=============================================================================
