----------------------------- MODULE RlbMaster ------------------------------
(***************************************************************************)
(* The matching of RotorLB: what the hosts of a rack may send to the hosts *)
(* of the rack their rotor switch connects them to in a new slot.          *)
(*                                                                         *)
(* First the packets of other hosts that have reached their second hop,    *)
(* then the hosts' own packets for that rack, shared fairly over senders   *)
(* and receivers, then proposals: packets for other racks that may take    *)
(* their first hop.  Every receiver accepts some of the proposals.  All    *)
(* rates are numbers of packets in a slot.  A rack sends to one rack and   *)
(* receives from one, so one pair of racks is all of it: what receivers    *)
(* have queued already is an input.  Remainders are given at random.       *)
(***************************************************************************)
EXTENDS Integers, Sequences, FiniteSetsExt, SequencesExt, Functions

CONSTANTS
  Hpr,           \* _hpr, hosts of a rack
  Others,        \* hosts of other racks
  SlotPkts,      \* _max_pkts
  NonlocalSizes, LocalSizes, OtherSizes, QueuedSizes, \* lengths of queues
  MaxIter        \* maxiter

ASSUME MasterAssumption ==
  /\ {Hpr, SlotPkts, MaxIter} \subseteq Nat \ {0} /\ Others # {} /\ IsFiniteSet(Others)
  /\ UNION {NonlocalSizes, LocalSizes, OtherSizes, QueuedSizes} \subseteq Nat

Hosts == 1..Hpr   \* of the sending rack, and of the receiving rack

VARIABLES
  nonlocal,   \* _working_queue_sizes[src][0][dst]
  local,      \* _working_queue_sizes[src][1][dst]
  toOthers,   \* _working_queue_sizes[src][1][other]
  queued,     \* packets for others at a destination, in both queues
  capSend,    \* _link_caps_send
  capRecv,    \* _link_caps_recv
  granted,    \* the hosts' own packets granted, by sender and receiver
  proposals,  \* _proposals
  accepts,    \* _accepts, by receiver
  phase,      \* the step that is next
  receiver,   \* the receiver that accepts
  share       \* the loop of fairshare2d: input, sent, iter

inputs == <<nonlocal, local, toOthers, queued>>
masterVars == <<inputs, capSend, capRecv, granted, proposals, accepts, phase, receiver, share>>

Sum(f) == FoldFunction(LAMBDA a, b : a + b, 0, f)
RowSum(f, i) == Sum(f[i])
ColSum(f, j) == Sum([i \in DOMAIN f |-> f[i][j]])
Total(f) == Sum([i \in DOMAIN f |-> Sum(f[i])])
LesserOf(a, b) == IF a <= b THEN a ELSE b
Zero(R, C) == [i \in R |-> [j \in C |-> 0]]
Matrices(R, C, S) == [R -> [C -> S]]

-----------------------------------------------------------------------------
(* fairshare1d *)

Wanting(input) == {i \in DOMAIN input : input[i] > 0}

\* One round: each element that wants packets is served the same number; what
\* an element does not need goes to the next round, if there is one.
Round(s) ==
  IF s.done \/ Wanting(s.input) = {} THEN s
  ELSE LET n == Cardinality(Wanting(s.input))
           f == s.cap \div n
           over == {i \in Wanting(s.input) : s.input[i] < f}
       IN [input |-> [i \in DOMAIN s.input |->
                        IF i \in Wanting(s.input) /\ i \notin over THEN s.input[i] - f ELSE 0],
           cap |-> s.cap - f * n + Sum([i \in over |-> f - s.input[i]]),
           done |-> over = {}]

Rounds(input, cap) ==
  FoldLeft(LAMBDA s, i : Round(s), [input |-> input, cap |-> cap, done |-> FALSE],
           [i \in 1..(Cardinality(DOMAIN input) + 1) |-> i])

\* The shares fairshare1d may return for a capacity.
\* Mutant: the remainder is not given.
SharesWithoutRest(input, cap) ==
  {[i \in DOMAIN input |-> input[i] - Rounds(input, cap).input[i]]}

Shares(input, cap) ==
  LET r == Rounds(input, cap)
      extra == LesserOf(r.cap, Sum(r.input))
      given == {g \in [DOMAIN input -> 0..extra] :
                  Sum(g) = extra /\ \A i \in DOMAIN input : g[i] <= r.input[i]}
  IN {[i \in DOMAIN input |-> input[i] - r.input[i] + g[i]] : g \in given}

\* Functions that take each value from the set f has for it.
Selections(f) ==
  {g \in [DOMAIN f -> UNION Range(f)] : \A i \in DOMAIN f : g[i] \in f[i]}

\* Columns are cut to their capacity: the second sweep of the loops.
ColumnShares(sent0, sent, cap1) ==
  LET R == DOMAIN sent  C == DOMAIN cap1
      columns == Selections([j \in C |-> Shares([i \in R |-> sent0[i][j]], cap1[j] - ColSum(sent, j))])
  IN {[i \in R |-> [j \in C |-> c[j][i]]] : c \in columns}

\* One iteration of fairshare2d: rows are cut to their capacity, then columns.
Sweep2D(cap0, cap1) ==
  LET R == DOMAIN cap0  C == DOMAIN cap1 IN
  \E rows \in Selections([i \in R |-> Shares(share.input[i], cap0[i] - RowSum(share.sent, i))]) :
  \E sent0 \in ColumnShares(rows, share.sent, cap1) :
    LET sent == [i \in R |-> [j \in C |-> share.sent[i][j] + sent0[i][j]]]
        open(i, j) == RowSum(sent, i) < cap0[i] /\ ColSum(sent, j) < cap1[j]
    IN share' = [input |-> [i \in R |-> [j \in C |-> IF open(i, j) THEN share.input[i][j] - sent0[i][j] ELSE 0]],
                 sent |-> sent, iter |-> share.iter + 1]

\* One iteration of fairshare2d_2: all elements share cap0, then the columns.
Sweep2D2(cap0, cap1) ==
  LET R == DOMAIN share.input  C == DOMAIN cap1 IN
  \E all \in Shares([p \in R \X C |-> share.input[p[1]][p[2]]], cap0 - Total(share.sent)) :
  \E sent0 \in ColumnShares([i \in R |-> [j \in C |-> all[<<i, j>>]]], share.sent, cap1) :
    LET sent == [i \in R |-> [j \in C |-> share.sent[i][j] + sent0[i][j]]]
        open(j) == Total(sent) < cap0 /\ ColSum(sent, j) < cap1[j]
    IN share' = [input |-> [i \in R |-> [j \in C |-> IF open(j) THEN share.input[i][j] - sent0[i][j] ELSE 0]],
                 sent |-> sent, iter |-> share.iter + 1]

Wanted == Total(share.input) > 0 /\ share.iter < MaxIter
StartShare(input) ==
  share' = [input |-> input, sent |-> Zero(DOMAIN input, DOMAIN input[1]),
            iter |-> 0]

-----------------------------------------------------------------------------
(* newMatching *)

NoShare == [input |-> <<>>, sent |-> <<>>, iter |-> 0]

MasterInit ==
  /\ nonlocal \in Matrices(Hosts, Hosts, NonlocalSizes)
  /\ local \in Matrices(Hosts, Hosts, LocalSizes)
  /\ toOthers \in Matrices(Hosts, Others, OtherSizes)
  /\ queued \in Matrices(Hosts, Others, QueuedSizes)
  /\ capSend = [i \in Hosts |-> SlotPkts] /\ capRecv = [j \in Hosts |-> SlotPkts]
  /\ granted = Zero(Hosts, Hosts) /\ proposals = Zero(Hosts, Others)
  /\ accepts = [j \in Hosts |-> Zero(Hosts, Others)]
  /\ phase = "second hop" /\ receiver = 0 /\ share = NoShare

\* phase1, step 1: an equal part of the link for each second hop.
\* Mutant: the whole link for each.
SafePktsAll == SlotPkts

SafePkts == SlotPkts \div Hpr

SecondHopPkts(i, j) == LesserOf(nonlocal[i][j], SafePkts)

SecondHop ==
  LET sent == [i \in Hosts |-> [j \in Hosts |-> SecondHopPkts(i, j)]] IN
  /\ phase = "second hop" /\ phase' = "direct"
  /\ capSend' = [i \in Hosts |-> capSend[i] - RowSum(sent, i)]
  /\ capRecv' = [j \in Hosts |-> capRecv[j] - ColSum(sent, j)]
  /\ StartShare(local)
  /\ UNCHANGED <<inputs, granted, proposals, accepts, receiver>>

\* phase1, step 2: fairshare2d.
Direct ==
  /\ phase = "direct" /\ Wanted
  /\ Sweep2D(capSend, capRecv)
  /\ UNCHANGED <<inputs, capSend, capRecv, granted, proposals, accepts, phase, receiver>>

\* The end of step 2, and step 3.
Propose ==
  /\ phase = "direct" /\ ~ Wanted /\ phase' = "accept" /\ receiver' = 1
  /\ granted' = share.sent
  /\ capSend' = [i \in Hosts |-> capSend[i] - RowSum(share.sent, i)]
  /\ capRecv' = [j \in Hosts |-> capRecv[j] - ColSum(share.sent, j)]
  /\ proposals' \in Selections([i \in Hosts |-> Shares(toOthers[i], capSend'[i])])
  /\ StartShare(proposals')
  /\ UNCHANGED <<inputs, accepts>>

\* phase2 for receiver j, which has room for some packets of each destination.
\* Mutant: what is queued already is not counted.
RoomWhenEmpty(j) == [k \in Others |-> (2 * SlotPkts) \div Hpr]

Room(j) ==
  [k \in Others |-> LET free == (2 * SlotPkts) \div Hpr - queued[j][k]
                    IN IF free < 0 THEN 0 ELSE free]

Accept(j) ==
  /\ phase = "accept" /\ receiver = j /\ Wanted
  /\ Sweep2D2(capRecv[j], Room(j))
  /\ UNCHANGED <<inputs, capSend, capRecv, granted, proposals, accepts, phase, receiver>>

\* The receivers do so one after the other.
EndAccept(j) ==
  /\ phase = "accept" /\ receiver = j /\ ~ Wanted
  /\ accepts' = [accepts EXCEPT ![j] = share.sent]
  /\ receiver' = j + 1
  /\ IF j < Hpr THEN StartShare(proposals) /\ UNCHANGED phase
     ELSE phase' = "done" /\ share' = NoShare
  /\ UNCHANGED <<inputs, capSend, capRecv, granted, proposals>>

MasterNext ==
  \/ SecondHop \/ Direct \/ Propose
  \/ \E j \in Hosts : Accept(j) \/ EndAccept(j)

MasterSpec == MasterInit /\ [][MasterNext]_masterVars

-----------------------------------------------------------------------------

\* Phase 1 never grants more than a link carries in the slot, nor more than
\* there is: what a sender still proposes fits what is left.
LinksNotOverrun ==
  \A h \in Hosts :
    /\ capSend[h] \in 0..SlotPkts /\ capRecv[h] \in 0..SlotPkts
    /\ Sum(proposals[h]) <= capSend[h]
    /\ \A g \in Hosts : granted[h][g] <= local[h][g]

\* What a receiver accepts fits its link and its room for each destination.
ReceiversNotOverrun ==
  \A j \in Hosts :
    /\ Total(accepts[j]) <= capRecv[j]
    /\ \A k \in Others :
         LET n == ColSum(accepts[j], k)
         IN n > 0 => (n + queued[j][k]) * Hpr <= 2 * SlotPkts
    /\ \A i \in Hosts, k \in Others : accepts[j][i][k] <= proposals[i][k]

\* No packet is left at a sender with room on its link for a receiver with
\* room: maxiter is enough for this size of racks.
NothingLeftOver ==
  phase = "accept" => \A i, j \in Hosts :
    capSend[i] = 0 \/ capRecv[j] = 0 \/ granted[i][j] = local[i][j]

=============================================================================
