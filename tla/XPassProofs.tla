----------------------------- MODULE XPassProofs -----------------------------
(***************************************************************************)
(* Theorems about ExpressPass in both simulators (MCXPass), for every set  *)
(* of flow sizes, every packet size and every first window.                *)
(*                                                                         *)
(* The inductive invariant, IInv, rests on one idea: any two blocks of the *)
(* flow that exist anywhere (in the network, in the sink's list, or in the *)
(* first window, from which retransmissions are made) are the same block   *)
(* or have no byte in common, and the cumulative ack never falls inside    *)
(* one (Framed).                                                           *)
(***************************************************************************)
EXTENDS MCXPass, PacketListFacts

End(b) == b.seq + b.size - 1

Apart(a, b) ==
  \/ a.seq = b.seq /\ a.size = b.size
  \/ End(a) < b.seq
  \/ End(b) < a.seq

Blocks == net \cup {received[i] : i \in DOMAIN received}
Frame  == IF clos THEN {} ELSE Window

\* The blocks above the hole are in order; the first is not the next one.
Sorted ==
  /\ \A i \in DOMAIN received : received[i].seq > cumAck + 1
  /\ \A i, j \in DOMAIN received : i < j => End(received[i]) < received[j].seq

Framed ==
  /\ \A a \in Blocks : a.seq > 0 /\ a.size > 0 /\ End(a) <= highestSent
  /\ \A a, b \in Blocks \cup Frame : Apart(a, b)
  /\ \A a \in Blocks \cup Frame : cumAck < a.seq \/ End(a) <= cumAck
  /\ cumAck <= highestSent

\* No more than what a sink of the flow's first and last packets may know.
LastPackets ==
  /\ \A p \in net : p.last => End(p) >= flowSize
  /\ lastPacket > 0 => lastPacket >= flowSize

Reported ==
  /\ fcts <= 1
  /\ fcts > 0 => finished

-----------------------------------------------------------------------------
(* Opera *)

\* The last byte of the first window.
WindowEnd == lastUnsched - 1 + LesserOf(PktSize, flowSize - (lastUnsched - 1))

NotStarted ==
  /\ net = {} /\ credits = <<>> /\ ctls = {} /\ rtxQueue = <<>> /\ received = <<>>
  /\ cumAck = 0 /\ lastPacket = 0
  /\ timers = 0 /\ ~isPulling /\ ~isRecovering

Started ==
  /\ \E p \in Window : p.seq = lastUnsched
  /\ \A p \in Window : p.seq <= lastUnsched
  /\ WindowEnd < highestSent

\* Where the packets in the network come from.
Origin ==
  \A p \in net : /\ p.unsched => p \in Window
                 /\ p.ackreq => p = AckRequest(WindowEnd)

Retransmits ==
  /\ RetransmitsWindow
  /\ \A i \in DOMAIN rtxQueue : ~rtxQueue[i].unsched /\ ~rtxQueue[i].ackreq

\* The acks that come back are those of whole packets of the window.
Acks ==
  \A ack \in ctls : /\ ack <= cumAck
                    /\ ack < lastUnsched => ack % PktSize = 0
                    /\ ack >= lastUnsched => ack >= WindowEnd

Loop ==
  /\ OneCreditLoop
  /\ isPulling => flowSize > InitCwnd
  /\ ~isPulling /\ (timers > 0 \/ isRecovering) =>
       flowSize <= InitCwnd /\ \A p \in net : ~p.ackreq

\* Nothing above the window is sent twice; in the window, what an unscheduled
\* packet carries is not counted as under way.
Carried(b) == \E p \in net : ~p.unsched /\ b \in Bytes(p)
Accounted ==
  \A b \in 1..flowSize :
    \/ b \in Arrived \/ b > highestSent \/ Carried(b) \/ finished
    \/ /\ b <= WindowEnd
       /\ \/ \E p \in net : p.ackreq
          \/ \E i \in DOMAIN rtxQueue : b \in Bytes(rtxQueue[i])
          \/ \E ack \in ctls : b > ack
          \/ ctlLost \/ highestSent = 0

OperaInv ==
  /\ highestSent = 0 => NotStarted
  /\ highestSent > 0 => Started
  /\ Origin /\ Retransmits /\ Acks /\ Loop /\ Accounted

-----------------------------------------------------------------------------
(* Clos *)

\* Nothing is sent twice: what is in the network has not arrived.
ClosPackets ==
  \A p \in net : /\ p = WholePacket(p.seq - 1)
                 /\ cumAck < p.seq
                 /\ \A i \in DOMAIN received : received[i].seq # p.seq
                 /\ p.last => End(p) = highestSent

ClosInv ==
  /\ rtxQueue = <<>> /\ ctls = {} /\ ~isRecovering
  /\ highestSent = 0 => net = {}
  /\ ClosPackets
  /\ lastPacket > 0 => lastPacket = highestSent
  /\ fcts > 0 <=> finished
  /\ finished => net = {} /\ highestSent >= flowSize
  /\ OneCreditLoop
  /\ ~isPulling => timers = 0
  /\ ClosNothingLost

IInv ==
  /\ TypeOK /\ clos \in BOOLEAN /\ dataLost \in BOOLEAN
  /\ Sorted /\ Framed /\ LastPackets /\ Reported
  /\ ~clos => OperaInv
  /\ clos => ClosInv

-----------------------------------------------------------------------------
(* Reassembly *)

Block == [seq : Nat, size : Nat]
BlockList == Seq(Block)

\* The merging stops at the first block that does not follow on, or at the end.
LEMMA MergedProperties ==
  ASSUME NEW list \in BlockList, NEW c \in Nat
  PROVE  /\ Merged(list, c) \in 0..Len(list)
         /\ \A i \in 1..Merged(list, c) : Follows(list, c, i)
         /\ Merged(list, c) < Len(list) => ~ Follows(list, c, Merged(list, c) + 1)
<1> DEFINE Good == {i \in 1..Len(list) : Follows(list, c, i)}
<1>1. Len(list) \in Nat  BY DEF BlockList
<1>2. PICK k \in 0..Len(list) : StopsAt(k, Len(list), Good)
  BY <1>1, SearchEnds
<1>3. /\ \A i \in 1..k : Follows(list, c, i)
      /\ k < Len(list) => ~ Follows(list, c, k + 1)
  BY <1>1, <1>2 DEF StopsAt
<1>4. QED  BY <1>3 DEF Merged

\* Every byte that the merging acknowledges is in a block it merged.
LEMMA MergedBytes ==
  ASSUME NEW list \in BlockList, NEW c \in Nat, NEW k \in 1..Len(list),
         \A i \in 1..k : Follows(list, c, i),
         NEW b \in (c + 1)..End(list[k])
  PROVE  \E i \in 1..k : b \in Bytes(list[i])
<1> DEFINE T == {i \in 1..k : b <= End(list[i])}
<1>1. \A i \in 1..k : list[i] \in Block
  BY ElementOfSeq DEF BlockList
<1>2. T \in SUBSET Nat /\ k \in T  OBVIOUS
<1>3. PICK i \in T : \A j \in T : i <= j  BY <1>2, LeastElement
<1>4. i \in 1..k /\ b <= End(list[i]) /\ Follows(list, c, i)  OBVIOUS
<1>5. list[i].seq <= b
  <2>1. CASE i = 1  BY <1>4, <2>1 DEF Follows
  <2>2. CASE i # 1
    <3>1. i - 1 \in 1..k /\ ~ (i <= i - 1)  BY <1>4, <2>2
    <3>2. ~ (b <= End(list[i - 1]))  BY <1>3, <3>1
    <3>3. list[i].seq = list[i - 1].seq + list[i - 1].size
      BY <1>4, <2>2 DEF Follows
    <3>4. QED  BY <1>1, <3>1, <3>2, <3>3 DEF End, Block
  <2>3. QED  BY <2>1, <2>2
<1>6. QED  BY <1>1, <1>4, <1>5 DEF Bytes, End, Block

\* A block that is not in the list is put between those below and above it.
LEMMA InsertProperties ==
  ASSUME NEW list \in BlockList, NEW b \in Block
  PROVE  \/ /\ \E i \in DOMAIN list : list[i].seq = b.seq
            /\ Insert(list, b) = list
         \/ \E k \in 1..(Len(list) + 1) :
              /\ \A i \in 1..(k - 1) : list[i].seq < b.seq
              /\ k <= Len(list) => b.seq < list[k].seq
              /\ Insert(list, b) = InsertAt(list, k, b)
<1> DEFINE Good == {i \in 1..Len(list) : list[i].seq < b.seq}
           Place(k) == /\ \A i \in 1..(k - 1) : list[i].seq < b.seq
                       /\ k <= Len(list) => b.seq <= list[k].seq
           place == CHOOSE k \in 1..(Len(list) + 1) : Place(k)
<1>1. Len(list) \in Nat /\ \A i \in 1..Len(list) : list[i] \in Block
  BY ElementOfSeq DEF BlockList
<1>2. PICK m \in 0..Len(list) : StopsAt(m, Len(list), Good)
  BY <1>1, SearchEnds
<1>3. m + 1 \in 1..(Len(list) + 1) /\ Place(m + 1)
  BY <1>1, <1>2 DEF StopsAt, Block
<1>4. place \in 1..(Len(list) + 1) /\ Place(place)
  <2> HIDE DEF Place
  <2>1. QED  BY <1>3
<1>5. Insert(list, b) = IF place <= Len(list) /\ list[place].seq = b.seq
                        THEN list ELSE InsertAt(list, place, b)
  BY DEF Insert
<1> HIDE DEF place
<1>6. CASE place <= Len(list) /\ list[place].seq = b.seq
  <2>1. place \in DOMAIN list  BY <1>1, <1>4, <1>6 DEF BlockList
  <2>2. QED  BY <1>5, <1>6, <2>1
<1>7. CASE ~ (place <= Len(list) /\ list[place].seq = b.seq)
  <2>1. place <= Len(list) => b.seq < list[place].seq
    BY <1>1, <1>4, <1>7 DEF Block
  <2>2. QED  BY <1>4, <1>5, <1>7, <2>1
<1>8. QED  BY <1>6, <1>7

Longer(new, list, k, b) ==
  /\ Len(new) = Len(list) + 1
  /\ \A i \in 1..(k - 1) : new[i] = list[i]
  /\ new[k] = b
  /\ \A i \in (k + 1)..(Len(list) + 1) : new[i] = list[i - 1]

\* Inserting at a place keeps a sequence of the same elements: what was there,
\* one place further on from the place of the new one.
LEMMA InsertAtProperties ==
  ASSUME NEW S, NEW list \in Seq(S), NEW b \in S, NEW k \in 1..(Len(list) + 1)
  PROVE  /\ InsertAt(list, k, b) \in Seq(S)
         /\ Longer(InsertAt(list, k, b), list, k, b)
<1> DEFINE front == SubSeq(list, 1, k - 1)
           back  == SubSeq(list, k, Len(list))
           head  == front \o <<b>>
<1>1. Len(list) \in Nat /\ \A i \in 1..Len(list) : list[i] \in S  OBVIOUS
<1>2. /\ front \in Seq(S) /\ Len(front) = k - 1
      /\ \A i \in 1..(k - 1) : front[i] = list[i]
  <2>1. \A i \in 1..(k - 1) : list[i] \in S  BY <1>1
  <2>2. QED  BY <1>1, <2>1, SubSeqProperties
<1>3. /\ back \in Seq(S) /\ Len(back) = Len(list) - k + 1
      /\ \A i \in 1..(Len(list) - k + 1) : back[i] = list[k + i - 1]
  <2>1. \A i \in k..Len(list) : list[i] \in S  BY <1>1
  <2>2. QED  BY <1>1, <2>1, SubSeqProperties
<1> HIDE DEF front, back
<1>4. /\ head \in Seq(S) /\ Len(head) = k
      /\ \A i \in 1..k : head[i] = IF i < k THEN list[i] ELSE b
  BY <1>2
<1> HIDE DEF head
<1>5. /\ head \o back \in Seq(S) /\ Len(head \o back) = Len(list) + 1
      /\ \A i \in 1..(Len(list) + 1) :
           (head \o back)[i] = IF i <= k THEN head[i] ELSE back[i - k]
  <2>1. Len(head \o back) = Len(list) + 1
    <3>1. Len(head \o back) = Len(head) + Len(back)  BY <1>3, <1>4, ConcatProperties
    <3>2. QED  BY ONLY <1>1, <1>3, <1>4, <3>1, k \in 1..(Len(list) + 1)
  <2>2. head \o back \in Seq(S)
        /\ \A i \in 1..(Len(list) + 1) :
             (head \o back)[i] = IF i <= Len(head) THEN head[i] ELSE back[i - Len(head)]
    BY <1>3, <1>4, <2>1, ConcatProperties
  <2>3. QED  BY <1>4, <2>1, <2>2
<1>6. ASSUME NEW i \in (k + 1)..(Len(list) + 1)
      PROVE  back[i - k] = list[i - 1]
  <2>1. i - k \in 1..(Len(list) - k + 1) /\ k + (i - k) - 1 = i - 1  BY <1>1
  <2>2. QED  BY <1>3, <2>1
<1>7. InsertAt(list, k, b) = head \o back  BY DEF InsertAt, head, front, back
<1>8. QED  BY <1>1, <1>4, <1>5, <1>6, <1>7 DEF Longer

-----------------------------------------------------------------------------
(* What a packet does to the ack and the list *)

\* Under the types and the frame every block, received or on its way, has a
\* positive first and last byte.
LEMMA BlockFacts ==
  ASSUME TypeOK, Framed
  PROVE  /\ received \in BlockList /\ cumAck \in Nat
         /\ Len(received) \in Nat /\ DOMAIN received = 1..Len(received)
         /\ \A i \in DOMAIN received : received[i] \in Block /\ received[i] \in Blocks
         /\ \A p \in net : p \in Blocks
         /\ \A a \in Blocks : /\ a.seq \in Nat \ {0} /\ a.size \in Nat \ {0}
                              /\ End(a) \in Nat /\ a.seq <= End(a)
<1>1. received \in BlockList /\ cumAck \in Nat  BY DEF TypeOK, BlockList, Block
<1>2. Len(received) \in Nat /\ DOMAIN received = 1..Len(received)
  BY <1>1, LenProperties DEF BlockList
<1>3. \A i \in DOMAIN received : received[i] \in Block /\ received[i] \in Blocks
  BY <1>1, <1>2, ElementOfSeq DEF BlockList, Blocks
<1>4. \A p \in net : p \in Blocks  BY DEF Blocks
<1>5. ASSUME NEW a \in Blocks
      PROVE  /\ a.seq \in Nat \ {0} /\ a.size \in Nat \ {0}
             /\ End(a) \in Nat /\ a.seq <= End(a)
  <2>1. a.seq \in Nat /\ a.size \in Nat
    <3>1. CASE a \in net  BY <3>1 DEF TypeOK, DataPackets
    <3>2. CASE \E i \in DOMAIN received : a = received[i]  BY <3>2, <1>3 DEF Block
    <3>3. QED  BY <3>1, <3>2 DEF Blocks
  <2>2. a.seq > 0 /\ a.size > 0  BY DEF Framed
  <2>3. QED  BY <2>1, <2>2 DEF End
<1>6. QED  BY <1>1, <1>2, <1>3, <1>4, <1>5

\* The list and the ack after p are as ordered as those before it, made of
\* the same blocks and p, and cover the same bytes and those of p.
Accepted(p, ack, rest) ==
  /\ ack \in Nat /\ rest \in BlockList
  /\ cumAck <= ack
  /\ ack = cumAck \/ \E a \in Blocks : ack = End(a)
  /\ \A i \in DOMAIN rest :
       \/ \E j \in DOMAIN received : rest[i] = received[j]
       \/ rest[i].seq = p.seq /\ rest[i].size = p.size
  /\ \A i \in DOMAIN rest : rest[i].seq > ack + 1
  /\ \A i, j \in DOMAIN rest : i < j => End(rest[i]) < rest[j].seq
  /\ \A b \in Bytes(p) \cup Arrived :
       b \in 1..ack \/ \E i \in DOMAIN rest : b \in Bytes(rest[i])
  /\ \A b \in (cumAck + 1)..ack :
       b \in Bytes(p) \/ \E j \in DOMAIN received : b \in Bytes(received[j])

\* A packet below the ack brings nothing new.
LEMMA AcceptOld ==
  ASSUME TypeOK, Sorted, Framed, NEW p \in net, p.seq < cumAck + 1
  PROVE  Accepted(p, cumAck, received)
<1> USE BlockFacts
<1>1. End(p) <= cumAck
  <2>1. cumAck < p.seq \/ End(p) <= cumAck  BY DEF Framed
  <2>2. QED  BY <2>1
<1>2. ASSUME NEW b \in Bytes(p)  PROVE b \in 1..cumAck
  BY <1>1 DEF Bytes, End
<1>3. ASSUME NEW b \in Arrived
      PROVE  b \in 1..cumAck \/ \E i \in DOMAIN received : b \in Bytes(received[i])
  BY DEF Arrived
<1>4. QED  BY <1>2, <1>3 DEF Accepted, Sorted

\* A packet above the next one goes to its place in the list.
LEMMA AcceptAbove ==
  ASSUME TypeOK, Sorted, Framed, NEW p \in net, p.seq > cumAck + 1
  PROVE  Accepted(p, cumAck, Insert(received, [seq |-> p.seq, size |-> p.size]))
<1> DEFINE blk == [seq |-> p.seq, size |-> p.size]
           rest == Insert(received, blk)
<1> USE BlockFacts
<1>0. SUFFICES Accepted(p, cumAck, rest)  OBVIOUS
<1>1. blk \in Block /\ blk.seq = p.seq /\ blk.size = p.size /\ End(blk) = End(p)
      /\ Bytes(blk) = Bytes(p)
  BY DEF Block, End, Bytes
<1>a. rest = Insert(received, blk)  OBVIOUS
<1> HIDE DEF blk, rest
<1>b. p.seq \in Nat /\ End(p) \in Nat /\ blk.seq \in Nat /\ End(blk) \in Nat
      /\ \A i \in DOMAIN received :
           received[i].seq \in Nat /\ received[i].size \in Nat /\ End(received[i]) \in Nat
  BY <1>1
<1>2. \A i \in DOMAIN received : Apart(received[i], p)
  BY DEF Framed
<1>3. CASE rest = received /\ \E i \in DOMAIN received : received[i].seq = blk.seq
  <2>1. PICK i \in DOMAIN received : received[i].seq = p.seq  BY <1>1, <1>3
  <2>2. received[i].size = p.size
    <3>1. Apart(received[i], p)  BY <1>2
    <3>2. /\ p.seq \in Nat /\ End(p) \in Nat /\ p.seq <= End(p)
          /\ End(received[i]) \in Nat /\ received[i].seq <= End(received[i])
      BY <1>b
    <3>3. QED  BY ONLY <2>1, <3>1, <3>2 DEF Apart
  <2>3. Bytes(received[i]) = Bytes(p)  BY <2>1, <2>2 DEF Bytes
  <2>4. \A c \in Arrived : c \in 1..cumAck \/ \E j \in DOMAIN received : c \in Bytes(received[j])
    BY DEF Arrived
  <2>5. \A c \in Bytes(p) \cup Arrived :
          c \in 1..cumAck \/ \E j \in DOMAIN received : c \in Bytes(received[j])
    BY <2>3, <2>4
  <2>6. Accepted(p, cumAck, received)  BY <2>5 DEF Accepted, Sorted
  <2>7. QED  BY <1>3, <2>6
<1>4. ASSUME NEW k \in 1..(Len(received) + 1),
             \A i \in 1..(k - 1) : received[i].seq < blk.seq,
             k <= Len(received) => blk.seq < received[k].seq,
             rest = InsertAt(received, k, blk)
      PROVE  Accepted(p, cumAck, rest)
  <2>1. /\ rest \in BlockList /\ DOMAIN rest = 1..(Len(received) + 1)
        /\ \A i \in 1..(k - 1) : rest[i] = received[i]
        /\ rest[k] = blk
        /\ \A i \in (k + 1)..(Len(received) + 1) : rest[i] = received[i - 1]
    <3>1. received \in Seq(Block)  BY DEF BlockList
    <3>2. rest = InsertAt(received, k, blk) /\ blk \in Block  BY <1>1, <1>4
    <3>3. rest \in Seq(Block) /\ Longer(rest, received, k, blk)
      BY <3>1, <3>2, InsertAtProperties
    <3>4. QED  BY <3>3, LenProperties DEF BlockList, Longer
  <2>2. \A i \in 1..(k - 1) : i \in DOMAIN received /\ End(received[i]) < blk.seq
    <3>1. ASSUME NEW i \in 1..(k - 1)
          PROVE  i \in DOMAIN received /\ End(received[i]) < blk.seq
      <4>1. i \in DOMAIN received /\ received[i].seq < blk.seq  BY <1>4
      <4>2. Apart(received[i], p) /\ End(p) >= p.seq  BY <1>2, <4>1
      <4>3. QED  BY <1>1, <1>b, <4>1, <4>2 DEF Apart
    <3>2. QED  BY <3>1
  <2>3. \A i \in k..Len(received) : i \in DOMAIN received /\ End(blk) < received[i].seq
    <3>1. ASSUME NEW i \in k..Len(received)
          PROVE  i \in DOMAIN received /\ blk.seq < received[i].seq
      <4>1. CASE i = k  BY <1>4, <4>1
      <4>2. CASE i # k
        <5>1. k \in DOMAIN received /\ i \in DOMAIN received /\ k < i  BY <4>2
        <5>2. End(received[k]) < received[i].seq  BY <5>1 DEF Sorted
        <5>3. received[k].seq <= End(received[k]) /\ blk.seq < received[k].seq
          BY <1>4, <5>1
        <5>4. QED  BY <1>1, <5>1, <5>2, <5>3
      <4>3. QED  BY <4>1, <4>2
    <3>2. QED  BY <1>1, <1>2, <3>1, SMTT(30) DEF Apart
  <2>4. ASSUME NEW i \in DOMAIN rest
        PROVE  /\ rest[i] = blk \/ \E j \in DOMAIN received : rest[i] = received[j]
               /\ rest[i].seq > cumAck + 1
    <3>1. CASE i < k  BY <2>1, <3>1 DEF Sorted
    <3>2. CASE i = k  BY <1>1, <2>1, <3>2
    <3>3. CASE i > k
      <4>1. i - 1 \in DOMAIN received  BY <2>1, <3>3
      <4>2. QED  BY <2>1, <3>3, <4>1 DEF Sorted
    <3>4. QED  BY <2>1, <3>1, <3>2, <3>3
  <2>5. ASSUME NEW i \in DOMAIN rest, NEW j \in DOMAIN rest, i < j
        PROVE  End(rest[i]) < rest[j].seq
    <3>1. CASE j < k  BY <2>1, <2>5, <3>1 DEF Sorted
    <3>2. CASE j = k
      <4>1. i \in 1..(k - 1) /\ rest[i] = received[i] /\ rest[j] = blk  BY <2>1, <2>5, <3>2
      <4>2. QED  BY <2>2, <4>1
    <3>3. CASE j > k /\ i = k
      <4>1. j - 1 \in k..Len(received)  BY <2>1, <3>3
      <4>2. rest[i] = blk /\ rest[j] = received[j - 1]  BY <2>1, <3>3, SMTT(30)
      <4>3. QED  BY <2>3, <4>1, <4>2
    <3>4. CASE j > k /\ i < k
      <4>1. i \in DOMAIN received /\ j - 1 \in DOMAIN received /\ i < j - 1
        BY <2>1, <3>4
      <4>2. QED  BY <2>1, <3>4, <4>1 DEF Sorted
    <3>5. CASE j > k /\ i > k
      <4>1. i - 1 \in DOMAIN received /\ j - 1 \in DOMAIN received /\ i - 1 < j - 1
        BY <2>1, <2>5, <3>5
      <4>2. rest[i] = received[i - 1] /\ rest[j] = received[j - 1]  BY <2>1, <3>5
      <4>3. QED  BY <4>1, <4>2 DEF Sorted
    <3>6. QED  BY <2>1, <3>1, <3>2, <3>3, <3>4, <3>5
  <2>6. ASSUME NEW c \in Bytes(p) \cup Arrived
        PROVE  c \in 1..cumAck \/ \E i \in DOMAIN rest : c \in Bytes(rest[i])
    <3>1. CASE c \in Bytes(p)  BY <1>1, <2>1, <3>1
    <3>2. CASE c \in 1..cumAck  BY <3>2
    <3>3. ASSUME NEW j \in DOMAIN received, c \in Bytes(received[j])
          PROVE  \E i \in DOMAIN rest : c \in Bytes(rest[i])
      <4>1. CASE j < k  BY <2>1, <3>3, <4>1
      <4>2. CASE j >= k
        <5>1. j + 1 \in DOMAIN rest /\ rest[j + 1] = received[j]  BY <2>1, <4>2
        <5>2. QED  BY <3>3, <5>1
      <4>3. QED  BY <4>1, <4>2
    <3>4. QED  BY <3>1, <3>2, <3>3 DEF Arrived
  <2>7. \A i \in DOMAIN rest :
          \/ \E j \in DOMAIN received : rest[i] = received[j]
          \/ rest[i].seq = p.seq /\ rest[i].size = p.size
    BY <1>1, <2>4
  <2>8. \A c \in (cumAck + 1)..cumAck :
          c \in Bytes(p) \/ \E j \in DOMAIN received : c \in Bytes(received[j])
    OBVIOUS
  <2>9. QED  BY <2>1, <2>4, <2>5, <2>6, <2>7, <2>8 DEF Accepted
<1>5. QED  BY <1>1, <1>a, <1>3, <1>4, InsertProperties

\* The next packet is acknowledged, and with it the blocks that follow on.
LEMMA AcceptNext ==
  ASSUME TypeOK, Sorted, Framed, NEW p \in net, p.seq = cumAck + 1
  PROVE  Accepted(p, Accept(p).ack, Accept(p).rest)
<1> DEFINE end  == End(p)
           m    == Merged(received, end)
           ack  == IF m = 0 THEN end ELSE End(received[m])
           rest == SubSeq(received, m + 1, Len(received))
<1>0. /\ received \in BlockList /\ cumAck \in Nat
      /\ Len(received) \in Nat /\ DOMAIN received = 1..Len(received)
      /\ \A i \in DOMAIN received : received[i] \in Block /\ received[i] \in Blocks
      /\ p \in Blocks
      /\ \A a \in Blocks : /\ a.seq \in Nat \ {0} /\ a.size \in Nat \ {0}
                           /\ End(a) \in Nat /\ a.seq <= End(a)
  BY BlockFacts
<1> USE <1>0
<1>1. end \in Nat /\ cumAck < end
      /\ \A i \in DOMAIN received :
           /\ received[i].seq \in Nat \ {0} /\ received[i].size \in Nat \ {0}
           /\ End(received[i]) \in Nat /\ received[i].seq <= End(received[i])
  OBVIOUS
<1>2. Accept(p).ack = ack /\ Accept(p).rest = rest
  BY DEF Accept, End
<1> HIDE DEF end, m
<1>3. /\ m \in 0..Len(received)
      /\ \A i \in 1..m : Follows(received, end, i)
      /\ m < Len(received) => ~ Follows(received, end, m + 1)
  BY <1>1, MergedProperties DEF m
<1>4. ack \in Nat /\ end <= ack
      /\ \A i \in 1..m : i \in DOMAIN received /\ End(received[i]) <= ack
  <2>1. CASE m = 0  BY <1>1, <2>1
  <2>2. CASE m # 0
    <3>1. m \in DOMAIN received /\ 1 \in DOMAIN received /\ ack = End(received[m])
      BY <1>3, <2>2
    <3>2. ASSUME NEW i \in 1..m
          PROVE  i \in DOMAIN received /\ End(received[i]) <= ack
      <4>1. CASE i = m  BY <1>1, <3>1, <4>1
      <4>2. CASE i # m
        <5>1. i \in DOMAIN received /\ i < m  BY <1>3, <4>2
        <5>2. End(received[i]) < received[m].seq  BY <3>1, <5>1 DEF Sorted
        <5>3. /\ End(received[i]) \in Nat /\ End(received[m]) \in Nat
              /\ received[m].seq \in Nat /\ received[m].seq <= End(received[m])
          BY <1>1, <3>1, <5>1
        <5>4. End(received[i]) <= End(received[m])
          <6> HIDE DEF ack, rest
          <6>1. QED  BY <5>2, <5>3
        <5>5. QED  BY <3>1, <5>1, <5>4
      <4>3. QED  BY <4>1, <4>2
    <3>3. Follows(received, end, 1)  BY <1>3, <2>2
    <3>4. received[1].seq = end + 1  BY <3>3 DEF Follows
    <3>5. End(received[1]) <= ack  BY <1>3, <2>2, <3>2
    <3>6. QED  BY <1>1, <3>1, <3>2, <3>4, <3>5
  <2>3. QED  BY <2>1, <2>2
<1> HIDE DEF ack
<1>5. /\ rest \in BlockList /\ DOMAIN rest = 1..(Len(received) - m)
      /\ \A i \in 1..(Len(received) - m) : rest[i] = received[m + i]
  <2>1. \A i \in (m + 1)..Len(received) : received[i] \in Block  BY <1>3
  <2>2. m + 1 \in Int /\ Len(received) \in Int  BY <1>3
  <2>3. /\ rest \in Seq(Block)
        /\ Len(rest) = IF m + 1 <= Len(received) THEN Len(received) - (m + 1) + 1 ELSE 0
        /\ \A i \in 1..(Len(received) - (m + 1) + 1) : rest[i] = received[m + 1 + i - 1]
    BY <2>1, <2>2, SubSeqProperties, SMTT(30)
  <2>4. Len(rest) = Len(received) - m /\ DOMAIN rest = 1..Len(rest)
    <3> HIDE DEF rest
    <3>1. DOMAIN rest = 1..Len(rest)  BY <2>3, LenProperties
    <3>2. Len(received) \in Nat /\ m \in Nat /\ m <= Len(received)  BY <1>3
    <3>3. CASE m = Len(received)  BY ONLY <2>3, <3>1, <3>2, <3>3
    <3>4. CASE m < Len(received)  BY ONLY <2>3, <3>1, <3>2, <3>4
    <3>5. QED  BY ONLY <3>2, <3>3, <3>4
  <2>5. ASSUME NEW i \in 1..(Len(received) - m)  PROVE rest[i] = received[m + i]
    <3>1. i \in 1..(Len(received) - (m + 1) + 1) /\ m + 1 + i - 1 = m + i  BY <1>3
    <3>2. QED  BY <2>3, <3>1
  <2>6. QED  BY <2>3, <2>4, <2>5 DEF BlockList
<1> HIDE DEF rest
<1>6. ASSUME NEW i \in (m + 1)..Len(received)
      PROVE  i \in DOMAIN received /\ received[i].seq > ack + 1
  <2>1. i \in DOMAIN received  BY <1>3
  <2>2. m + 1 \in DOMAIN received /\ received[m + 1].seq > ack + 1
    <3>1. m < Len(received) /\ m + 1 \in DOMAIN received  BY <1>3
    <3>2. ~ Follows(received, end, m + 1)  BY <1>3, <3>1
    <3>3. CASE m = 0
      <4>1. ack = end /\ received[1].seq # end + 1  BY <3>2, <3>3 DEF ack, Follows
      <4>2. Apart(received[1], p) /\ received[1].seq > cumAck + 1
        BY <3>1, <3>3 DEF Framed, Sorted
      <4>3. end < received[1].seq
        BY <1>1, <3>1, <3>3, <4>2 DEF Apart, end
      <4>4. received[m + 1].seq \in Nat /\ ack \in Nat  BY <1>1, <1>4, <3>1
      <4>5. received[m + 1].seq # ack + 1 /\ ack < received[m + 1].seq
        BY ONLY <3>3, <4>1, <4>3
      <4>6. QED  BY ONLY <3>1, <4>4, <4>5
    <3>4. CASE m # 0
      <4>1. m \in DOMAIN received /\ m < m + 1 /\ ack = End(received[m])
        BY <1>3, <3>4 DEF ack
      <4>2. received[m + 1].seq # received[m].seq + received[m].size
        BY <1>3, <3>2, <3>4 DEF Follows
      <4>3. End(received[m]) < received[m + 1].seq  BY <3>1, <4>1 DEF Sorted
      <4>4. End(received[m]) + 1 = received[m].seq + received[m].size
        <5>1. received[m].seq \in Nat /\ received[m].size \in Nat  BY <1>1, <4>1
        <5>2. QED  BY ONLY <5>1 DEF End
      <4>5. received[m + 1].seq # ack + 1 /\ ack < received[m + 1].seq
        BY <4>1, <4>2, <4>3, <4>4
      <4>6. received[m + 1].seq \in Nat  BY <1>1, <3>1
      <4>7. QED  BY <1>4, <3>1, <4>5, <4>6
    <3>5. QED  BY <3>3, <3>4
  <2>3. CASE i = m + 1  BY <2>2, <2>3
  <2>4. CASE i # m + 1
    <3>1. m + 1 < i  BY <1>3, <2>4
    <3>2. End(received[m + 1]) < received[i].seq  BY <2>1, <2>2, <3>1 DEF Sorted
    <3>3. QED  BY <1>1, <1>4, <2>1, <2>2, <3>2
  <2>5. QED  BY <2>1, <2>3, <2>4
<1>7. ack = cumAck \/ \E a \in Blocks : ack = End(a)
  BY <1>3 DEF ack, end
<1>8. ASSUME NEW i \in DOMAIN rest
      PROVE  /\ \E j \in DOMAIN received : rest[i] = received[j]
             /\ rest[i].seq > ack + 1
  <2>1. m + i \in (m + 1)..Len(received) /\ rest[i] = received[m + i]  BY <1>3, <1>5
  <2>2. QED  BY <1>6, <2>1
<1>9. ASSUME NEW i \in DOMAIN rest, NEW j \in DOMAIN rest, i < j
      PROVE  End(rest[i]) < rest[j].seq
  <2>1. /\ m + i \in DOMAIN received /\ m + j \in DOMAIN received /\ m + i < m + j
        /\ rest[i] = received[m + i] /\ rest[j] = received[m + j]
    BY <1>3, <1>5, <1>9
  <2>2. QED  BY <2>1 DEF Sorted
<1>10. ASSUME NEW b \in Bytes(p) \cup Arrived
       PROVE  b \in 1..ack \/ \E i \in DOMAIN rest : b \in Bytes(rest[i])
  <2>1. CASE b \in Bytes(p)
    <3>1. b \in p.seq..end  BY <2>1 DEF Bytes, end, End
    <3>2. QED  BY <1>1, <1>4, <3>1
  <2>2. CASE b \in 1..cumAck  BY <1>1, <1>4, <2>2
  <2>3. ASSUME NEW j \in DOMAIN received, b \in Bytes(received[j])
        PROVE  b \in 1..ack \/ \E i \in DOMAIN rest : b \in Bytes(rest[i])
    <3>1. CASE j <= m
      <4>1. End(received[j]) <= ack  BY <1>4, <3>1
      <4>2. b \in received[j].seq..End(received[j])  BY <2>3 DEF Bytes, End
      <4>3. QED  BY <1>1, <1>4, <4>1, <4>2
    <3>2. CASE j > m
      <4>1. j - m \in DOMAIN rest /\ rest[j - m] = received[j]  BY <1>3, <1>5, <3>2
      <4>2. QED  BY <2>3, <4>1
    <3>3. QED  BY <1>3, <3>1, <3>2
  <2>4. QED  BY <2>1, <2>2, <2>3 DEF Arrived
<1>11. ASSUME NEW b \in (cumAck + 1)..ack
       PROVE  b \in Bytes(p) \/ \E j \in DOMAIN received : b \in Bytes(received[j])
  <2>1. CASE b <= end  BY <1>1, <2>1 DEF Bytes, end, End
  <2>2. CASE b > end
    <3>1. m # 0 /\ ack = End(received[m]) /\ m \in 1..Len(received)
      BY <1>1, <1>3, <2>2 DEF ack
    <3>2. b \in (end + 1)..End(received[m])  BY <1>1, <1>4, <2>2, <3>1
    <3>3. \E i \in 1..m : b \in Bytes(received[i])
      BY <1>1, <1>3, <3>1, <3>2, MergedBytes
    <3>4. QED  BY <1>3, <3>3
  <2>3. QED  BY <1>1, <1>4, <2>1, <2>2
<1>12. QED
  BY <1>1, <1>2, <1>4, <1>5, <1>7, <1>8, <1>9, <1>10, <1>11 DEF Accepted

\* In whichever of the three cases a packet comes (old, next, above a hole),
\* Accept gives the ack and the list that Accepted asks for.
LEMMA AcceptProperties ==
  ASSUME TypeOK, Sorted, Framed, NEW p \in net
  PROVE  Accepted(p, Accept(p).ack, Accept(p).rest)
<1>1. p.seq \in Nat /\ cumAck \in Nat  BY BlockFacts
<1>2. CASE p.seq = cumAck + 1  BY <1>2, AcceptNext
<1>3. CASE p.seq < cumAck + 1
  <2>1. Accept(p).ack = cumAck /\ Accept(p).rest = received  BY <1>1, <1>3 DEF Accept
  <2>2. QED  BY <1>3, <2>1, AcceptOld
<1>4. CASE p.seq > cumAck + 1
  <2>1. /\ Accept(p).ack = cumAck
        /\ Accept(p).rest = Insert(received, [seq |-> p.seq, size |-> p.size])
    BY <1>1, <1>4 DEF Accept
  <2>2. QED  BY <1>4, <2>1, AcceptAbove
<1>5. QED  BY <1>1, <1>2, <1>3, <1>4

-----------------------------------------------------------------------------
(* Packets and the first window *)

\* Flows and packets have a positive size.
LEMMA PktSizeFacts ==
  ASSUME flowSize \in FlowSizes
  PROVE  flowSize \in Nat \ {0} /\ PktSize \in Nat \ {0}
  BY XPassAssumption DEF PktSize

\* A packet made of the data after an offset is part of the data.
DataPacketAt(p, o, u) ==
  /\ p \in DataPackets
  /\ p.seq = o + 1 /\ p.size \in Nat \ {0}
  /\ p.size = LesserOf(PktSize, flowSize - o)
  /\ End(p) \in Nat /\ End(p) <= flowSize /\ End(p) = o + p.size
  /\ p.unsched = u /\ ~p.ackreq
  /\ p.last => End(p) >= flowSize

\* The packet made at an offset in the flow starts there and ends in the flow.
LEMMA DataPacketFacts ==
  ASSUME flowSize \in FlowSizes, NEW o \in Nat, o < flowSize, NEW u \in BOOLEAN
  PROVE  DataPacketAt(DataPacket(o, u), o, u)
<1> DEFINE size == LesserOf(PktSize, flowSize - o)
<1>1. flowSize \in Nat \ {0} /\ PktSize \in Nat \ {0}  BY PktSizeFacts
<1>2. size \in Nat \ {0} /\ size <= flowSize - o  BY <1>1 DEF LesserOf
<1>3. DataPacket(o, u) =
        [seq |-> o + 1, size |-> size, unsched |-> u,
         last |-> o + size >= flowSize, ackreq |-> FALSE]
  BY DEF DataPacket
<1> HIDE DEF size
<1>4. DataPacket(o, u) \in DataPackets  BY <1>1, <1>2, <1>3 DEF DataPackets
<1>5. End(DataPacket(o, u)) = o + size  BY <1>2, <1>3 DEF End
<1>6. DataPacket(o, u).last => o + size >= flowSize  BY DEF DataPacket, size
<1>7. QED  BY <1>1, <1>2, <1>3, <1>4, <1>5, <1>6 DEF DataPacketAt, size

\* The offsets of the first window.
Offset(o) == o \in Nat /\ o < LesserOf(InitCwnd, flowSize) /\ o % PktSize = 0

\* The unscheduled first window is the packets at the offsets it covers.
LEMMA WindowPackets ==
  ASSUME flowSize \in FlowSizes
  PROVE  /\ \A o : Offset(o) => /\ o < flowSize
                               /\ DataPacket(o, TRUE) \in Window
                               /\ DataPacketAt(DataPacket(o, TRUE), o, TRUE)
         /\ \A p \in Window : Offset(p.seq - 1) /\ p = DataPacket(p.seq - 1, TRUE)
<1>1. flowSize \in Nat \ {0} /\ PktSize \in Nat \ {0} /\ InitCwnd \in Nat \ {0}
  BY PktSizeFacts, XPassAssumption
<1>2. LesserOf(InitCwnd, flowSize) \in Nat /\ LesserOf(InitCwnd, flowSize) <= flowSize
  BY <1>1 DEF LesserOf
<1>3. ASSUME NEW o, Offset(o)
      PROVE  /\ o < flowSize
             /\ DataPacket(o, TRUE) \in Window
             /\ DataPacketAt(DataPacket(o, TRUE), o, TRUE)
  <2>1. o \in Nat /\ o < flowSize  BY <1>1, <1>2, <1>3 DEF Offset
  <2>2. o \in 0..(LesserOf(InitCwnd, flowSize) - 1) /\ o % PktSize = 0
    BY <1>2, <1>3 DEF Offset
  <2>3. DataPacket(o, TRUE) \in Window  BY <2>2 DEF Window
  <2>4. QED  BY <2>1, <2>3, DataPacketFacts
<1>4. ASSUME NEW p \in Window
      PROVE  Offset(p.seq - 1) /\ p = DataPacket(p.seq - 1, TRUE)
  <2>1. PICK o \in 0..(LesserOf(InitCwnd, flowSize) - 1) :
          o % PktSize = 0 /\ p = DataPacket(o, TRUE)
    BY DEF Window
  <2>2. Offset(o)  BY <1>2, <2>1 DEF Offset
  <2>3. p.seq - 1 = o
    <3>1. DataPacketAt(DataPacket(o, TRUE), o, TRUE)  BY <1>3, <2>2
    <3>2. p.seq = o + 1  BY <2>1, <3>1 DEF DataPacketAt
    <3>3. QED  BY <1>2, <3>2
  <2>4. QED  BY <2>1, <2>2, <2>3
<1>5. QED  BY <1>3, <1>4

\* Packets of the first window are unscheduled, lie in the flow, and no two of
\* them overlap.
LEMMA WindowFacts ==
  ASSUME flowSize \in FlowSizes
  PROVE  /\ \A p \in Window : /\ p \in DataPackets /\ p.seq > 0 /\ p.size > 0
                              /\ p.unsched /\ ~p.ackreq
                              /\ p.last => End(p) >= flowSize
                              /\ End(p) = p.seq - 1 + LesserOf(PktSize, flowSize - (p.seq - 1))
                              /\ End(p) \in Nat /\ p.seq <= End(p) /\ End(p) <= flowSize
         /\ \A p, q \in Window : p.seq = q.seq => p = q
         /\ \A p, q \in Window : p.seq < q.seq => End(p) < q.seq
         /\ \A p, q \in Window : Apart(p, q)
         /\ \E p \in Window : p.seq = 1
<1>1. flowSize \in Nat \ {0} /\ PktSize \in Nat \ {0} /\ InitCwnd \in Nat \ {0}
  BY PktSizeFacts, XPassAssumption
<1>2. ASSUME NEW p \in Window
      PROVE  /\ p \in DataPackets /\ p.seq > 0 /\ p.size > 0
             /\ p.unsched /\ ~p.ackreq
             /\ p.last => End(p) >= flowSize
             /\ End(p) = p.seq - 1 + LesserOf(PktSize, flowSize - (p.seq - 1))
             /\ End(p) \in Nat /\ p.seq <= End(p) /\ End(p) <= flowSize
             /\ p.seq \in Nat /\ p.size \in Nat
             /\ End(p) <= p.seq - 1 + PktSize
  <2>1. Offset(p.seq - 1) /\ DataPacketAt(p, p.seq - 1, TRUE)
    BY WindowPackets
  <2>2. p.size <= PktSize  BY <1>1, <2>1 DEF DataPacketAt, LesserOf, Offset
  <2>3. QED  BY <1>1, <2>1, <2>2 DEF DataPacketAt, Offset, DataPackets
<1>3. ASSUME NEW p \in Window, NEW q \in Window, p.seq = q.seq  PROVE p = q
  <2>1. p = DataPacket(p.seq - 1, TRUE) /\ q = DataPacket(q.seq - 1, TRUE)
    BY WindowPackets
  <2>2. QED  BY <1>3, <2>1
<1>4. ASSUME NEW p \in Window, NEW q \in Window, p.seq < q.seq  PROVE End(p) < q.seq
  <2> DEFINE i == (p.seq - 1) \div PktSize
             j == (q.seq - 1) \div PktSize
  <2>1. /\ p.seq - 1 \in Nat /\ (p.seq - 1) % PktSize = 0
        /\ q.seq - 1 \in Nat /\ (q.seq - 1) % PktSize = 0
    BY WindowPackets DEF Offset
  <2>2. i \in Nat /\ j \in Nat /\ p.seq - 1 = i * PktSize /\ q.seq - 1 = j * PktSize
    <3>1. /\ i \in Nat /\ p.seq - 1 = i * PktSize + ((p.seq - 1) % PktSize)
          /\ i * PktSize \in Nat
      BY <1>1, <2>1, Division
    <3>2. /\ j \in Nat /\ q.seq - 1 = j * PktSize + ((q.seq - 1) % PktSize)
          /\ j * PktSize \in Nat
      BY <1>1, <2>1, Division
    <3> HIDE DEF i, j
    <3>3. QED  BY <2>1, <3>1, <3>2
  <2>3. i < j
    <3>1. CASE j <= i
      <4>1. CASE i = j  BY <1>2, <1>4, <2>2, <4>1
      <4>2. CASE j < i
        <5>1. j * PktSize + PktSize <= i * PktSize  BY <1>1, <2>2, <4>2, MultiplesApart
        <5>2. q.seq - 1 + PktSize <= p.seq - 1  BY <2>2, <5>1
        <5>3. QED  BY <1>1, <1>2, <1>4, <5>2
      <4>3. QED  BY <2>2, <3>1, <4>1, <4>2
    <3>2. QED  BY <2>2, <3>1
  <2>4. i * PktSize + PktSize <= j * PktSize  BY <1>1, <2>2, <2>3, MultiplesApart
  <2>5. p.seq - 1 + PktSize <= q.seq - 1  BY <2>2, <2>4
  <2>6. QED  BY <1>1, <1>2, <2>5
<1>5. ASSUME NEW p \in Window, NEW q \in Window  PROVE Apart(p, q)
  BY <1>2, <1>3, <1>4 DEF Apart
<1>6. \E p \in Window : p.seq = 1
  <2>1. ASSUME NEW o, o = 0  PROVE \E p \in Window : p.seq = 1
    <3>1. Offset(o)  BY <1>1, <2>1 DEF Offset, LesserOf
    <3>2. DataPacket(o, TRUE) \in Window /\ DataPacketAt(DataPacket(o, TRUE), o, TRUE)
      BY <3>1, WindowPackets
    <3>3. PICK p \in Window : DataPacketAt(p, o, TRUE)  BY <3>2
    <3>4. p.seq = 1  BY <2>1, <3>3 DEF DataPacketAt
    <3>5. QED  BY <3>4
  <2>2. QED  BY <2>1
<1>7. QED  BY <1>2, <1>3, <1>4, <1>5, <1>6

-----------------------------------------------------------------------------
(* The frame: blocks that are the same or apart *)

\* The frame changes with nothing but the flow.
LEMMA FrameSame ==
  ASSUME flowSize' = flowSize
  PROVE  /\ Window' = Window /\ PktSize' = PktSize
         /\ clos' = clos => Frame' = Frame
  BY DEF Window, Frame, DataPacket, PktSize

\* Blocks of the frame have a positive first and last byte.
LEMMA FrameFacts ==
  ASSUME flowSize \in FlowSizes
  PROVE  \A a \in Frame : /\ a.seq \in Nat \ {0} /\ a.size \in Nat \ {0}
                          /\ End(a) \in Nat /\ a.seq <= End(a)
<1>1. ASSUME NEW a \in Window
      PROVE  /\ a.seq \in Nat \ {0} /\ a.size \in Nat \ {0}
             /\ End(a) \in Nat /\ a.seq <= End(a)
  <2>1. /\ a \in DataPackets /\ a.seq > 0 /\ a.size > 0
        /\ End(a) \in Nat /\ a.seq <= End(a)
    BY WindowFacts
  <2>2. a.seq \in Nat /\ a.size \in Nat  BY <2>1 DEF DataPackets
  <2>3. QED  BY <2>1, <2>2
<1>2. Frame \subseteq Window  BY DEF Frame
<1>3. QED  BY <1>1, <1>2

\* Blocks that join the network keep the frame if they fit into it.
LEMMA NewBlocks ==
  ASSUME TypeOK, Sorted, Framed, NEW Q, net' \subseteq net \cup Q,
         received' = received, cumAck' = cumAck, flowSize' = flowSize, clos' = clos,
         highestSent' \in Nat, highestSent <= highestSent',
         \A q \in Q : /\ q.seq > 0 /\ q.size > 0 /\ End(q) <= highestSent'
                      /\ cumAck < q.seq \/ End(q) <= cumAck,
         \A q \in Q : \A a \in Blocks \cup Frame \cup Q : Apart(q, a)
  PROVE  Sorted' /\ Framed'
<1>1. Frame' = Frame /\ Blocks' \subseteq Blocks \cup Q
  <2>1. Frame' = Frame  BY FrameSame
  <2>2. Blocks' = net' \cup {received[i] : i \in DOMAIN received}  BY DEF Blocks
  <2>3. QED  BY <2>1, <2>2 DEF Blocks
<1>2. cumAck \in Nat /\ highestSent \in Nat  BY DEF TypeOK
<1>3. ASSUME NEW a \in Blocks'
      PROVE  a.seq > 0 /\ a.size > 0 /\ End(a) <= highestSent'
  <2>1. CASE a \in Blocks
    <3>1. a.seq > 0 /\ a.size > 0 /\ End(a) <= highestSent /\ End(a) \in Nat
      BY <2>1, BlockFacts DEF Framed
    <3>2. QED  BY <1>2, <3>1
  <2>2. CASE a \in Q  BY <2>2
  <2>3. QED  BY <1>1, <2>1, <2>2
<1>4. ASSUME NEW a \in Blocks' \cup Frame', NEW b \in Blocks' \cup Frame'
      PROVE  Apart(a, b)
  <2>1. CASE a \in Q  BY <1>1, <2>1
  <2>2. CASE b \in Q
    <3>1. Apart(b, a)  BY <1>1, <2>2
    <3>2. QED  BY <3>1 DEF Apart
  <2>3. CASE a \notin Q /\ b \notin Q
    <3>1. a \in Blocks \cup Frame /\ b \in Blocks \cup Frame  BY <1>1, <2>3
    <3>2. QED  BY <3>1 DEF Framed
  <2>4. QED  BY <2>1, <2>2, <2>3
<1>5. ASSUME NEW a \in Blocks' \cup Frame'
      PROVE  cumAck < a.seq \/ End(a) <= cumAck
  <2>1. CASE a \in Q  BY <2>1
  <2>2. CASE a \notin Q  BY <1>1, <2>2 DEF Framed
  <2>3. QED  BY <2>1, <2>2
<1>6. cumAck' <= highestSent'  BY <1>2 DEF Framed
<1>7. Sorted'  BY DEF Sorted, End
<1>8. QED
  <2>1. cumAck' = cumAck  OBVIOUS
  <2>2. QED  BY <1>3, <1>4, <1>5, <1>6, <1>7, <2>1 DEF Framed, Apart, End

\* A block of the frame fits.
LEMMA FitsFrame ==
  ASSUME TypeOK, Framed, NEW q, NEW w \in Frame, q.seq = w.seq, q.size = w.size
  PROVE  /\ cumAck < q.seq \/ End(q) <= cumAck
         /\ \A a \in Blocks \cup Frame \cup {q} : Apart(q, a)
<1>1. End(q) = End(w)  BY DEF End
<1>2. cumAck < w.seq \/ End(w) <= cumAck  BY DEF Framed
<1>3. \A a \in Blocks \cup Frame : Apart(w, a)  BY DEF Framed
<1>4. ASSUME NEW a \in Blocks \cup Frame \cup {q}  PROVE Apart(q, a)
  <2>1. CASE a = q  BY <2>1 DEF Apart
  <2>2. CASE a # q
    <3>1. Apart(w, a)  BY <1>3, <2>2
    <3>2. QED  BY <1>1, <3>1 DEF Apart
  <2>3. QED  BY <2>1, <2>2
<1>5. QED  BY <1>1, <1>2, <1>4

\* So does a block behind everything that was sent.
LEMMA FitsBehind ==
  ASSUME TypeOK, Framed, NEW q, q.seq = highestSent + 1, q.size \in Nat \ {0},
         \A w \in Frame : End(w) <= highestSent
  PROVE  /\ q.seq > 0 /\ q.size > 0 /\ End(q) = highestSent + q.size
         /\ cumAck < q.seq
         /\ \A a \in Blocks \cup Frame \cup {q} : Apart(q, a)
<1>1. cumAck \in Nat /\ highestSent \in Nat /\ flowSize \in FlowSizes  BY DEF TypeOK
<1>2. ASSUME NEW a \in Blocks \cup Frame  PROVE End(a) < q.seq
  <2>1. CASE a \in Blocks
    <3>1. End(a) \in Nat /\ End(a) <= highestSent  BY <2>1, BlockFacts DEF Framed
    <3>2. QED  BY <1>1, <3>1
  <2>2. CASE a \in Frame
    <3>1. End(a) \in Nat /\ End(a) <= highestSent
      BY <1>1, <2>2, FrameFacts
    <3>2. QED  BY <1>1, <3>1
  <2>3. QED  BY <2>1, <2>2
<1>3. ASSUME NEW a \in Blocks \cup Frame \cup {q}  PROVE Apart(q, a)
  <2>1. CASE a = q  BY <2>1 DEF Apart
  <2>2. CASE a # q  BY <1>2, <2>2 DEF Apart
  <2>3. QED  BY <2>1, <2>2
<1>4. cumAck < q.seq  BY <1>1 DEF Framed
<1>5. q.seq > 0 /\ End(q) = highestSent + q.size  BY <1>1 DEF End
<1>6. QED  BY <1>3, <1>4, <1>5

\* What arrives keeps the frame: it makes no blocks of its own.
LEMMA ReceivedBlocks ==
  ASSUME TypeOK, Sorted, Framed, NEW p \in net,
         cumAck' = Accept(p).ack, received' = Accept(p).rest,
         net' = net \ {p}, flowSize' = flowSize, clos' = clos,
         highestSent' = highestSent
  PROVE  Sorted' /\ Framed'
<1> DEFINE ack == Accept(p).ack
           rest == Accept(p).rest
<1>1. Accepted(p, ack, rest)  BY AcceptProperties
<1> HIDE DEF ack, rest
<1>2. cumAck' = ack /\ received' = rest  BY DEF ack, rest
<1>3. Frame' = Frame  BY FrameSame
<1>4. cumAck \in Nat /\ highestSent \in Nat /\ ack \in Nat /\ cumAck <= ack
      /\ flowSize \in FlowSizes
  BY <1>1 DEF TypeOK, Accepted
<1>5. ASSUME NEW a \in Blocks'
      PROVE  \E b \in Blocks : a.seq = b.seq /\ a.size = b.size
  <2>1. CASE a \in net \ {p}  BY <2>1 DEF Blocks
  <2>2. ASSUME NEW i \in DOMAIN rest, a = rest[i]
        PROVE  \E b \in Blocks : a.seq = b.seq /\ a.size = b.size
    <3>1. CASE \E j \in DOMAIN received : rest[i] = received[j]
      BY <2>2, <3>1 DEF Blocks
    <3>2. CASE rest[i].seq = p.seq /\ rest[i].size = p.size
      BY <2>2, <3>2 DEF Blocks
    <3>3. QED  BY <1>1, <3>1, <3>2 DEF Accepted
  <2>3. Blocks' = (net \ {p}) \cup {rest[i] : i \in DOMAIN rest}  BY <1>2 DEF Blocks
  <2>4. QED  BY <2>1, <2>2, <2>3
<1>6. ASSUME NEW a \in Blocks' \cup Frame'
      PROVE  \E b \in Blocks \cup Frame : a.seq = b.seq /\ a.size = b.size /\ End(a) = End(b)
  BY <1>3, <1>5 DEF End
<1>7. ASSUME NEW a \in Blocks'
      PROVE  a.seq > 0 /\ a.size > 0 /\ End(a) <= highestSent
  <2>1. PICK b \in Blocks : a.seq = b.seq /\ a.size = b.size  BY <1>5
  <2>2. End(a) = End(b)  BY <2>1 DEF End
  <2>3. QED  BY <2>1, <2>2 DEF Framed
<1>8. ASSUME NEW a \in Blocks' \cup Frame', NEW b \in Blocks' \cup Frame'
      PROVE  Apart(a, b)
  <2>1. PICK c \in Blocks \cup Frame : a.seq = c.seq /\ a.size = c.size /\ End(a) = End(c)
    BY <1>6
  <2>2. PICK d \in Blocks \cup Frame : b.seq = d.seq /\ b.size = d.size /\ End(b) = End(d)
    BY <1>6
  <2>3. Apart(c, d)  BY DEF Framed
  <2>4. QED  BY <2>1, <2>2, <2>3 DEF Apart
<1>9. ASSUME NEW a \in Blocks' \cup Frame'
      PROVE  ack < a.seq \/ End(a) <= ack
  <2>1. PICK c \in Blocks \cup Frame : a.seq = c.seq /\ a.size = c.size /\ End(a) = End(c)
    BY <1>6
  <2>2. /\ c.seq \in Nat /\ End(c) \in Nat /\ c.seq <= End(c)
    <3>1. CASE c \in Blocks  BY <3>1, BlockFacts
    <3>2. CASE c \in Frame  BY <1>4, <3>2, FrameFacts
    <3>3. QED  BY <3>1, <3>2
  <2>3. CASE ack = cumAck  BY <2>1, <2>3 DEF Framed
  <2>4. ASSUME NEW e \in Blocks, ack = End(e)  PROVE ack < c.seq \/ End(c) <= ack
    <3>1. Apart(c, e)  BY DEF Framed
    <3>2. e.seq \in Nat /\ End(e) \in Nat /\ e.seq <= End(e)  BY BlockFacts
    <3>3. CASE c.seq = e.seq /\ c.size = e.size
      <4>1. End(c) = End(e)  BY <3>3 DEF End
      <4>2. QED  BY <2>2, <2>4, <4>1
    <3>4. CASE End(c) < e.seq  BY <2>2, <2>4, <3>2, <3>4
    <3>5. CASE End(e) < c.seq  BY <2>4, <3>5
    <3>6. QED  BY <3>1, <3>3, <3>4, <3>5 DEF Apart
  <2>5. QED  BY <1>1, <2>1, <2>3, <2>4 DEF Accepted
<1>10. ack <= highestSent
  <2>1. CASE ack = cumAck  BY <2>1 DEF Framed
  <2>2. ASSUME NEW e \in Blocks, ack = End(e)  PROVE ack <= highestSent
    BY <2>2 DEF Framed
  <2>3. QED  BY <1>1, <2>1, <2>2 DEF Accepted
<1>11. Sorted'  BY <1>1, <1>2 DEF Accepted, Sorted, End
<1>12. QED
  <2>1. highestSent' = highestSent  OBVIOUS
  <2>2. QED  BY <1>2, <1>7, <1>8, <1>9, <1>10, <1>11, <2>1 DEF Framed, Apart, End

-----------------------------------------------------------------------------
(* Initial states, and the start of a flow of Opera *)

\* A flow that has not started satisfies the invariant.
LEMMA InitIInv == MCInit => IInv
<1> SUFFICES ASSUME MCInit  PROVE IInv  OBVIOUS
<1> USE DEF MCInit, ClosInit, Init
<1>1. flowSize \in Nat \ {0} /\ DOMAIN received = {} /\ DOMAIN rtxQueue = {}
  BY PktSizeFacts
<1>2. TypeOK
  <2>1. <<>> \in Seq(DataPackets) /\ <<>> \in Seq([seq : Nat, size : Nat]) /\ <<>> \in Seq(Nat)
    BY EmptySeq
  <2>2. rtxQueue \in Seq(DataPackets) /\ received \in Seq([seq : Nat, size : Nat])
        /\ credits \in Seq(Nat)
    BY <2>1
  <2>3. finished \in BOOLEAN /\ isPulling \in BOOLEAN /\ isRecovering \in BOOLEAN
        /\ ctlLost \in BOOLEAN
    OBVIOUS
  <2>4. {highestSent, lastUnsched, lastAcked, cumAck, lastPacket, timers, fcts} \subseteq Nat
        /\ net \subseteq DataPackets /\ ctls \subseteq Nat /\ flowSize \in FlowSizes
    OBVIOUS
  <2>5. QED  BY <2>2, <2>3, <2>4 DEF TypeOK
<1>3. Blocks = {}  BY <1>1 DEF Blocks
<1>4. Sorted /\ LastPackets /\ Reported  BY <1>1 DEF Sorted, LastPackets, Reported
<1>5. Framed
  <2>1. \A a \in Frame : cumAck < a.seq  BY FrameFacts
  <2>2. \A a, b \in Frame : Apart(a, b)  BY WindowFacts DEF Frame
  <2>3. QED  BY <1>3, <2>1, <2>2 DEF Framed
<1>6. OneCreditLoop  BY DEF OneCreditLoop
<1>7. OperaInv
  <2>1. Accounted  BY <1>1 DEF Accounted
  <2>2. Origin /\ Retransmits /\ Acks /\ Loop
    BY <1>1, <1>6 DEF Origin, Retransmits, RetransmitsWindow, Acks, Loop
  <2>3. QED  BY <2>1, <2>2 DEF OperaInv, NotStarted
<1>8. ClosInv  BY <1>1, <1>6 DEF ClosInv, ClosPackets, ClosNothingLost
<1>9. QED  BY <1>2, <1>4, <1>5, <1>7, <1>8 DEF IInv

\* What an action of the Opera simulator keeps of the rest of the state.
OperaStep == IInv /\ ~clos /\ dataLost' = dataLost /\ clos' = clos

\* What the invariant says of a flow of the Opera simulator.
LEMMA OperaFacts ==
  ASSUME OperaStep
  PROVE  /\ TypeOK /\ Sorted /\ Framed /\ LastPackets /\ Reported
         /\ highestSent = 0 => NotStarted
         /\ highestSent > 0 => Started
         /\ Origin /\ Retransmits /\ Acks /\ Loop /\ Accounted
         /\ Frame = Window
         /\ flowSize \in FlowSizes /\ flowSize \in Nat \ {0} /\ PktSize \in Nat \ {0}
         /\ highestSent \in Nat /\ cumAck \in Nat /\ lastUnsched \in Nat
  BY PktSizeFacts DEF OperaStep, IInv, OperaInv, Frame, TypeOK

\* The parts of the invariant an action of the Opera simulator has to keep.
LEMMA OperaIInv ==
  ASSUME OperaStep, TypeOK', Sorted', Framed', LastPackets', Reported',
         highestSent' > 0, Started', Origin', Retransmits', Acks', Loop', Accounted'
  PROVE  IInv'
<1>1. ~clos' /\ clos' \in BOOLEAN /\ dataLost' \in BOOLEAN  BY DEF OperaStep, IInv
<1>2. highestSent' \in Nat  BY DEF TypeOK
<1>3. OperaInv'  BY <1>2 DEF OperaInv
<1>4. QED  BY <1>1, <1>3 DEF IInv

\* The last byte of the window is that of its last packet.
LEMMA WindowEndFacts ==
  ASSUME flowSize \in FlowSizes, Started
  PROVE  /\ WindowEnd \in Nat /\ lastUnsched <= WindowEnd /\ WindowEnd <= flowSize
         /\ \A w \in Window : End(w) <= WindowEnd
         /\ \A w \in Window : w.seq = lastUnsched => End(w) = WindowEnd
         /\ Offset(lastUnsched - 1) /\ lastUnsched \in Nat
<1>1. PICK p \in Window : p.seq = lastUnsched  BY DEF Started
<1>2. /\ End(p) = WindowEnd /\ End(p) \in Nat /\ p.seq <= End(p) /\ End(p) <= flowSize
  BY <1>1, WindowFacts DEF WindowEnd
<1>3. p.seq \in Nat  BY FrameFacts, WindowFacts DEF DataPackets
<1>4. ASSUME NEW w \in Window
      PROVE  End(w) <= WindowEnd /\ (w.seq = lastUnsched => End(w) = WindowEnd)
  <2>1. w.seq <= p.seq  BY <1>1 DEF Started
  <2>2. w.seq \in Nat /\ End(w) \in Nat  BY WindowFacts DEF DataPackets
  <2>3. CASE w.seq = p.seq
    <3>1. w = p  BY <2>3, WindowFacts
    <3>2. QED  BY <1>2, <3>1
  <2>4. CASE w.seq < p.seq
    <3>1. End(w) < p.seq  BY <2>4, WindowFacts
    <3>2. QED  BY <1>1, <1>2, <1>3, <2>2, <2>4, <3>1
  <2>5. QED  BY <1>3, <2>1, <2>2, <2>3, <2>4
<1>5. Offset(lastUnsched - 1)  BY <1>1, WindowPackets
<1>6. QED  BY <1>1, <1>2, <1>3, <1>4, <1>5

\* startflow: the whole first window and the probe behind it leave at once.
LEMMA StepStartFlow ==
  ASSUME OperaStep, StartFlow  PROVE IInv'
<1>1. NotStarted /\ flowSize' = flowSize /\ highestSent = 0
  BY OperaFacts DEF StartFlow
<1>2. PICK p \in Window :
        /\ \A q \in Window : q.seq <= p.seq
        /\ lastUnsched' = p.seq
        /\ net' = Window \cup {AckRequest(p.seq + p.size - 1)}
        /\ highestSent' = p.seq + p.size
  BY DEF StartFlow
<1>3. UNCHANGED <<flowSize, lastAcked, rtxQueue, finished, sinkVars, credits, ctls, ctlLost>>
  BY DEF StartFlow
<1> DEFINE e == End(p)
           r == AckRequest(e)
<1>4. flowSize \in FlowSizes /\ flowSize \in Nat \ {0}  BY OperaFacts
<1>5. /\ p.seq \in Nat \ {0} /\ p.size \in Nat \ {0} /\ e \in Nat /\ p.seq <= e
      /\ highestSent' = e + 1 /\ net' = Window \cup {r}
  <2>1. p \in DataPackets /\ p.seq > 0 /\ p.size > 0 /\ e \in Nat /\ p.seq <= e
    BY <1>4, WindowFacts
  <2>2. p.seq \in Nat /\ p.size \in Nat  BY <2>1 DEF DataPackets
  <2>3. QED  BY <1>2, <2>1, <2>2 DEF End
<1>6. WindowEnd' = e
  <2>1. PktSize' = PktSize  BY <1>1, FrameSame
  <2>2. End(p) = p.seq - 1 + LesserOf(PktSize, flowSize - (p.seq - 1))
    BY <1>4, WindowFacts
  <2>3. QED  BY <1>1, <1>2, <2>1, <2>2 DEF WindowEnd
<1> HIDE DEF e
<1>7. /\ r.seq = e + 1 /\ r.size = 1 /\ End(r) = e + 1 /\ ~r.unsched /\ r.ackreq /\ ~r.last
      /\ r \in DataPackets
  BY <1>5 DEF AckRequest, End, DataPackets
<1>8. r = AckRequest(WindowEnd')  BY <1>6
<1> HIDE DEF r
<1>9. \A w \in Window : End(w) <= e /\ End(w) \in Nat
  <2>1. ASSUME NEW w \in Window  PROVE End(w) <= e /\ End(w) \in Nat
    <3>1. w.seq <= p.seq /\ w.seq \in Nat /\ End(w) \in Nat
      BY <1>2, <1>4, WindowFacts DEF DataPackets
    <3>2. CASE w.seq = p.seq
      <4>1. w = p  BY <1>4, <3>2, WindowFacts
      <4>2. QED  BY <1>5, <4>1 DEF e
    <3>3. CASE w.seq < p.seq
      <4>1. End(w) < p.seq  BY <1>4, <3>3, WindowFacts
      <4>2. QED  BY <1>5, <3>1, <4>1
    <3>4. QED  BY <1>5, <3>1, <3>2, <3>3
  <2>2. QED  BY <2>1
<1>10. TypeOK'
  <2>1. net' \subseteq DataPackets  BY <1>4, <1>5, <1>7, WindowFacts
  <2>2. TypeOK  BY OperaFacts
  <2>3. lastUnsched' \in Nat /\ highestSent' \in Nat  BY <1>2, <1>5
  <2>4. QED  BY <1>1, <1>3, <2>1, <2>2, <2>3 DEF TypeOK, sinkVars
<1>11. Window' = Window /\ Frame = Window  BY <1>1, FrameSame, OperaFacts
<1>12. Sorted' /\ Framed'
  <2> DEFINE Q == Window \cup {r}
  <2>1. Blocks = {}  BY <1>1 DEF NotStarted, Blocks
  <2>2. ASSUME NEW q \in Q
        PROVE  /\ q.seq > 0 /\ q.size > 0 /\ End(q) <= highestSent'
               /\ cumAck < q.seq \/ End(q) <= cumAck
    <3>1. CASE q \in Window
      <4>1. q.seq > 0 /\ q.size > 0  BY <1>4, <3>1, WindowFacts
      <4>2. cumAck = 0  BY <1>1 DEF NotStarted
      <4>3. QED  BY <1>5, <1>9, <3>1, <4>1, <4>2
    <3>2. CASE q = r
      <4>1. cumAck = 0  BY <1>1 DEF NotStarted
      <4>2. QED  BY <1>5, <1>7, <3>2, <4>1
    <3>3. QED  BY <3>1, <3>2
  <2>3. ASSUME NEW q \in Q, NEW a \in Q  PROVE Apart(q, a)
    <3>1. CASE q \in Window /\ a \in Window  BY <1>4, <3>1, WindowFacts
    <3>2. CASE q \in Window /\ a = r  BY <1>5, <1>7, <1>9, <3>2 DEF Apart
    <3>3. CASE q = r /\ a \in Window  BY <1>5, <1>7, <1>9, <3>3 DEF Apart
    <3>4. CASE q = r /\ a = r  BY <3>4 DEF Apart
    <3>5. QED  BY <3>1, <3>2, <3>3, <3>4
  <2>4. \A q \in Q : \A a \in Blocks \cup Frame \cup Q : Apart(q, a)
    BY <1>11, <2>1, <2>3
  <2>5. TypeOK /\ Sorted /\ Framed  BY OperaFacts
  <2>6. net' \subseteq net \cup Q /\ highestSent' \in Nat /\ highestSent <= highestSent'
    BY <1>1, <1>5
  <2>7. received' = received /\ cumAck' = cumAck /\ clos' = clos
    BY <1>3 DEF sinkVars, OperaStep
  <2> HIDE DEF Q
  <2>8. QED  BY <1>1, <2>2, <2>4, <2>5, <2>6, <2>7, NewBlocks
<1>13. LastPackets' /\ Reported'
  <2>1. \A q \in net' : q.last => End(q) >= flowSize  BY <1>4, <1>5, <1>7, WindowFacts
  <2>2. LastPackets /\ Reported  BY OperaFacts
  <2>3. QED  BY <1>3, <2>1, <2>2 DEF LastPackets, Reported, sinkVars, End
<1>14. Started'
  BY <1>2, <1>5, <1>6, <1>11 DEF Started
<1>15. Origin'  BY <1>4, <1>5, <1>7, <1>8, <1>11, WindowFacts DEF Origin
<1>16. Retransmits' /\ Acks'
  BY <1>1, <1>3 DEF Retransmits, RetransmitsWindow, Acks, NotStarted
<1>17. Loop'
  BY <1>1, <1>3 DEF Loop, OneCreditLoop, NotStarted, sinkVars
<1>18. Accounted'
  <2>1. ASSUME NEW b \in 1..flowSize, b <= e + 1
        PROVE  (b <= WindowEnd' /\ \E q \in net' : q.ackreq) \/ Carried(b)'
    <3>1. CASE b <= e  BY <1>5, <1>6, <1>7, <3>1
    <3>2. CASE b = e + 1  BY <1>5, <1>7, <3>2 DEF Carried, Bytes
    <3>3. QED  BY <1>5, <2>1, <3>1, <3>2
  <2>2. QED  BY <1>3, <1>4, <1>5, <2>1 DEF Accounted
<1>19. QED
  BY <1>5, <1>10, <1>12, <1>13, <1>14, <1>15, <1>16, <1>17, <1>18, OperaIInv

-----------------------------------------------------------------------------
(* Credits, control packets and drops of Opera *)

\* Taking an element out of a sequence leaves a sequence.
LEMMA RemoveAtProperties ==
  ASSUME NEW S, NEW list \in Seq(S), NEW i \in DOMAIN list
  PROVE  RemoveAt(list, i) \in Seq(S)
<1>1. Len(list) \in Nat /\ i \in 1..Len(list) /\ \A j \in 1..Len(list) : list[j] \in S
  BY LenProperties
<1>2. SubSeq(list, 1, i - 1) \in Seq(S)
  <2>1. \A j \in 1..(i - 1) : list[j] \in S  BY <1>1
  <2>2. QED  BY <1>1, <2>1, SubSeqProperties
<1>3. SubSeq(list, i + 1, Len(list)) \in Seq(S)
  <2>1. \A j \in (i + 1)..Len(list) : list[j] \in S  BY <1>1
  <2>2. QED  BY <1>1, <2>1, SubSeqProperties
<1>4. QED  BY <1>2, <1>3 DEF RemoveAt

\* Nothing that the frame or the blocks depend on has grown.
LEMMA SameBlocks ==
  ASSUME TypeOK, Sorted, Framed, net' \subseteq net,
         UNCHANGED <<received, cumAck, flowSize, clos, highestSent>>
  PROVE  Sorted' /\ Framed'
<1>1. highestSent' \in Nat /\ highestSent <= highestSent'  BY DEF TypeOK
<1> DEFINE Q == {}
<1>2. /\ net' \subseteq net \cup Q
      /\ \A q \in Q : /\ q.seq > 0 /\ q.size > 0 /\ End(q) <= highestSent'
                      /\ cumAck < q.seq \/ End(q) <= cumAck
      /\ \A q \in Q : \A a \in Blocks \cup Frame \cup Q : Apart(q, a)
  OBVIOUS
<1> HIDE DEF Q
<1>3. QED  BY <1>1, <1>2, NewBlocks

\* An action that leaves the source and the window alone.
LEMMA SameSource ==
  ASSUME OperaStep, UNCHANGED <<flowSize, lastUnsched, highestSent>>, highestSent > 0
  PROVE  /\ Started /\ Started' /\ highestSent' > 0
         /\ Window' = Window /\ WindowEnd' = WindowEnd /\ PktSize' = PktSize
<1>1. Started  BY OperaFacts
<1>2. Window' = Window /\ PktSize' = PktSize  BY FrameSame
<1>3. WindowEnd' = WindowEnd  BY <1>2 DEF WindowEnd
<1>4. QED  BY <1>1, <1>2, <1>3 DEF Started

\* A credit of Opera says nothing of the ack: the source just sends.
SendCase(q) ==
  /\ net' = net \cup {q}
  /\ UNCHANGED <<flowSize, lastUnsched, lastAcked, finished, sinkVars, ctls, ctlLost>>
  /\ ~q.unsched /\ ~q.ackreq

\* A credit that sends a packet of the retransmission queue keeps the
\* invariant: the packet was of the first window, so it meets only itself.
LEMMA StepSendRtx ==
  ASSUME OperaStep, rtxQueue # <<>>, SendCase(Head(rtxQueue)),
         rtxQueue' = Tail(rtxQueue), highestSent' = highestSent, credits' \in Seq(Nat)
  PROVE  IInv'
<1> DEFINE q == Head(rtxQueue)
<1>0. rtxQueue \in Seq(DataPackets) /\ TypeOK  BY OperaFacts DEF TypeOK
<1>1. /\ q \in DataPackets /\ rtxQueue' \in Seq(DataPackets)
      /\ Len(rtxQueue) \in Nat /\ Len(rtxQueue') = Len(rtxQueue) - 1
      /\ DOMAIN rtxQueue = 1..Len(rtxQueue) /\ DOMAIN rtxQueue' = 1..Len(rtxQueue')
      /\ \A i \in 1..Len(rtxQueue') : rtxQueue'[i] = rtxQueue[i + 1]
      /\ 1 \in DOMAIN rtxQueue /\ q = rtxQueue[1]
  BY <1>0, HeadTailProperties, LenProperties, EmptySeq
<1>2. highestSent > 0
  <2>1. highestSent = 0 => rtxQueue = <<>>  BY OperaFacts DEF NotStarted
  <2>2. QED  BY <2>1, OperaFacts
<1>3. PICK w \in Window : q.seq = w.seq /\ q.size = w.size /\ q.last = w.last
  <2>1. [q EXCEPT !.unsched = TRUE] \in Window
    BY <1>1, OperaFacts DEF Retransmits, RetransmitsWindow
  <2>2. QED  BY <1>1, <2>1 DEF DataPackets
<1> HIDE DEF q
<1>4. /\ net' = net \cup {q} /\ ~q.unsched /\ ~q.ackreq
      /\ UNCHANGED <<flowSize, lastUnsched, lastAcked, finished, sinkVars, ctls, ctlLost>>
  BY DEF SendCase, q
<1>5. /\ Started /\ Started' /\ highestSent' > 0
      /\ Window' = Window /\ WindowEnd' = WindowEnd /\ PktSize' = PktSize
  BY <1>2, <1>4, SameSource
<1>6. TypeOK'
  <2>1. net' \subseteq DataPackets  BY <1>0, <1>1, <1>4 DEF TypeOK
  <2>2. QED  BY <1>0, <1>1, <1>4, <2>1 DEF TypeOK, sinkVars
<1>7. Sorted' /\ Framed'
  <2>1. TypeOK /\ Sorted /\ Framed /\ w \in Frame /\ flowSize \in FlowSizes
    BY OperaFacts
  <2>2. /\ q.seq > 0 /\ q.size > 0 /\ End(q) <= highestSent
    <3>1. /\ w.seq > 0 /\ w.size > 0 /\ End(w) \in Nat /\ End(w) <= WindowEnd
          /\ WindowEnd \in Nat /\ WindowEnd < highestSent
      BY <1>5, <2>1, WindowFacts, WindowEndFacts DEF Started
    <3>2. End(q) = End(w)  BY <1>3 DEF End
    <3>3. highestSent \in Nat  BY OperaFacts
    <3>4. QED  BY <1>3, <3>1, <3>2, <3>3
  <2>3. /\ cumAck < q.seq \/ End(q) <= cumAck
        /\ \A a \in Blocks \cup Frame \cup {q} : Apart(q, a)
    BY <1>3, <2>1, FitsFrame
  <2>4. UNCHANGED <<received, cumAck, flowSize, clos>>
    BY <1>4 DEF sinkVars, OperaStep
  <2>5. highestSent' \in Nat /\ highestSent <= highestSent'  BY OperaFacts
  <2>6. QED  BY <1>4, <2>1, <2>2, <2>3, <2>4, <2>5, NewBlocks
<1>8. LastPackets' /\ Reported'
  <2>1. q.last => End(q) >= flowSize
    <3>1. w.last => End(w) >= flowSize  BY WindowFacts, OperaFacts
    <3>2. End(q) = End(w)  BY <1>3 DEF End
    <3>3. QED  BY <1>3, <3>1, <3>2
  <2>2. LastPackets /\ Reported  BY OperaFacts
  <2>3. QED  BY <1>4, <2>1, <2>2 DEF LastPackets, Reported, sinkVars, End
<1>9. Origin'
  <2>1. Origin  BY OperaFacts
  <2>2. QED  BY <1>4, <1>5, <2>1 DEF Origin, AckRequest
<1>10. Retransmits'
  <2>1. Retransmits  BY OperaFacts
  <2>2. ASSUME NEW i \in DOMAIN rtxQueue'
        PROVE  i + 1 \in DOMAIN rtxQueue /\ rtxQueue'[i] = rtxQueue[i + 1]
    BY <1>1
  <2>3. QED  BY <1>5, <2>1, <2>2 DEF Retransmits, RetransmitsWindow
<1>11. Acks'
  BY <1>4, <1>5, OperaFacts DEF Acks, sinkVars
<1>12. Loop'
  <2>1. Loop  BY OperaFacts
  <2>2. QED  BY <1>4, <2>1 DEF Loop, OneCreditLoop, sinkVars
<1>13. Accounted'
  <2>1. Arrived' = Arrived  BY <1>4 DEF Arrived, sinkVars
  <2>2. ASSUME NEW b \in 1..flowSize  PROVE Carried(b) => Carried(b)'
    BY <1>4 DEF Carried
  <2>3. ASSUME NEW b \in 1..flowSize, NEW i \in DOMAIN rtxQueue, b \in Bytes(rtxQueue[i])
        PROVE  Carried(b)' \/ \E j \in DOMAIN rtxQueue' : b \in Bytes(rtxQueue'[j])
    <3>1. CASE i = 1  BY <1>1, <1>4, <2>3, <3>1 DEF Carried
    <3>2. CASE i # 1
      <4>1. i - 1 \in DOMAIN rtxQueue' /\ rtxQueue'[i - 1] = rtxQueue[i]
        BY <1>1, <3>2
      <4>2. QED  BY <2>3, <4>1
    <3>3. QED  BY <3>1, <3>2
  <2>4. Accounted  BY OperaFacts
  <2>5. QED  BY <1>4, <1>5, <2>1, <2>2, <2>3, <2>4 DEF Accounted
<1>14. QED
  BY <1>5, <1>6, <1>7, <1>8, <1>9, <1>10, <1>11, <1>12, <1>13, OperaIInv

\* A credit that sends new data keeps the invariant: it starts where the last
\* byte sent ends.
LEMMA StepSendNew ==
  ASSUME OperaStep, highestSent > 0, highestSent < flowSize,
         NEW q, q = DataPacket(highestSent, FALSE), SendCase(q),
         rtxQueue' = rtxQueue, highestSent' = highestSent + q.size,
         credits' \in Seq(Nat)
  PROVE  IInv'
<1>0. TypeOK /\ highestSent \in Nat /\ flowSize \in FlowSizes  BY OperaFacts
<1>1. DataPacketAt(q, highestSent, FALSE)  BY <1>0, DataPacketFacts
<1>2. /\ net' = net \cup {q} /\ ~q.unsched /\ ~q.ackreq
      /\ UNCHANGED <<flowSize, lastUnsched, lastAcked, finished, sinkVars, ctls, ctlLost>>
  BY DEF SendCase
<1>3. /\ q \in DataPackets /\ q.seq = highestSent + 1 /\ q.size \in Nat \ {0}
      /\ q.last => End(q) >= flowSize
  BY <1>1 DEF DataPacketAt
<1>a. highestSent' = highestSent + q.size  OBVIOUS
<1>4. highestSent' \in Nat /\ highestSent < highestSent'  BY ONLY <1>0, <1>3, <1>a
<1>5. Started /\ Window' = Window /\ PktSize' = PktSize  BY <1>2, OperaFacts, FrameSame
<1>6. WindowEnd' = WindowEnd /\ WindowEnd \in Nat
  BY <1>0, <1>2, <1>5, WindowEndFacts DEF WindowEnd
<1>7. TypeOK'
  <2>1. net' \subseteq DataPackets  BY <1>0, <1>2, <1>3 DEF TypeOK
  <2>2. QED  BY <1>0, <1>2, <1>4, <2>1 DEF TypeOK, sinkVars
<1>b. End(q) = highestSent'
  BY ONLY <1>0, <1>3, <1>a DEF End
<1>8. Sorted' /\ Framed'
  <2>1. TypeOK /\ Sorted /\ Framed /\ Frame = Window  BY OperaFacts
  <2>2. \A w \in Frame : End(w) <= highestSent
    <3>1. ASSUME NEW w \in Window  PROVE End(w) <= highestSent
      <4>1. End(w) \in Nat /\ End(w) <= WindowEnd /\ WindowEnd < highestSent
        BY <1>0, <1>5, WindowFacts, WindowEndFacts DEF Started
      <4>2. QED  BY <1>0, <1>6, <4>1
    <3>2. QED  BY <2>1, <3>1
  <2>3. /\ q.seq > 0 /\ q.size > 0
        /\ cumAck < q.seq
        /\ \A a \in Blocks \cup Frame \cup {q} : Apart(q, a)
    BY <1>3, <2>1, <2>2, FitsBehind
  <2>4. UNCHANGED <<received, cumAck, flowSize, clos>>
    BY <1>2 DEF sinkVars, OperaStep
  <2>5. highestSent <= highestSent' /\ End(q) <= highestSent'
    BY ONLY <1>0, <1>4, <1>b
  <2>6. QED  BY <1>2, <1>4, <2>1, <2>3, <2>4, <2>5, NewBlocks
<1>9. LastPackets' /\ Reported'
  <2>1. LastPackets /\ Reported  BY OperaFacts
  <2>2. QED  BY <1>2, <1>3, <2>1 DEF LastPackets, Reported, sinkVars, End
<1>10. Started' /\ highestSent' > 0
  <2>1. WindowEnd < highestSent'
    <3>1. WindowEnd < highestSent  BY <1>5 DEF Started
    <3>2. QED  BY ONLY <1>0, <1>4, <1>6, <3>1
  <2>2. highestSent' > 0  BY ONLY <1>0, <1>4
  <2>3. lastUnsched' = lastUnsched  BY <1>2
  <2>4. QED  BY ONLY <1>5, <1>6, <2>1, <2>2, <2>3 DEF Started
<1>11. Origin'
  <2>1. Origin  BY OperaFacts
  <2>2. QED  BY <1>2, <1>5, <1>6, <2>1 DEF Origin, AckRequest
<1>12. Retransmits' /\ Acks'
  BY <1>2, <1>5, <1>6, OperaFacts DEF Retransmits, RetransmitsWindow, Acks, sinkVars
<1>13. Loop'
  <2>1. Loop  BY OperaFacts
  <2>2. QED  BY <1>2, <2>1 DEF Loop, OneCreditLoop, sinkVars
<1>14. Accounted'
  <2>1. Arrived' = Arrived  BY <1>2 DEF Arrived, sinkVars
  <2>2. ASSUME NEW b \in 1..flowSize  PROVE Carried(b) => Carried(b)'
    BY <1>2 DEF Carried
  <2>3. ASSUME NEW b \in 1..flowSize, b > highestSent
        PROVE  b > highestSent' \/ Carried(b)'
    <3>1. b \in Nat /\ flowSize \in Nat  BY OperaFacts
    <3>2. CASE b <= highestSent'
      <4>1. b \in Bytes(q)
        BY ONLY <1>0, <1>3, <1>a, <2>3, <3>1, <3>2 DEF Bytes
      <4>2. QED  BY <1>2, <4>1 DEF Carried
    <3>3. CASE ~ (b <= highestSent')
      <4>1. b > highestSent'  BY ONLY <1>4, <3>1, <3>3
      <4>2. QED  BY <4>1
    <3>4. QED  BY <3>2, <3>3
  <2>4. Accounted  BY OperaFacts
  <2>5. highestSent # 0  BY ONLY <1>0, highestSent > 0
  <2>6. /\ UNCHANGED <<finished, ctls, ctlLost, rtxQueue, flowSize>> /\ net \subseteq net'
    BY <1>2
  <2>7. ASSUME NEW b \in 1..flowSize
        PROVE  \/ b \in Arrived' \/ b > highestSent' \/ Carried(b)' \/ finished'
               \/ /\ b <= WindowEnd'
                  /\ \/ \E r \in net' : r.ackreq
                     \/ \E i \in DOMAIN rtxQueue' : b \in Bytes(rtxQueue'[i])
                     \/ \E ack \in ctls' : b > ack
                     \/ ctlLost'
    <3>1. \/ b \in Arrived \/ b > highestSent \/ Carried(b) \/ finished
          \/ /\ b <= WindowEnd
             /\ \/ \E r \in net : r.ackreq
                \/ \E i \in DOMAIN rtxQueue : b \in Bytes(rtxQueue[i])
                \/ \E ack \in ctls : b > ack
                \/ ctlLost
      BY <2>4, <2>5 DEF Accounted
    <3>2. QED  BY ONLY <1>6, <2>1, <2>2, <2>3, <2>6, <3>1
  <2>8. QED  BY <1>2, <2>7 DEF Accounted
<1>15. QED
  BY <1>7, <1>8, <1>9, <1>10, <1>11, <1>12, <1>13, <1>14, OperaIInv

\* A change of the network's bookkeeping, or none: data and window stay.
LEMMA StepIdle ==
  ASSUME OperaStep, highestSent > 0, TypeOK',
         UNCHANGED <<flowSize, lastUnsched, highestSent, rtxQueue,
                     cumAck, received, lastPacket, fcts>>,
         finished => finished', ctlLost => ctlLost',
         net' \subseteq net,
         \A p \in net \ net' : p.unsched \/ finished',
         ctls' \subseteq ctls, ctls' = ctls \/ ctlLost',
         Loop'
  PROVE  IInv'
<1>1. /\ Started' /\ highestSent' > 0
      /\ Window' = Window /\ WindowEnd' = WindowEnd /\ PktSize' = PktSize
  BY SameSource
<1>2. Sorted' /\ Framed'
  <2>1. TypeOK /\ Sorted /\ Framed  BY OperaFacts
  <2>2. UNCHANGED <<received, cumAck, flowSize, clos, highestSent>>  BY DEF OperaStep
  <2>3. QED  BY <2>1, <2>2, SameBlocks
<1>3. LastPackets' /\ Reported'  BY OperaFacts DEF LastPackets, Reported, End
<1>4. Origin'
  <2>1. Origin  BY OperaFacts
  <2>2. QED  BY <1>1, <2>1 DEF Origin, AckRequest
<1>5. Retransmits' /\ Acks'
  BY <1>1, OperaFacts DEF Retransmits, RetransmitsWindow, Acks
<1>6. Accounted'
  <2>1. Arrived' = Arrived  BY DEF Arrived
  <2>2. ASSUME NEW b \in 1..flowSize, Carried(b)  PROVE Carried(b)' \/ finished'
    BY <2>2 DEF Carried
  <2>3. ASSUME NEW r \in net, r.ackreq  PROVE r \in net' \/ finished'
    <3>1. Origin /\ flowSize \in FlowSizes  BY OperaFacts
    <3>2. ~r.unsched  BY <2>3, <3>1, WindowFacts DEF Origin
    <3>3. QED  BY <3>2
  <2>4. Accounted  BY OperaFacts
  <2>5. ASSUME NEW b \in 1..flowSize
        PROVE  \/ b \in Arrived' \/ b > highestSent' \/ Carried(b)' \/ finished'
               \/ /\ b <= WindowEnd'
                  /\ \/ \E r \in net' : r.ackreq
                     \/ \E i \in DOMAIN rtxQueue' : b \in Bytes(rtxQueue'[i])
                     \/ \E ack \in ctls' : b > ack
                     \/ ctlLost' \/ highestSent' = 0
    BY <1>1, <2>1, <2>2, <2>3, <2>4 DEF Accounted
  <2>6. QED  BY <2>5 DEF Accounted
<1>7. QED
  BY <1>1, <1>2, <1>3, <1>4, <1>5, <1>6, OperaIInv

\* A credit at the source keeps the invariant, whether it sends a packet again,
\* a new one, or finds nothing left to send.
LEMMA StepReceiveCredit ==
  ASSUME OperaStep, NEW i \in DOMAIN credits, ReceiveCredit(i)
  PROVE  IInv'
<1>1. TypeOK /\ lastAcked \in Nat /\ highestSent \in Nat /\ flowSize \in Nat
  BY OperaFacts DEF TypeOK
<1>2. SendPacket(rtxQueue) /\ UNCHANGED lastAcked
  BY <1>1 DEF ReceiveCredit, CumulativeAck
<1>3. credits' \in Seq(Nat)
  <2>1. credits \in Seq(Nat) /\ credits' = RemoveAt(credits, i)
    BY <1>1 DEF ReceiveCredit, TypeOK
  <2>2. QED  BY <2>1, RemoveAtProperties
<1>4. highestSent > 0
  <2>1. credits # <<>>  OBVIOUS
  <2>2. highestSent # 0  BY <2>1, OperaFacts DEF NotStarted
  <2>3. QED  BY <1>1, <2>2
<1>5. UNCHANGED <<flowSize, lastUnsched, finished, sinkVars, ctls, ctlLost>>
  BY DEF ReceiveCredit
<1>6. CASE rtxQueue # <<>>
  <2>1. net' = net \cup {Head(rtxQueue)} /\ rtxQueue' = Tail(rtxQueue)
        /\ UNCHANGED highestSent
    BY <1>2, <1>6 DEF SendPacket
  <2>2. ~Head(rtxQueue).unsched /\ ~Head(rtxQueue).ackreq
    <3>1. rtxQueue \in Seq(DataPackets)  BY <1>1 DEF TypeOK
    <3>2. 1 \in DOMAIN rtxQueue /\ Head(rtxQueue) = rtxQueue[1]
      BY <1>6, <3>1, LenProperties, EmptySeq
    <3>3. QED  BY <3>2, OperaFacts DEF Retransmits
  <2>3. SendCase(Head(rtxQueue))  BY <1>2, <1>5, <2>1, <2>2 DEF SendCase
  <2>4. QED  BY <1>3, <1>6, <2>1, <2>3, StepSendRtx
<1>7. CASE rtxQueue = <<>> /\ highestSent >= flowSize
  <2>0. ~ (highestSent < flowSize)  BY ONLY <1>1, <1>7
  <2>1. UNCHANGED <<net, highestSent, rtxQueue>>  BY ONLY <1>2, <1>7, <2>0 DEF SendPacket
  <2>2. TypeOK'  BY <1>1, <1>2, <1>3, <1>5, <2>1 DEF TypeOK, sinkVars
  <2>3. Loop'
    <3>1. Loop  BY OperaFacts
    <3>2. QED  BY <1>5, <2>1, <3>1 DEF Loop, OneCreditLoop, sinkVars
  <2>4. QED  BY <1>4, <1>5, <2>1, <2>2, <2>3, StepIdle DEF sinkVars
<1>8. CASE rtxQueue = <<>> /\ highestSent < flowSize
  <2>1. /\ net' = net \cup {DataPacket(highestSent, FALSE)}
        /\ highestSent' = highestSent + DataPacket(highestSent, FALSE).size
        /\ rtxQueue' = rtxQueue
    <3>1. ~ (highestSent >= flowSize)  BY ONLY <1>1, <1>8
    <3>2. QED  BY ONLY <1>2, <1>8, <3>1 DEF SendPacket
  <2>2. PICK q : q = DataPacket(highestSent, FALSE)  OBVIOUS
  <2>3. ~q.unsched /\ ~q.ackreq  BY <2>2 DEF DataPacket
  <2>4. net' = net \cup {q} /\ highestSent' = highestSent + q.size  BY <2>1, <2>2
  <2>5. SendCase(q)  BY <1>2, <1>5, <2>3, <2>4 DEF SendCase
  <2>6. QED  BY <1>3, <1>4, <1>8, <2>1, <2>2, <2>4, <2>5, StepSendNew
<1>9. QED  BY <1>1, <1>6, <1>7, <1>8

\* A credit the sink sends, or the end of its timer, keeps the invariant: the
\* timer of the credits stays the only one.
LEMMA StepSendCredit ==
  ASSUME OperaStep, SendCredit  PROVE IInv'
<1>1. TypeOK /\ Loop /\ highestSent \in Nat /\ timers \in Nat /\ timers > 0
  BY OperaFacts DEF TypeOK, SendCredit
<1>2. highestSent > 0
  <2>1. highestSent # 0  BY <1>1, OperaFacts DEF NotStarted
  <2>2. QED  BY <1>1, <2>1
<1>3. UNCHANGED <<srcVars, finished, cumAck, received, lastPacket, isPulling,
                  isRecovering, fcts, net, ctls, ctlLost>>
  BY DEF SendCredit
<1>4. credits' \in Seq(Nat)  BY <1>1 DEF SendCredit, TypeOK
<1>5. timers' \in Nat /\ timers' = IF finished THEN timers - 1 ELSE timers
  BY <1>1 DEF SendCredit
<1>6. TypeOK'  BY <1>1, <1>3, <1>4, <1>5 DEF TypeOK, srcVars
<1>7. Loop'  BY <1>1, <1>3, <1>5 DEF Loop, OneCreditLoop, srcVars
<1>8. QED  BY <1>2, <1>3, <1>6, <1>7, StepIdle DEF srcVars

\* The loss of a credit keeps the invariant.
LEMMA StepDropCredit ==
  ASSUME OperaStep, NEW i \in DOMAIN credits, DropCredit(i)
  PROVE  IInv'
<1>1. TypeOK /\ Loop /\ highestSent \in Nat  BY OperaFacts
<1>2. highestSent > 0
  <2>1. credits # <<>>  OBVIOUS
  <2>2. highestSent # 0  BY <2>1, OperaFacts DEF NotStarted
  <2>3. QED  BY <1>1, <2>2
<1>3. UNCHANGED <<srcVars, finished, sinkVars, net, ctls, ctlLost>>  BY DEF DropCredit
<1>4. credits' \in Seq(Nat)
  <2>1. credits \in Seq(Nat) /\ credits' = RemoveAt(credits, i)
    BY <1>1 DEF DropCredit, TypeOK
  <2>2. QED  BY <2>1, RemoveAtProperties
<1>5. TypeOK'  BY <1>1, <1>3, <1>4 DEF TypeOK, srcVars, sinkVars
<1>6. Loop'  BY <1>1, <1>3 DEF Loop, OneCreditLoop, srcVars, sinkVars
<1>7. QED  BY <1>2, <1>3, <1>5, <1>6, StepIdle DEF srcVars, sinkVars

\* The loss of a control packet keeps the invariant.
LEMMA StepDropCtl ==
  ASSUME OperaStep, NEW ack \in ctls, DropCtl(ack)
  PROVE  IInv'
<1>1. TypeOK /\ Loop /\ highestSent \in Nat  BY OperaFacts
<1>2. highestSent > 0
  <2>1. highestSent # 0  BY <1>1, OperaFacts DEF NotStarted
  <2>2. QED  BY <1>1, <2>1
<1>3. /\ UNCHANGED <<srcVars, finished, sinkVars, net, credits>>
      /\ ctls' = ctls \ {ack} /\ ctlLost' = TRUE
  BY DEF DropCtl
<1>4. TypeOK'  BY <1>1, <1>3 DEF TypeOK, srcVars, sinkVars
<1>5. Loop'  BY <1>1, <1>3 DEF Loop, OneCreditLoop, srcVars, sinkVars
<1>6. QED  BY <1>2, <1>3, <1>4, <1>5, StepIdle DEF srcVars, sinkVars

\* The loss of a data packet keeps the invariant: unscheduled ones are asked
\* for again, any other ends the flow.
LEMMA StepDropPacket ==
  ASSUME OperaStep, NEW p \in net, DropUnscheduled(p) \/ DropData(p)
  PROVE  IInv'
<1>1. TypeOK /\ Loop /\ highestSent \in Nat  BY OperaFacts
<1>2. highestSent > 0
  <2>1. highestSent # 0  BY <1>1, OperaFacts DEF NotStarted
  <2>2. QED  BY <1>1, <2>1
<1>3. /\ UNCHANGED <<srcVars, sinkVars, credits, ctls, ctlLost>>
      /\ net' = net \ {p} /\ finished' \in BOOLEAN /\ (finished => finished')
      /\ p.unsched \/ finished'
  BY <1>1 DEF DropUnscheduled, DropData, TypeOK
<1>4. TypeOK'  BY <1>1, <1>3 DEF TypeOK, srcVars, sinkVars
<1>5. Loop'
  <2>1. OneCreditLoop'  BY <1>1, <1>3 DEF Loop, OneCreditLoop, srcVars, sinkVars
  <2>2. QED  BY <1>1, <1>3, <2>1 DEF Loop, srcVars, sinkVars
<1>6. QED  BY <1>2, <1>3, <1>4, <1>5, StepIdle DEF srcVars, sinkVars

-----------------------------------------------------------------------------
(* A control packet: what it asks for again is the rest of the window *)

\* From a multiple of P to another, both included.
LEMMA Multiples ==
  ASSUME NEW P \in Nat \ {0}, NEW a \in Nat, NEW l \in Nat, a * P <= l * P
  PROVE  a <= l /\ ((l * P) + 1 - (a * P) + P - 1) \div P = l - a + 1
<1>1. a <= l
  <2>1. CASE l < a
    <3>1. (l * P) + P <= a * P  BY <2>1, MultiplesApart
    <3>2. l * P \in Nat /\ a * P \in Nat  OBVIOUS
    <3>3. QED  BY <3>1, <3>2
  <2>2. QED  BY <2>1
<1>2. l - a + 1 \in Nat  BY <1>1
<1>3. (l * P) + 1 - (a * P) + P - 1 = ((l - a + 1) * P) + 0  OBVIOUS
<1>4. QED  BY <1>1, <1>2, <1>3, DivisionUnique

Again(ack, add) ==
  /\ add \in Seq(DataPackets)
  /\ \A k \in DOMAIN add : /\ ~add[k].unsched /\ ~add[k].ackreq
                           /\ [add[k] EXCEPT !.unsched = TRUE] \in Window
  /\ \A b \in (ack + 1)..WindowEnd : \E k \in DOMAIN add : b \in Bytes(add[k])

\* What the answer to a probe queues for retransmission is just the packets of
\* the first window above the ack.
LEMMA SentAgain ==
  ASSUME flowSize \in FlowSizes, Started, NEW ack \in Nat,
         ack < lastUnsched => ack % PktSize = 0,
         ack >= lastUnsched => ack >= WindowEnd,
         NEW n, n = IF ack < lastUnsched
                    THEN (lastUnsched - ack + PktSize - 1) \div PktSize ELSE 0,
         NEW add, add = [k \in 1..n |-> DataPacket(ack + (k - 1) * PktSize, FALSE)]
  PROVE  Again(ack, add)
<1>1. /\ WindowEnd \in Nat /\ lastUnsched <= WindowEnd /\ WindowEnd <= flowSize
      /\ Offset(lastUnsched - 1) /\ lastUnsched \in Nat
      /\ flowSize \in Nat \ {0} /\ PktSize \in Nat \ {0}
  BY WindowEndFacts, PktSizeFacts
<1>2. CASE ack >= lastUnsched
  <2>1. n = 0 /\ ack >= WindowEnd  BY <1>1, <1>2
  <2>2. DOMAIN add = {} /\ (ack + 1)..WindowEnd = {}  BY <1>1, <2>1
  <2>3. add \in Seq(DataPackets)
    <3>1. add \in [1..0 -> DataPackets]  BY <2>1, <2>2
    <3>2. QED  BY <3>1, SeqDef, ZenonT(30)
  <2>4. QED  BY <2>2, <2>3 DEF Again
<1>3. CASE ack < lastUnsched
  <2>1. PICK P : P = PktSize  OBVIOUS
  <2>2. PICK u : u = lastUnsched - 1  OBVIOUS
  <2>3. /\ P \in Nat \ {0} /\ u \in Nat /\ u % P = 0 /\ ack % P = 0 /\ ack <= u
        /\ n = (u + 1 - ack + P - 1) \div P
    BY <1>1, <1>3, <2>1, <2>2 DEF Offset
  <2>4. PICK a \in Nat : ack = a * P
    <3>1. ack \div P \in Nat /\ ack = (ack \div P) * P + (ack % P)
          /\ (ack \div P) * P \in Nat
      BY <2>3, Division
    <3>2. ack = (ack \div P) * P  BY <2>3, <3>1
    <3>3. QED  BY <3>1, <3>2
  <2>5. PICK l \in Nat : u = l * P
    <3>1. u \div P \in Nat /\ u = (u \div P) * P + (u % P)
          /\ (u \div P) * P \in Nat
      BY <2>3, Division
    <3>2. u = (u \div P) * P  BY <2>3, <3>1
    <3>3. QED  BY <3>1, <3>2
  <2>6. a <= l /\ n = l - a + 1
    BY <2>3, <2>4, <2>5, Multiples
  <2>7. ASSUME NEW k \in 1..n
        PROVE  /\ Offset(ack + (k - 1) * P)
               /\ ack + (k - 1) * P \in Nat /\ ack + (k - 1) * P < flowSize
               /\ ack + (k - 1) * P = (a + k - 1) * P
    <3>1. k \in Nat /\ 1 <= k /\ k <= n  BY <2>6
    <3>2. PICK m \in Nat : m = a + k - 1 /\ m <= l  BY ONLY <2>4, <2>5, <2>6, <3>1
    <3>3. ack + (k - 1) * P = m * P
      BY ONLY <2>3, <2>4, <3>1, <3>2
    <3>4. m * P \in Nat /\ m * P <= u
      <4>1. CASE m = l  BY ONLY <2>3, <2>5, <4>1
      <4>2. CASE m < l
        <5>1. (m * P) + P <= l * P  BY <2>3, <4>2, MultiplesApart
        <5>2. QED  BY ONLY <2>3, <2>5, <3>2, <5>1
      <4>3. QED  BY <3>2, <4>1, <4>2
    <3>5. (m * P) % P = 0
      <4>1. ((m * P) + 0) % P = 0  BY <2>3, DivisionUnique
      <4>2. QED  BY <3>4, <4>1
    <3>6. Offset(m * P)
      <4>1. u < LesserOf(InitCwnd, flowSize) /\ LesserOf(InitCwnd, flowSize) \in Nat
        BY <1>1, <2>2, XPassAssumption DEF Offset, LesserOf
      <4>2. m * P < LesserOf(InitCwnd, flowSize)  BY ONLY <2>3, <3>4, <4>1
      <4>3. QED  BY <2>1, <3>4, <3>5, <4>2 DEF Offset
    <3>7. m * P < flowSize  BY <3>6, WindowPackets
    <3>8. QED  BY <3>2, <3>3, <3>4, <3>6, <3>7
  <2>8. add = [k \in 1..n |-> DataPacket(ack + (k - 1) * P, FALSE)]  BY <2>1
  <2>9. n \in Nat /\ DOMAIN add = 1..n  BY <2>6, <2>8
  <2>10. ASSUME NEW k \in 1..n
         PROVE  /\ DataPacketAt(add[k], ack + (k - 1) * P, FALSE)
                /\ [add[k] EXCEPT !.unsched = TRUE] \in Window
    <3>1. PICK o : o = ack + (k - 1) * P  OBVIOUS
    <3>2. Offset(o) /\ o \in Nat /\ o < flowSize  BY <2>7, <3>1
    <3>3. add[k] = DataPacket(o, FALSE)  BY <2>8, <3>1
    <3>4. DataPacketAt(DataPacket(o, FALSE), o, FALSE)  BY <3>2, DataPacketFacts
    <3>5. [DataPacket(o, FALSE) EXCEPT !.unsched = TRUE] = DataPacket(o, TRUE)
      <4>1. DataPacketAt(DataPacket(o, TRUE), o, TRUE)  BY <3>2, DataPacketFacts
      <4>2. DataPacket(o, FALSE).last => o + LesserOf(PktSize, flowSize - o) >= flowSize
        BY DEF DataPacket
      <4>3. DataPacket(o, TRUE).last => o + LesserOf(PktSize, flowSize - o) >= flowSize
        BY DEF DataPacket
      <4>4. o + LesserOf(PktSize, flowSize - o) >= flowSize =>
              DataPacket(o, TRUE).last /\ DataPacket(o, FALSE).last
        BY DEF DataPacket
      <4>5. DataPacket(o, FALSE).last <=> DataPacket(o, TRUE).last
        BY ONLY <4>2, <4>3, <4>4
      <4>6. QED  BY <3>4, <4>1, <4>5 DEF DataPacketAt, DataPackets
    <3>6. DataPacket(o, TRUE) \in Window  BY <3>2, WindowPackets
    <3>7. QED  BY <3>1, <3>3, <3>4, <3>5, <3>6
  <2>11. add \in Seq(DataPackets)
    <3>1. \A k \in 1..n : add[k] \in DataPackets  BY <2>10 DEF DataPacketAt
    <3>2. add \in [1..n -> DataPackets]  BY <2>8, <2>9, <3>1
    <3>3. [1..n -> DataPackets] \in {[1..m -> DataPackets] : m \in Nat}  BY ONLY <2>9
    <3>4. QED  BY ONLY <3>2, <3>3, SeqDef
  <2>12. ASSUME NEW b \in (ack + 1)..WindowEnd
         PROVE  \E k \in DOMAIN add : b \in Bytes(add[k])
    <3>1. b \in Nat \ {0} /\ ack < b /\ b <= WindowEnd /\ b <= flowSize  BY <1>1
    <3>2. PICK m \in Nat, r \in 0..(P - 1) : b - 1 = (m * P) + r /\ m * P \in Nat
      <4>1. b - 1 \in Nat  BY <3>1
      <4>2. QED  BY <2>3, <4>1, Division
    <3>3. a <= m
      <4>1. CASE m < a
        <5>1. (m * P) + P <= a * P  BY <2>3, <4>1, MultiplesApart
        <5>2. QED  BY ONLY <2>3, <2>4, <3>1, <3>2, <5>1
      <4>2. QED  BY <4>1
    <3>4. m <= l
      <4>1. CASE l < m
        <5>1. (l * P) + P <= m * P  BY <2>3, <4>1, MultiplesApart
        <5>2. WindowEnd <= u + P
          BY <1>1, <2>1, <2>2, <2>3 DEF WindowEnd, LesserOf
        <5>3. QED  BY ONLY <1>1, <2>3, <2>5, <3>1, <3>2, <5>1, <5>2
      <4>2. QED  BY <4>1
    <3>5. PICK k \in 1..n : k = m - a + 1
      BY ONLY <2>6, <2>9, <3>3, <3>4, a \in Nat, m \in Nat, l \in Nat
    <3>6. DataPacketAt(add[k], m * P, FALSE)
      <4>1. ack + (k - 1) * P = (a + k - 1) * P  BY <2>7
      <4>2. a + k - 1 = m  BY ONLY <3>5, a \in Nat, m \in Nat, k \in 1..n, <2>9
      <4>3. QED  BY <2>10, <4>1, <4>2
    <3>7. b \in Bytes(add[k])
      <4>1. /\ add[k].seq = (m * P) + 1 /\ add[k].size \in Nat \ {0}
            /\ add[k].size = LesserOf(P, flowSize - (m * P))
        BY <2>1, <3>6 DEF DataPacketAt
      <4>2. b >= add[k].seq /\ b <= add[k].seq + add[k].size - 1
        <5>1. PICK s : s = m * P /\ s \in Nat  BY <3>2
        <5>2. CASE add[k].size = P
          BY ONLY <2>3, <3>1, <3>2, <4>1, <5>1, <5>2
        <5>3. CASE add[k].size = flowSize - s
          BY ONLY <1>1, <2>3, <3>1, <3>2, <4>1, <5>1, <5>3
        <5>4. QED  BY <4>1, <5>1, <5>2, <5>3 DEF LesserOf
      <4>3. add[k].seq \in Nat  BY ONLY <3>2, <4>1
      <4>4. QED  BY ONLY <3>1, <4>1, <4>2, <4>3 DEF Bytes
    <3>8. QED  BY <2>9, <3>7
  <2>13. QED  BY <2>9, <2>10, <2>11, <2>12 DEF Again, DataPacketAt
<1>4. QED  BY <1>1, <1>2, <1>3

\* A control packet at the source keeps the invariant: it queues what is
\* missing of the first window, or finds that nothing is.
LEMMA StepReceiveCtl ==
  ASSUME OperaStep, NEW ack \in ctls, ReceiveCtl(ack)
  PROVE  IInv'
<1>1. /\ TypeOK /\ Sorted /\ Framed /\ LastPackets /\ Reported
      /\ Origin /\ Retransmits /\ Acks /\ Loop /\ Accounted
      /\ highestSent \in Nat /\ flowSize \in FlowSizes /\ flowSize \in Nat \ {0}
  BY OperaFacts
<1>2. highestSent > 0
  <2>1. highestSent # 0  BY OperaFacts DEF NotStarted
  <2>2. QED  BY <1>1, <2>1
<1>3. /\ ctls' = ctls \ {ack}
      /\ UNCHANGED <<flowSize, highestSent, lastUnsched, lastAcked, finished, sinkVars,
                     net, credits, ctlLost>>
  BY DEF ReceiveCtl
<1>4. PICK n : n = IF ack < lastUnsched
                   THEN (lastUnsched - ack + PktSize - 1) \div PktSize ELSE 0
  OBVIOUS
<1>5. PICK add : add = [k \in 1..n |-> DataPacket(ack + (k - 1) * PktSize, FALSE)]
  OBVIOUS
<1>6. rtxQueue' = rtxQueue \o add  BY <1>4, <1>5 DEF ReceiveCtl
<1>7. /\ Started /\ Started' /\ highestSent' > 0
      /\ Window' = Window /\ WindowEnd' = WindowEnd /\ PktSize' = PktSize
  BY <1>2, <1>3, SameSource
<1>8. Again(ack, add)
  <2>1. /\ ack \in Nat
        /\ ack < lastUnsched => ack % PktSize = 0
        /\ ack >= lastUnsched => ack >= WindowEnd
    BY <1>1 DEF TypeOK, Acks
  <2>2. QED  BY <1>1, <1>4, <1>5, <1>7, <2>1, SentAgain
<1>9. /\ rtxQueue' \in Seq(DataPackets)
      /\ \A i \in DOMAIN rtxQueue' :
           \/ i \in DOMAIN rtxQueue /\ rtxQueue'[i] = rtxQueue[i]
           \/ \E k \in DOMAIN add : rtxQueue'[i] = add[k]
      /\ \A i \in DOMAIN rtxQueue : i \in DOMAIN rtxQueue' /\ rtxQueue'[i] = rtxQueue[i]
      /\ \A k \in DOMAIN add : \E i \in DOMAIN rtxQueue' : rtxQueue'[i] = add[k]
  <2>1. rtxQueue \in Seq(DataPackets) /\ add \in Seq(DataPackets)
    BY <1>1, <1>8 DEF TypeOK, Again
  <2>2. PICK m \in Nat, l \in Nat :
          /\ m = Len(rtxQueue) /\ l = Len(add)
          /\ DOMAIN rtxQueue = 1..m /\ DOMAIN add = 1..l
    BY <2>1, LenProperties
  <2>3. /\ rtxQueue' \in Seq(DataPackets) /\ Len(rtxQueue') = m + l
        /\ \A i \in 1..(m + l) :
             rtxQueue'[i] = IF i <= m THEN rtxQueue[i] ELSE add[i - m]
    BY <1>6, <2>1, <2>2, ConcatProperties
  <2>4. DOMAIN rtxQueue' = 1..(m + l)  BY <2>3, LenProperties
  <2>5. ASSUME NEW i \in DOMAIN rtxQueue'
        PROVE  \/ i \in DOMAIN rtxQueue /\ rtxQueue'[i] = rtxQueue[i]
               \/ \E k \in DOMAIN add : rtxQueue'[i] = add[k]
    <3>1. CASE i <= m  BY <2>2, <2>3, <2>4, <3>1
    <3>2. CASE i > m
      <4>1. i - m \in DOMAIN add  BY <2>2, <2>4, <3>2
      <4>2. QED  BY <2>2, <2>3, <2>4, <3>2, <4>1
    <3>3. QED  BY <2>2, <2>4, <3>1, <3>2
  <2>6. ASSUME NEW i \in DOMAIN rtxQueue
        PROVE  i \in DOMAIN rtxQueue' /\ rtxQueue'[i] = rtxQueue[i]
    BY <2>2, <2>3, <2>4
  <2>7. ASSUME NEW k \in DOMAIN add
        PROVE  \E i \in DOMAIN rtxQueue' : rtxQueue'[i] = add[k]
    <3>1. m + k \in DOMAIN rtxQueue' /\ ~ (m + k <= m) /\ m + k - m = k
          /\ m + k \in 1..(m + l)
      BY <2>2, <2>4
    <3>2. rtxQueue'[m + k] = add[k]
      <4>1. PICK i \in 1..(m + l) : i = m + k  BY <3>1
      <4>a. k \in 1..l  BY <2>2
      <4>2. ~ (i <= m) /\ i - m = k  BY ONLY <4>1, <4>a, m \in Nat, l \in Nat
      <4>3. rtxQueue'[i] = add[i - m]  BY ONLY <2>3, <4>2, i \in 1..(m + l)
      <4>4. QED  BY <4>1, <4>2, <4>3
    <3>3. QED  BY <3>1, <3>2
  <2>8. QED  BY <2>3, <2>5, <2>6, <2>7
<1>10. TypeOK'  BY <1>1, <1>3, <1>9 DEF TypeOK, sinkVars
<1>11. Sorted' /\ Framed'
  <2>1. UNCHANGED <<received, cumAck, flowSize, clos, highestSent>> /\ net' \subseteq net
    BY <1>3 DEF OperaStep, sinkVars
  <2>2. QED  BY <1>1, <2>1, SameBlocks
<1>12. LastPackets' /\ Reported'  BY <1>1, <1>3 DEF LastPackets, Reported, End, sinkVars
<1>13. Origin'  BY <1>1, <1>3, <1>7 DEF Origin, AckRequest
<1>14. Retransmits'
  <2>1. ASSUME NEW i \in DOMAIN rtxQueue'
        PROVE  /\ [rtxQueue'[i] EXCEPT !.unsched = TRUE] \in Window
               /\ ~rtxQueue'[i].unsched /\ ~rtxQueue'[i].ackreq
    <3>1. CASE i \in DOMAIN rtxQueue /\ rtxQueue'[i] = rtxQueue[i]
      BY <1>1, <3>1 DEF Retransmits, RetransmitsWindow
    <3>2. CASE \E k \in DOMAIN add : rtxQueue'[i] = add[k]
      BY <1>8, <3>2 DEF Again
    <3>3. QED  BY <1>9, <3>1, <3>2
  <2>2. QED  BY <1>7, <2>1 DEF Retransmits, RetransmitsWindow
<1>15. Acks'  BY <1>1, <1>3, <1>7 DEF Acks, sinkVars
<1>16. Loop'  BY <1>1, <1>3 DEF Loop, OneCreditLoop, sinkVars
<1>17. Accounted'
  <2>1. Arrived' = Arrived  BY <1>3 DEF Arrived, sinkVars
  <2>2. ASSUME NEW b \in 1..flowSize, b <= WindowEnd, b > ack
        PROVE  \E i \in DOMAIN rtxQueue' : b \in Bytes(rtxQueue'[i])
    <3>1. b \in (ack + 1)..WindowEnd
      <4>1. ack \in Nat /\ WindowEnd \in Nat  BY <1>1, <1>7, WindowEndFacts DEF TypeOK
      <4>2. QED  BY <2>2, <4>1
    <3>2. PICK k \in DOMAIN add : b \in Bytes(add[k])  BY <1>8, <3>1 DEF Again
    <3>3. QED  BY <1>9, <3>2
  <2>3. ASSUME NEW b \in 1..flowSize, NEW i \in DOMAIN rtxQueue, b \in Bytes(rtxQueue[i])
        PROVE  \E j \in DOMAIN rtxQueue' : b \in Bytes(rtxQueue'[j])
    BY <1>9, <2>3
  <2>4. ASSUME NEW b \in 1..flowSize  PROVE Carried(b)' = Carried(b)
    BY <1>3 DEF Carried
  <2>5. UNCHANGED <<finished, ctlLost, flowSize, net, highestSent>>  BY <1>3
  <2>6. ASSUME NEW b \in 1..flowSize
        PROVE  \/ b \in Arrived' \/ b > highestSent' \/ Carried(b)' \/ finished'
               \/ /\ b <= WindowEnd'
                  /\ \/ \E r \in net' : r.ackreq
                     \/ \E i \in DOMAIN rtxQueue' : b \in Bytes(rtxQueue'[i])
                     \/ \E c \in ctls' : b > c
                     \/ ctlLost' \/ highestSent' = 0
    <3>1. \/ b \in Arrived \/ b > highestSent \/ Carried(b) \/ finished
          \/ /\ b <= WindowEnd
             /\ \/ \E r \in net : r.ackreq
                \/ \E i \in DOMAIN rtxQueue : b \in Bytes(rtxQueue[i])
                \/ \E c \in ctls : b > c
                \/ ctlLost \/ highestSent = 0
      BY <1>1 DEF Accounted
    <3>2. CASE b > ack /\ b <= WindowEnd  BY <1>7, <2>2, <3>2
    <3>3. CASE ~ (b > ack /\ b <= WindowEnd)
      <4>1. ASSUME NEW c \in ctls, b > c, b <= WindowEnd  PROVE c \in ctls'
        BY <1>3, <3>3, <4>1
      <4>2. QED  BY <1>7, <2>1, <2>3, <2>4, <2>5, <3>1, <4>1
    <3>4. QED  BY <3>2, <3>3
  <2>7. QED  BY <2>5, <2>6 DEF Accounted
<1>18. QED
  BY <1>7, <1>10, <1>11, <1>12, <1>13, <1>14, <1>15, <1>16, <1>17, OperaIInv

-----------------------------------------------------------------------------
(* Data arrives at the sink of Opera *)

\* A packet at the sink adds its bytes to what has arrived and takes none away.
LEMMA ArrivedGrows ==
  ASSUME TypeOK, Sorted, Framed, NEW p \in net,
         cumAck' = Accept(p).ack, received' = Accept(p).rest
  PROVE  /\ cumAck' \in Nat /\ cumAck <= cumAck' /\ received' \in BlockList
         /\ Bytes(p) \subseteq Arrived' /\ Arrived \subseteq Arrived'
         /\ 1..cumAck' \subseteq Arrived'
<1>1. Accepted(p, cumAck', received')  BY AcceptProperties
<1>2. \A b \in Bytes(p) \cup Arrived :
        b \in 1..cumAck' \/ \E i \in DOMAIN received' : b \in Bytes(received'[i])
  BY <1>1 DEF Accepted
<1>3. Bytes(p) \subseteq Arrived' /\ Arrived \subseteq Arrived'
  BY <1>2 DEF Arrived, Bytes
<1>4. 1..cumAck' \subseteq Arrived'  BY DEF Arrived
<1>5. QED  BY <1>1, <1>3, <1>4 DEF Accepted

\* An ack that is inside no packet of the window is the end of one, or of all.
LEMMA AckBoundary ==
  ASSUME flowSize \in FlowSizes, Started, NEW c \in Nat,
         \A w \in Window : c < w.seq \/ End(w) <= c
  PROVE  /\ c < lastUnsched => c % PktSize = 0
         /\ c >= lastUnsched => c >= WindowEnd
<1>1. /\ WindowEnd \in Nat /\ lastUnsched <= WindowEnd /\ WindowEnd <= flowSize
      /\ Offset(lastUnsched - 1) /\ lastUnsched \in Nat
      /\ flowSize \in Nat \ {0} /\ PktSize \in Nat \ {0}
  BY WindowEndFacts, PktSizeFacts
<1>2. ASSUME c >= lastUnsched  PROVE c >= WindowEnd
  <2>1. PICK w \in Window : w.seq = lastUnsched  BY DEF Started
  <2>2. End(w) = WindowEnd  BY <2>1, WindowEndFacts
  <2>3. c < w.seq \/ End(w) <= c  OBVIOUS
  <2>4. QED  BY <1>1, <1>2, <2>1, <2>2, <2>3
<1>3. ASSUME c < lastUnsched  PROVE c % PktSize = 0
  <2>1. PICK P : P = PktSize  OBVIOUS
  <2>2. PICK u : u = lastUnsched - 1  OBVIOUS
  <2>3. P \in Nat \ {0} /\ u \in Nat /\ c <= u /\ u < flowSize
    BY <1>1, <1>3, <2>1, <2>2
  <2>4. PICK k \in Nat, r \in 0..(P - 1) :
          c = (k * P) + r /\ k * P \in Nat /\ r = c % P
    BY <2>3, Division
  <2>5. Offset(k * P)
    <3>1. u < LesserOf(InitCwnd, flowSize) /\ LesserOf(InitCwnd, flowSize) \in Nat
      BY <1>1, <2>2, XPassAssumption DEF Offset, LesserOf
    <3>2. k * P < LesserOf(InitCwnd, flowSize)  BY ONLY <2>3, <2>4, <3>1
    <3>3. ((k * P) + 0) % P = 0  BY <2>3, DivisionUnique
    <3>4. (k * P) % P = 0  BY <2>4, <3>3
    <3>5. QED  BY <2>1, <2>4, <3>2, <3>4 DEF Offset
  <2>6. PICK o : o = k * P  OBVIOUS
  <2>7. DataPacket(o, TRUE) \in Window /\ DataPacketAt(DataPacket(o, TRUE), o, TRUE)
    BY <2>5, <2>6, WindowPackets
  <2>8. PICK w \in Window : DataPacketAt(w, o, TRUE)  BY <2>7
  <2>9. /\ o \in Nat /\ w.seq = o + 1 /\ End(w) = o + w.size /\ w.size \in Nat
        /\ w.size = P \/ w.size = flowSize - o
    BY <2>1, <2>4, <2>6, <2>8 DEF DataPacketAt, LesserOf
  <2>10. c < w.seq \/ End(w) <= c  OBVIOUS
  <2>11. c = o + r  BY <2>4, <2>6
  <2>12. r = 0  BY ONLY <1>1, <2>3, <2>9, <2>10, <2>11, r \in 0..(P - 1), c \in Nat
  <2>13. QED  BY <2>1, <2>4, <2>12
<1>4. QED  BY <1>2, <1>3

\* A packet at the sink keeps the invariant, also when it is the probe, when it
\* is a duplicate, and when it completes the flow.
LEMMA StepReceiveData ==
  ASSUME OperaStep, NEW p \in net, ReceiveData(p)
  PROVE  IInv'
<1> DEFINE last == IF p.last THEN p.seq + p.size - 1 ELSE lastPacket
           done == CompletesWith(cumAck', last)
           caughtUp == p.seq = cumAck + 1 /\ p.seq + p.size - 1 >= InitCwnd
<1>1. /\ TypeOK /\ Sorted /\ Framed /\ LastPackets /\ Reported
      /\ Origin /\ Retransmits /\ Acks /\ Loop /\ Accounted
      /\ highestSent \in Nat /\ flowSize \in FlowSizes /\ flowSize \in Nat \ {0}
      /\ cumAck \in Nat
  BY OperaFacts
<1>2. highestSent > 0
  <2>1. highestSent # 0  BY OperaFacts DEF NotStarted
  <2>2. QED  BY <1>1, <2>1
<1>3. /\ cumAck' = Accept(p).ack /\ received' = Accept(p).rest
      /\ net' = net \ {p}
      /\ UNCHANGED <<flowSize, highestSent, lastUnsched, lastAcked, rtxQueue,
                     credits, ctlLost>>
  BY DEF ReceiveData, srcVars
<1>4. /\ lastPacket' = last
      /\ finished' = (finished \/ done)
      /\ fcts' = IF done THEN fcts + 1 ELSE fcts
  BY <1>3 DEF ReceiveData
<1>5. /\ isPulling' = (isPulling \/ StartsPulling)
      /\ isRecovering' = (StartsRecovering(p, cumAck') \/ (isRecovering /\ ~ caughtUp))
      /\ timers' = timers + (IF StartsPulling THEN 1 ELSE 0)
                          + (IF StartsRecovering(p, cumAck') THEN 1 ELSE 0)
      /\ ctls' = IF p.ackreq THEN ctls \cup {LesserOf(cumAck', p.seq)} ELSE ctls
  BY <1>3 DEF ReceiveData
<1> HIDE DEF last, caughtUp
<1>6. /\ Started /\ Started' /\ highestSent' > 0
      /\ Window' = Window /\ WindowEnd' = WindowEnd /\ PktSize' = PktSize
  BY <1>2, <1>3, SameSource
<1>7. /\ cumAck' \in Nat /\ cumAck <= cumAck' /\ received' \in BlockList
      /\ Bytes(p) \subseteq Arrived' /\ Arrived \subseteq Arrived'
      /\ 1..cumAck' \subseteq Arrived'
  BY <1>1, <1>3, ArrivedGrows
<1>8. p \in DataPackets /\ p.seq \in Nat /\ End(p) \in Nat /\ p.seq + p.size - 1 = End(p)
  <2>1. p \in DataPackets  BY <1>1 DEF TypeOK
  <2>2. p \in Blocks  BY DEF Blocks
  <2>3. QED  BY <1>1, <2>1, <2>2, BlockFacts DEF End
<1>9. last \in Nat /\ (last > 0 => last >= flowSize)
  <2>1. lastPacket \in Nat /\ (lastPacket > 0 => lastPacket >= flowSize)
    BY <1>1 DEF TypeOK, LastPackets
  <2>2. p.last => End(p) >= flowSize  BY <1>1 DEF LastPackets
  <2>3. QED  BY <1>8, <2>1, <2>2 DEF last
<1>10. LesserOf(cumAck', p.seq) \in Nat  BY <1>7, <1>8 DEF LesserOf
<1>11. TypeOK'
  <2>1. timers \in Nat /\ fcts \in Nat /\ ctls \subseteq Nat /\ lastAcked \in Nat
        /\ lastUnsched \in Nat
    BY <1>1 DEF TypeOK
  <2>2. timers' \in Nat /\ fcts' \in Nat /\ lastPacket' \in Nat /\ ctls' \subseteq Nat
    <3>1. timers' \in Nat
      <4>1. PICK i \in {0, 1}, j \in {0, 1} : timers' = timers + i + j  BY <1>5
      <4>2. QED  BY ONLY <2>1, <4>1
    <3>2. fcts' \in Nat
      <4>1. CASE fcts' = fcts + 1  BY ONLY <2>1, <4>1
      <4>2. CASE fcts' = fcts  BY ONLY <2>1, <4>2
      <4>3. QED  BY <1>4, <4>1, <4>2
    <3>3. QED  BY <1>4, <1>5, <1>9, <1>10, <2>1, <3>1, <3>2
  <2>3. received' \in Seq([seq : Nat, size : Nat])  BY <1>7 DEF BlockList, Block
  <2>4. isPulling' \in BOOLEAN /\ isRecovering' \in BOOLEAN /\ finished' \in BOOLEAN
    BY <1>4, <1>5
  <2>5. net' \subseteq DataPackets  BY <1>1, <1>3 DEF TypeOK
  <2>6. QED  BY <1>1, <1>3, <1>7, <2>1, <2>2, <2>3, <2>4, <2>5 DEF TypeOK
<1>12. Sorted' /\ Framed'
  <2>1. clos' = clos  BY DEF OperaStep
  <2>2. QED  BY <1>1, <1>3, <2>1, ReceivedBlocks
<1>13. LastPackets' /\ Reported'
  <2>1. LastPackets'  BY <1>1, <1>3, <1>4, <1>9 DEF LastPackets, End
  <2>2. Reported'
    <3>1. fcts \in Nat /\ fcts <= 1 /\ (fcts > 0 => finished)
      BY <1>1 DEF TypeOK, Reported
    <3>2. done => ~finished  BY DEF CompletesWith
    <3> HIDE DEF done
    <3>3. CASE done
      <4>1. fcts' = fcts + 1 /\ finished' /\ ~finished  BY <1>4, <3>2, <3>3
      <4>2. QED  BY ONLY <3>1, <4>1 DEF Reported
    <3>4. CASE ~done  BY <1>4, <3>1, <3>4 DEF Reported
    <3>5. QED  BY <3>3, <3>4
  <2>3. QED  BY <2>1, <2>2
<1>14. Origin'  BY <1>1, <1>3, <1>6 DEF Origin, AckRequest
<1>15. Retransmits'  BY <1>1, <1>3, <1>6 DEF Retransmits, RetransmitsWindow
<1>16. p.ackreq => p = AckRequest(WindowEnd) /\ p.seq = WindowEnd + 1
  BY <1>1 DEF Origin, AckRequest
<1>17. WindowEnd \in Nat /\ lastUnsched \in Nat /\ lastUnsched <= WindowEnd
  BY <1>1, <1>6, WindowEndFacts
<1>18. Acks'
  <2>1. /\ cumAck' < lastUnsched => cumAck' % PktSize = 0
        /\ cumAck' >= lastUnsched => cumAck' >= WindowEnd
    <3>1. ~clos  BY DEF OperaStep
    <3>2. Frame' = Window  BY <1>6, <3>1 DEF Frame, OperaStep
    <3>3. \A w \in Window : cumAck' < w.seq \/ End(w)' <= cumAck'
      BY <1>12, <3>2 DEF Framed, End
    <3>4. \A w \in Window : cumAck' < w.seq \/ End(w) <= cumAck'
      BY <3>3 DEF End
    <3>5. QED  BY <1>1, <1>6, <1>7, <3>4, AckBoundary
  <2>2. ASSUME NEW c \in ctls
        PROVE  /\ c <= cumAck'
               /\ c < lastUnsched => c % PktSize = 0
               /\ c >= lastUnsched => c >= WindowEnd
    <3>1. /\ c <= cumAck /\ c \in Nat
          /\ c < lastUnsched => c % PktSize = 0
          /\ c >= lastUnsched => c >= WindowEnd
      BY <1>1 DEF Acks, TypeOK
    <3>2. c <= cumAck'  BY ONLY <1>1, <1>7, <3>1
    <3>3. QED  BY <3>1, <3>2
  <2>3. ASSUME NEW c, c = LesserOf(cumAck', p.seq), p.ackreq
        PROVE  /\ c <= cumAck'
               /\ c < lastUnsched => c % PktSize = 0
               /\ c >= lastUnsched => c >= WindowEnd
    <3>1. CASE c = cumAck'  BY <1>7, <2>1, <3>1
    <3>2. CASE c = p.seq /\ c <= cumAck'  BY <1>16, <1>17, <2>3, <3>2
    <3>3. c = cumAck' \/ (c = p.seq /\ c <= cumAck')
      BY <1>7, <1>8, <2>3 DEF LesserOf
    <3>4. QED  BY <3>1, <3>2, <3>3
  <2>4. \A c \in ctls' : c \in ctls \/ (p.ackreq /\ c = LesserOf(cumAck', p.seq))
    BY <1>5
  <2>5. QED  BY <1>3, <1>6, <2>2, <2>3, <2>4 DEF Acks
<1>19. Loop'
  <2>1. /\ timers \in Nat /\ timers <= 1
        /\ (isPulling \/ isRecovering) /\ ~finished => timers = 1
        /\ isPulling => flowSize > InitCwnd
        /\ ~isPulling /\ (timers > 0 \/ isRecovering) =>
             flowSize <= InitCwnd /\ \A q \in net : ~q.ackreq
    BY <1>1 DEF Loop, OneCreditLoop, TypeOK
  <2>2. finished => finished'  BY <1>4
  <2>3. InitCwnd \in Nat  BY XPassAssumption
  <2>4. CASE StartsPulling
    <3>1. ~isPulling /\ flowSize > InitCwnd  BY <2>4 DEF StartsPulling
    <3>2. timers = 0  BY <1>1, <2>1, <2>3, <3>1
    <3>3. ~StartsRecovering(p, cumAck')  BY <2>4 DEF StartsRecovering
    <3>4. timers' = 1 /\ isPulling'
      <4>1. timers' = timers + 1 + 0 /\ isPulling'  BY <1>5, <2>4, <3>3
      <4>2. QED  BY ONLY <3>2, <4>1
    <3>5. QED  BY <1>3, <3>1, <3>4 DEF Loop, OneCreditLoop
  <2>5. CASE ~StartsPulling /\ StartsRecovering(p, cumAck')
    <3>1. p.ackreq /\ ~isPulling  BY <2>5 DEF StartsRecovering
    <3>2. flowSize <= InitCwnd  BY <1>1, <2>3, <2>5, <3>1 DEF StartsPulling
    <3>3. timers = 0  BY <2>1, <3>1
    <3>4. timers' = 1 /\ ~isPulling' /\ isRecovering'
      <4>1. timers' = timers + 0 + 1  BY <1>5, <2>5
      <4>2. timers' = 1  BY ONLY <3>3, <4>1
      <4>3. QED  BY <1>5, <2>5, <3>1, <4>2
    <3>5. \A q \in net' : ~q.ackreq  BY <1>1, <1>3, <1>16, <3>1 DEF Origin
    <3>6. QED  BY <1>3, <3>2, <3>4, <3>5 DEF Loop, OneCreditLoop
  <2>6. CASE ~StartsPulling /\ ~StartsRecovering(p, cumAck')
    <3>1. /\ timers' = timers /\ isPulling' = isPulling /\ (isRecovering' => isRecovering)
          /\ flowSize' = flowSize /\ net' \subseteq net
      BY <1>1, <1>3, <1>5, <2>1, <2>6 DEF TypeOK
    <3>2. OneCreditLoop'  BY <2>1, <2>2, <3>1 DEF OneCreditLoop
    <3>3. QED  BY <2>1, <3>1, <3>2 DEF Loop
  <2>7. QED  BY <2>4, <2>5, <2>6
<1>20. Accounted'
  <2>1. UNCHANGED <<flowSize, highestSent, rtxQueue, ctlLost>> /\ ctls \subseteq ctls'
        /\ (finished => finished')
    BY <1>3, <1>4, <1>5
  <2>2. ASSUME NEW b \in 1..flowSize, Carried(b)  PROVE b \in Arrived' \/ Carried(b)'
    BY <1>3, <1>7, <2>2 DEF Carried
  <2>3. ASSUME NEW b \in 1..flowSize, NEW q \in net, q.ackreq, b <= WindowEnd
        PROVE  \/ b \in Arrived'
               \/ \E r \in net' : r.ackreq
               \/ \E c \in ctls' : b > c
    <3>1. CASE q # p  BY <1>3, <2>3, <3>1
    <3>2. CASE q = p
      <4>1. PICK c \in ctls' : c = LesserOf(cumAck', p.seq)  BY <1>5, <2>3, <3>2
      <4>2. c \in Nat /\ c <= cumAck'  BY <1>7, <1>8, <4>1 DEF LesserOf
      <4>3. b \in Nat \ {0}  BY <1>1
      <4>4. CASE b <= c
        <5>1. b \in 1..cumAck'  BY ONLY <1>7, <4>2, <4>3, <4>4
        <5>2. QED  BY <1>7, <5>1
      <4>5. CASE b > c  BY <4>5
      <4>6. QED  BY <4>2, <4>3, <4>4, <4>5
    <3>3. QED  BY <3>1, <3>2
  <2>4. ASSUME NEW b \in 1..flowSize
        PROVE  \/ b \in Arrived' \/ b > highestSent' \/ Carried(b)' \/ finished'
               \/ /\ b <= WindowEnd'
                  /\ \/ \E r \in net' : r.ackreq
                     \/ \E i \in DOMAIN rtxQueue' : b \in Bytes(rtxQueue'[i])
                     \/ \E c \in ctls' : b > c
                     \/ ctlLost' \/ highestSent' = 0
    <3>1. \/ b \in Arrived \/ b > highestSent \/ Carried(b) \/ finished
          \/ /\ b <= WindowEnd
             /\ \/ \E r \in net : r.ackreq
                \/ \E i \in DOMAIN rtxQueue : b \in Bytes(rtxQueue[i])
                \/ \E c \in ctls : b > c
                \/ ctlLost \/ highestSent = 0
      BY <1>1 DEF Accounted
    <3>2. b \in Arrived => b \in Arrived'  BY <1>7
    <3>3. WindowEnd' = WindowEnd /\ highestSent # 0  BY <1>1, <1>2, <1>6
    <3>4. QED  BY ONLY <2>1, <2>2, <2>3, <3>1, <3>2, <3>3
  <2>5. flowSize' = flowSize  BY <2>1
  <2>6. QED  BY ONLY <2>4, <2>5 DEF Accounted
<1>21. QED
  BY <1>6, <1>11, <1>12, <1>13, <1>14, <1>15, <1>18, <1>19, <1>20, OperaIInv

-----------------------------------------------------------------------------
(* The steps of Clos *)

\* What an action of the Clos simulator keeps of the rest of the state.
ClosStep == IInv /\ clos /\ clos' = clos /\ UNCHANGED operaVars

\* What the invariant says of a flow of the Clos simulator.
LEMMA ClosFacts ==
  ASSUME ClosStep
  PROVE  /\ TypeOK /\ Sorted /\ Framed /\ LastPackets /\ Reported /\ ClosInv
         /\ OneCreditLoop /\ ClosPackets /\ ClosNothingLost
         /\ Frame = {} /\ dataLost \in BOOLEAN
         /\ flowSize \in FlowSizes /\ flowSize \in Nat \ {0} /\ PktSize \in Nat \ {0}
         /\ highestSent \in Nat /\ cumAck \in Nat /\ timers \in Nat /\ fcts \in Nat
         /\ lastPacket \in Nat /\ lastAcked \in Nat
         /\ flowSize' = flowSize /\ PktSize' = PktSize
  BY PktSizeFacts, FrameSame
  DEF ClosStep, IInv, ClosInv, Frame, TypeOK, operaVars

\* The parts of the invariant an action of the Clos simulator has to keep.
LEMMA ClosIInv ==
  ASSUME ClosStep, TypeOK', dataLost' \in BOOLEAN,
         Sorted', Framed', LastPackets', Reported', ClosInv'
  PROVE  IInv'
<1>1. clos' /\ clos' \in BOOLEAN  BY DEF ClosStep, IInv
<1>2. QED  BY <1>1 DEF IInv

\* The packets of the Clos simulator all have the full size.
LEMMA WholePacketFacts ==
  ASSUME flowSize \in FlowSizes, NEW o \in Nat, NEW q, q = WholePacket(o)
  PROVE  /\ q \in DataPackets /\ q.seq = o + 1 /\ q.size = PktSize
         /\ q.size \in Nat \ {0} /\ End(q) = o + PktSize
         /\ q.last => End(q) >= flowSize
<1>1. PktSize \in Nat \ {0}  BY PktSizeFacts
<1>2. q.seq = o + 1 /\ q.size = PktSize  BY DEF WholePacket
<1>3. q.last => o + PktSize >= flowSize  BY DEF WholePacket
<1>4. End(q) = o + PktSize  BY ONLY <1>1, <1>2, o \in Nat DEF End
<1>5. q \in DataPackets  BY <1>1 DEF WholePacket, DataPackets
<1>6. QED  BY <1>1, <1>2, <1>3, <1>4, <1>5

\* A packet that is sent is new, and not behind the last one.
LEMMA StepClosSend ==
  ASSUME ClosStep, highestSent < flowSize,
         NEW q, q = WholePacket(highestSent),
         net' = net \cup {q}, highestSent' = highestSent + PktSize,
         UNCHANGED <<lastAcked, finished, closSinkVars, dataLost>>,
         credits' \in Seq(Nat)
  PROVE  IInv'
<1>1. /\ TypeOK /\ Sorted /\ Framed /\ LastPackets /\ Reported /\ ClosInv
      /\ OneCreditLoop /\ ClosPackets /\ ClosNothingLost
      /\ Frame = {} /\ dataLost \in BOOLEAN
      /\ flowSize \in FlowSizes /\ flowSize \in Nat \ {0} /\ PktSize \in Nat \ {0}
      /\ highestSent \in Nat /\ cumAck \in Nat
      /\ lastPacket \in Nat /\ lastAcked \in Nat
      /\ flowSize' = flowSize /\ PktSize' = PktSize
  BY ClosFacts
<1>2. /\ q \in DataPackets /\ q.seq = highestSent + 1 /\ q.size = PktSize
      /\ q.size \in Nat \ {0} /\ End(q) = highestSent + PktSize
      /\ q.last => End(q) >= flowSize
  BY <1>1, WholePacketFacts
<1>3. /\ net' = net \cup {q} /\ highestSent' = highestSent + PktSize
      /\ highestSent < flowSize
      /\ UNCHANGED <<lastAcked, finished, closSinkVars, dataLost, clos, operaVars>>
  BY DEF ClosStep
<1>4. highestSent' \in Nat /\ highestSent < highestSent' /\ End(q) = highestSent'
  BY ONLY <1>1, <1>2, <1>3
<1>5. TypeOK'
  <2>1. net' \subseteq DataPackets  BY <1>1, <1>2, <1>3 DEF TypeOK
  <2>2. QED  BY <1>1, <1>3, <1>4, <2>1 DEF TypeOK, closSinkVars, operaVars
<1>6. Sorted' /\ Framed'
  <2>1. /\ q.seq > 0 /\ q.size > 0 /\ cumAck < q.seq
        /\ \A a \in Blocks \cup Frame \cup {q} : Apart(q, a)
    BY <1>1, <1>2, FitsBehind
  <2>2. UNCHANGED <<received, cumAck, flowSize, clos>>
    BY <1>3 DEF closSinkVars, operaVars
  <2>3. highestSent <= highestSent' /\ End(q) <= highestSent'
    BY ONLY <1>1, <1>4
  <2>4. PICK Q : Q = {q}  OBVIOUS
  <2>5. /\ net' \subseteq net \cup Q
        /\ \A a \in Q : /\ a.seq > 0 /\ a.size > 0 /\ End(a) <= highestSent'
                        /\ cumAck < a.seq \/ End(a) <= cumAck
        /\ \A a \in Q : \A b \in Blocks \cup Frame \cup Q : Apart(a, b)
    BY ONLY <1>3, <2>1, <2>3, <2>4
  <2>6. TypeOK /\ Sorted /\ Framed /\ highestSent' \in Nat  BY <1>1, <1>4
  <2>7. QED  BY ONLY <2>2, <2>3, <2>5, <2>6, NewBlocks
<1>7. LastPackets' /\ Reported'
  BY <1>1, <1>2, <1>3 DEF LastPackets, Reported, closSinkVars, operaVars, End
<1>8. ClosPackets'
  <2>1. UNCHANGED <<cumAck, received>>  BY <1>3 DEF closSinkVars
  <2>2. WholePacket(q.seq - 1)' = WholePacket(q.seq - 1)
    BY <1>1 DEF WholePacket
  <2>3. ASSUME NEW p \in net
        PROVE  /\ p = WholePacket(p.seq - 1)'
               /\ cumAck' < p.seq
               /\ \A i \in DOMAIN received' : received'[i].seq # p.seq
               /\ ~p.last
    <3>1. /\ p = WholePacket(p.seq - 1)
          /\ cumAck < p.seq
          /\ \A i \in DOMAIN received : received[i].seq # p.seq
          /\ p.last => End(p) = highestSent
      BY <1>1 DEF ClosPackets
    <3>2. WholePacket(p.seq - 1)' = WholePacket(p.seq - 1)  BY <1>1 DEF WholePacket
    <3>3. p.last => End(p) >= flowSize  BY <1>1 DEF LastPackets
    <3>4. ~ (highestSent >= flowSize)  BY ONLY <1>1, <1>3
    <3>5. ~p.last  BY <3>1, <3>3, <3>4
    <3>6. QED  BY <2>1, <3>1, <3>2, <3>5
  <2>4. /\ q = WholePacket(q.seq - 1)'
        /\ cumAck' < q.seq
        /\ \A i \in DOMAIN received' : received'[i].seq # q.seq
        /\ End(q) = highestSent'
    <3>1. q.seq - 1 = highestSent  BY ONLY <1>1, <1>2
    <3>2. q = WholePacket(q.seq - 1)'  BY <2>2, <3>1
    <3>3. cumAck < q.seq  BY <1>1, <1>2 DEF Framed
    <3>4. ASSUME NEW i \in DOMAIN received  PROVE received[i].seq # q.seq
      <4>1. /\ received[i] \in Blocks
            /\ received[i].seq \in Nat /\ End(received[i]) \in Nat
            /\ received[i].seq <= End(received[i])
        BY <1>1, BlockFacts
      <4>2. End(received[i]) <= highestSent  BY <1>1, <4>1 DEF Framed
      <4>3. QED  BY ONLY <1>1, <1>2, <4>1, <4>2
    <3>5. QED  BY <1>4, <2>1, <3>2, <3>3, <3>4
  <2>5. ASSUME NEW p \in net'
        PROVE  /\ p = WholePacket(p.seq - 1)'
               /\ cumAck' < p.seq
               /\ \A i \in DOMAIN received' : received'[i].seq # p.seq
               /\ p.last => End(p) = highestSent'
    BY <1>3, <2>3, <2>4
  <2>6. QED  BY <2>5 DEF ClosPackets, End, WholePacket, PktSize
<1>9. ClosNothingLost'
  <2>1. Arrived' = Arrived  BY <1>3 DEF Arrived, closSinkVars
  <2>2. ASSUME ~dataLost, NEW b \in 1..flowSize
        PROVE  b \in Arrived \/ b > highestSent' \/ \E p \in net' : b \in Bytes(p)
    <3>1. b \in Arrived \/ b > highestSent \/ \E p \in net : b \in Bytes(p)
      BY <1>1, <2>2 DEF ClosNothingLost
    <3>2. CASE b > highestSent /\ b <= highestSent'
      <4>1. b \in Nat  BY <1>1
      <4>2. b \in Bytes(q)
        BY ONLY <1>1, <1>2, <1>3, <3>2, <4>1 DEF Bytes
      <4>3. QED  BY <1>3, <4>2
    <3>3. CASE b > highestSent'  BY <3>3
    <3>4. b <= highestSent' \/ b > highestSent'
      <4>1. b \in Nat  BY <1>1
      <4>2. QED  BY ONLY <1>4, <4>1
    <3>5. QED  BY <1>3, <3>1, <3>2, <3>3, <3>4
  <2>3. dataLost' = dataLost /\ flowSize' = flowSize  BY <1>1, <1>3
  <2>4. QED  BY <2>1, <2>2, <2>3 DEF ClosNothingLost, Bytes
<1>10. ClosInv'
  <2>1. /\ rtxQueue' = <<>> /\ ctls' = {} /\ ~isRecovering' /\ highestSent' # 0
    <3>1. highestSent' # 0  BY ONLY <1>1, <1>4
    <3>2. QED  BY <1>1, <1>3, <3>1 DEF ClosInv, operaVars
  <2>2. lastPacket' = 0
    <3>1. /\ lastPacket > 0 => lastPacket = highestSent
          /\ lastPacket > 0 => lastPacket >= flowSize
      BY <1>1 DEF ClosInv, LastPackets
    <3>2. lastPacket = 0  BY ONLY <1>1, <1>3, <3>1
    <3>3. QED  BY <1>3, <3>2 DEF closSinkVars
  <2>3. ~finished
    <3>1. finished => highestSent >= flowSize  BY <1>1 DEF ClosInv
    <3>2. QED  BY ONLY <1>1, <1>3, <3>1
  <2>4. OneCreditLoop' /\ (~isPulling' => timers' = 0) /\ (fcts' > 0 <=> finished')
    BY <1>1, <1>3 DEF ClosInv, OneCreditLoop, closSinkVars, operaVars
  <2>5. ~finished'  BY <1>3, <2>3
  <2>6. QED  BY <1>8, <1>9, <2>1, <2>2, <2>4, <2>5 DEF ClosInv
<1>11. QED  BY <1>1, <1>3, <1>5, <1>6, <1>7, <1>10, ClosIInv

\* The first packet of a flow of Clos keeps the invariant.
LEMMA StepClosStartFlow ==
  ASSUME ClosStep, ClosStartFlow  PROVE IInv'
<1>1. /\ highestSent = 0 /\ highestSent \in Nat /\ flowSize \in Nat \ {0}
      /\ TypeOK
  BY ClosFacts DEF ClosStartFlow
<1>2. highestSent < flowSize /\ ~ (highestSent >= flowSize)  BY <1>1
<1>3. net' = net \cup {WholePacket(highestSent)} /\ highestSent' = highestSent + PktSize
  BY <1>2 DEF ClosStartFlow, ClosSendPacket
<1>4. PICK q : q = WholePacket(highestSent)  OBVIOUS
<1>5. net' = net \cup {q}  BY <1>3, <1>4
<1>6. UNCHANGED <<lastAcked, finished, closSinkVars, dataLost>> /\ credits' \in Seq(Nat)
  BY <1>1 DEF ClosStartFlow, TypeOK
<1>7. QED  BY <1>2, <1>3, <1>4, <1>5, <1>6, StepClosSend

\* A change that leaves the data alone.
LEMMA StepClosIdle ==
  ASSUME ClosStep, TypeOK', OneCreditLoop', dataLost' \in BOOLEAN,
         ~isPulling => timers' = 0,
         UNCHANGED <<highestSent, finished, cumAck, received, lastPacket, isPulling, fcts>>,
         net' \subseteq net, net' = net \/ dataLost', dataLost => dataLost'
  PROVE  IInv'
<1>1. /\ TypeOK /\ Sorted /\ Framed /\ LastPackets /\ Reported /\ ClosInv
      /\ ClosPackets /\ ClosNothingLost
      /\ flowSize' = flowSize /\ PktSize' = PktSize
  BY ClosFacts
<1>2. Sorted' /\ Framed'
  <2>1. UNCHANGED <<received, cumAck, flowSize, clos, highestSent>>
    BY <1>1 DEF ClosStep
  <2>2. QED  BY <1>1, <2>1, SameBlocks
<1>3. LastPackets' /\ Reported'  BY <1>1 DEF LastPackets, Reported, End
<1>4. ClosPackets'  BY <1>1 DEF ClosPackets, WholePacket, End
<1>5. ClosNothingLost'
  <2>1. Arrived' = Arrived  BY DEF Arrived
  <2>2. ASSUME ~dataLost', NEW b \in 1..flowSize
        PROVE  b \in Arrived' \/ b > highestSent' \/ \E p \in net' : b \in Bytes(p)
    BY <1>1, <2>1, <2>2 DEF ClosNothingLost
  <2>3. QED  BY <1>1, <2>2 DEF ClosNothingLost, Bytes
<1>6. ClosInv'
  BY <1>1, <1>4, <1>5 DEF ClosInv, ClosStep, operaVars
<1>7. QED  BY <1>2, <1>3, <1>6, ClosIInv

\* A credit at the source of Clos keeps the invariant: it sends the next packet
\* or, at the end of the data, nothing.
LEMMA StepClosReceiveCredit ==
  ASSUME ClosStep, NEW i \in DOMAIN credits, ClosReceiveCredit(i)
  PROVE  IInv'
<1>1. /\ TypeOK /\ ClosInv /\ OneCreditLoop /\ highestSent \in Nat
      /\ flowSize \in Nat \ {0} /\ lastAcked \in Nat /\ dataLost \in BOOLEAN
  BY ClosFacts
<1>2. UNCHANGED lastAcked
  BY <1>1 DEF ClosReceiveCredit, CumulativeAck
<1>3. UNCHANGED <<operaVars, finished, closSinkVars, dataLost>>
  BY DEF ClosReceiveCredit
<1>4. credits' \in Seq(Nat)
  <2>1. credits \in Seq(Nat) /\ credits' = RemoveAt(credits, i)
    BY <1>1 DEF ClosReceiveCredit, TypeOK
  <2>2. QED  BY <2>1, RemoveAtProperties
<1>5. CASE highestSent < flowSize
  <2>1. ~ (highestSent >= flowSize)  BY ONLY <1>1, <1>5
  <2>2. net' = net \cup {WholePacket(highestSent)} /\ highestSent' = highestSent + PktSize
    BY <2>1 DEF ClosReceiveCredit, ClosSendPacket
  <2>3. PICK q : q = WholePacket(highestSent)  OBVIOUS
  <2>4. net' = net \cup {q}  BY <2>2, <2>3
  <2>5. QED  BY <1>2, <1>3, <1>4, <1>5, <2>2, <2>3, <2>4, StepClosSend
<1>6. CASE highestSent >= flowSize
  <2>1. ~ (highestSent < flowSize)  BY ONLY <1>1, <1>6
  <2>2. UNCHANGED <<net, highestSent>>
    BY <2>1 DEF ClosReceiveCredit, ClosSendPacket
  <2>3. TypeOK'  BY <1>1, <1>2, <1>3, <1>4, <2>2 DEF TypeOK, operaVars, closSinkVars
  <2>4. OneCreditLoop' /\ (~isPulling => timers' = 0)
    BY <1>1, <1>3 DEF ClosInv, OneCreditLoop, operaVars, closSinkVars
  <2>5. QED  BY <1>1, <1>3, <2>2, <2>3, <2>4, StepClosIdle DEF closSinkVars
<1>7. QED  BY <1>1, <1>5, <1>6

\* The timer of the sink keeps the invariant: it starts itself again, or ends
\* with the flow, so there is never a second one.
LEMMA StepClosSendCredit ==
  ASSUME IInv, clos, clos' = clos, ClosSendCredit  PROVE IInv'
<1>1. ClosStep  BY DEF ClosStep, ClosSendCredit, SendCredit, operaVars, srcVars
<1>2. /\ TypeOK /\ ClosInv /\ OneCreditLoop /\ timers \in Nat /\ dataLost \in BOOLEAN
      /\ cumAck \in Nat
  BY <1>1, ClosFacts
<1>3. /\ UNCHANGED <<srcVars, finished, cumAck, received, lastPacket, isPulling,
                     isRecovering, fcts, net, ctls, ctlLost, dataLost>>
      /\ timers > 0 /\ timers' = IF finished THEN timers - 1 ELSE timers
  BY DEF ClosSendCredit, SendCredit
<1>4. credits' \in Seq(Nat)  BY <1>2 DEF ClosSendCredit, SendCredit, TypeOK
<1>5. timers' \in Nat /\ timers' <= timers /\ (~finished => timers' = timers)
  BY ONLY <1>2, <1>3
<1>6. TypeOK'  BY <1>2, <1>3, <1>4, <1>5 DEF TypeOK, srcVars
<1>7. isPulling
  <2>1. ~isPulling => timers = 0  BY <1>2 DEF ClosInv
  <2>2. QED  BY ONLY <1>2, <1>3, <2>1
<1>8. OneCreditLoop'
  <2>1. timers <= 1  BY <1>2 DEF OneCreditLoop
  <2>2. timers' <= 1  BY ONLY <1>2, <1>5, <2>1
  <2>3. QED  BY <1>2, <1>3, <1>5, <2>2 DEF OneCreditLoop
<1>9. QED  BY <1>1, <1>2, <1>3, <1>6, <1>7, <1>8, StepClosIdle DEF srcVars

\* The loss of a credit keeps the invariant.
LEMMA StepClosDropCredit ==
  ASSUME IInv, clos, clos' = clos, NEW i \in DOMAIN credits, ClosDropCredit(i)
  PROVE  IInv'
<1>1. ClosStep  BY DEF ClosStep, ClosDropCredit, DropCredit, operaVars, srcVars, sinkVars
<1>2. TypeOK /\ ClosInv /\ OneCreditLoop /\ dataLost \in BOOLEAN
  BY <1>1, ClosFacts
<1>3. UNCHANGED <<srcVars, finished, sinkVars, net, ctls, ctlLost, dataLost>>
  BY DEF ClosDropCredit, DropCredit
<1>4. credits' \in Seq(Nat)
  <2>1. credits \in Seq(Nat) /\ credits' = RemoveAt(credits, i)
    BY <1>2 DEF ClosDropCredit, DropCredit, TypeOK
  <2>2. QED  BY <2>1, RemoveAtProperties
<1>5. TypeOK'  BY <1>2, <1>3, <1>4 DEF TypeOK, srcVars, sinkVars
<1>6. OneCreditLoop' /\ (~isPulling => timers' = 0)
  BY <1>2, <1>3 DEF ClosInv, OneCreditLoop, srcVars, sinkVars
<1>7. QED  BY <1>1, <1>2, <1>3, <1>5, <1>6, StepClosIdle DEF srcVars, sinkVars

\* The loss of a packet, which Clos never sends again, keeps the invariant.
LEMMA StepClosDropData ==
  ASSUME ClosStep, NEW p \in net, ClosDropData(p)
  PROVE  IInv'
<1>1. TypeOK /\ ClosInv /\ OneCreditLoop  BY ClosFacts
<1>2. /\ net' = net \ {p} /\ dataLost' = TRUE
      /\ UNCHANGED <<operaVars, closSrcVars, closSinkVars, credits>>
  BY DEF ClosDropData
<1>3. TypeOK'  BY <1>1, <1>2 DEF TypeOK, operaVars, closSrcVars, closSinkVars
<1>4. OneCreditLoop' /\ (~isPulling => timers' = 0)
  BY <1>1, <1>2 DEF ClosInv, OneCreditLoop, operaVars, closSrcVars, closSinkVars
<1>5. QED  BY <1>2, <1>3, <1>4, StepClosIdle DEF closSrcVars, closSinkVars

\* The ack passes no packet that is still in the network.
LEMMA StepClosReceiveData ==
  ASSUME ClosStep, NEW p \in net, ClosReceiveData(p)
  PROVE  IInv'
<1> DEFINE last == IF p.last THEN p.seq + p.size - 1 ELSE lastPacket
           done == last > 0 /\ cumAck' = last
<1>1. /\ TypeOK /\ Sorted /\ Framed /\ LastPackets /\ Reported /\ ClosInv
      /\ OneCreditLoop /\ ClosPackets /\ ClosNothingLost
      /\ Frame = {} /\ dataLost \in BOOLEAN
      /\ flowSize \in FlowSizes /\ flowSize \in Nat \ {0} /\ PktSize \in Nat \ {0}
      /\ highestSent \in Nat /\ cumAck \in Nat /\ timers \in Nat /\ fcts \in Nat
      /\ lastPacket \in Nat /\ lastAcked \in Nat
      /\ flowSize' = flowSize /\ PktSize' = PktSize
  BY ClosFacts
<1>2. /\ cumAck' = Accept(p).ack /\ received' = Accept(p).rest
      /\ net' = net \ {p}
      /\ UNCHANGED <<operaVars, highestSent, lastAcked, credits, dataLost>>
      /\ isPulling' = TRUE
      /\ timers' = IF isPulling THEN timers ELSE timers + 1
  BY DEF ClosReceiveData
<1>3. /\ lastPacket' = last
      /\ finished' = (finished \/ done)
      /\ fcts' = IF done THEN fcts + 1 ELSE fcts
  BY <1>2 DEF ClosReceiveData
<1>4. /\ cumAck' \in Nat /\ cumAck <= cumAck' /\ received' \in BlockList
      /\ Bytes(p) \subseteq Arrived' /\ Arrived \subseteq Arrived'
      /\ 1..cumAck' \subseteq Arrived'
  BY <1>1, <1>2, ArrivedGrows
<1>5. Accepted(p, cumAck', received')  BY <1>1, <1>2, AcceptProperties
<1>6. clos' = clos /\ Sorted' /\ Framed'
  <2>1. clos' = clos  BY DEF ClosStep
  <2>2. QED  BY <1>1, <1>2, <2>1, ReceivedBlocks
<1>7. ASSUME NEW q \in net', cumAck' >= q.seq  PROVE FALSE
  <2>1. /\ q \in net /\ q # p /\ q \in Blocks /\ p \in Blocks
        /\ q.seq \in Nat /\ q.size \in Nat \ {0}
        /\ p.seq \in Nat /\ p.size \in Nat \ {0}
    BY <1>1, <1>2, BlockFacts
  <2>2. /\ cumAck < q.seq /\ q = WholePacket(q.seq - 1) /\ p = WholePacket(p.seq - 1)
        /\ \A i \in DOMAIN received : received[i].seq # q.seq
    BY <1>1, <2>1 DEF ClosPackets
  <2>3. p.seq # q.seq
    <3>1. CASE p.seq = q.seq  BY ONLY <2>1, <2>2, <3>1
    <3>2. QED  BY <3>1
  <2>4. q.seq \in (cumAck + 1)..cumAck'
    BY ONLY <1>1, <1>4, <1>7, <2>1, <2>2
  <2>5. q.seq \in Bytes(p) \/ \E j \in DOMAIN received : q.seq \in Bytes(received[j])
    BY <1>5, <2>4 DEF Accepted
  <2>6. ASSUME NEW b \in Blocks, b.seq # q.seq, q.seq \in Bytes(b)  PROVE FALSE
    <3>1. b.seq \in Nat /\ b.size \in Nat  BY <1>1, BlockFacts
    <3>2. Apart(q, b)  BY <1>1, <2>1 DEF Framed
    <3>3. QED  BY ONLY <2>1, <2>6, <3>1, <3>2 DEF Apart, End, Bytes
  <2>7. \A j \in DOMAIN received : received[j] \in Blocks  BY DEF Blocks
  <2>8. QED  BY <2>1, <2>2, <2>3, <2>5, <2>6, <2>7
<1>8. \A q \in net' : cumAck' < q.seq
  <2>1. ASSUME NEW q \in net'  PROVE cumAck' < q.seq
    <3>1. ~ (cumAck' >= q.seq)  BY <1>7
    <3>2. q \in net  BY <1>2
    <3>3. q.seq \in Nat  BY <1>1, <3>2, BlockFacts
    <3>4. QED  BY ONLY <1>4, <3>1, <3>3
  <2>2. QED  BY <2>1
<1>9. /\ p \in DataPackets /\ End(p) \in Nat /\ p.seq + p.size - 1 = End(p)
      /\ p.last => End(p) = highestSent /\ End(p) >= flowSize
      /\ lastPacket > 0 => lastPacket = highestSent /\ lastPacket >= flowSize
      /\ ~finished /\ fcts = 0 /\ highestSent # 0
  <2>1. p \in DataPackets /\ p \in Blocks  BY <1>1 DEF TypeOK, Blocks
  <2>2. End(p) \in Nat /\ p.seq + p.size - 1 = End(p)  BY <1>1, <2>1, BlockFacts DEF End
  <2>3. p.last => End(p) = highestSent /\ End(p) >= flowSize
    BY <1>1 DEF ClosPackets, LastPackets
  <2>4. lastPacket > 0 => lastPacket = highestSent /\ lastPacket >= flowSize
    BY <1>1 DEF ClosInv, LastPackets
  <2>5. ~finished /\ ~ (fcts > 0) /\ highestSent # 0  BY <1>1 DEF ClosInv
  <2>6. fcts = 0  BY ONLY <1>1, <2>5
  <2>7. QED  BY <2>1, <2>2, <2>3, <2>4, <2>5, <2>6
<1>10. last \in Nat /\ (last > 0 => last = highestSent /\ last >= flowSize)
  <2>1. CASE p.last  BY <1>9, <2>1
  <2>2. CASE ~p.last  BY <1>1, <1>9, <2>2
  <2>3. QED  BY <2>1, <2>2
<1>11. done => net' = {} /\ highestSent >= flowSize
  <2>1. ASSUME NEW q \in net', done  PROVE FALSE
    <3>1. cumAck' = highestSent  BY <1>10, <2>1
    <3>2. q \in net  BY <1>2
    <3>3. /\ q.seq \in Nat /\ End(q) \in Nat /\ q.seq <= End(q) /\ End(q) <= highestSent
      BY <1>1, <3>2, BlockFacts DEF Framed
    <3>4. cumAck' < q.seq  BY <1>8
    <3>5. QED  BY ONLY <1>1, <3>1, <3>3, <3>4
  <2>2. QED  BY <1>10, <2>1
<1> HIDE DEF last, done
<1>12. timers' \in Nat /\ timers' = 1
  <2>1. /\ ~isPulling => timers = 0
        /\ isPulling /\ ~finished => timers = 1
    BY <1>1 DEF ClosInv, OneCreditLoop
  <2>2. CASE isPulling  BY <1>2, <1>9, <2>1, <2>2
  <2>3. CASE ~isPulling
    <3>1. timers' = timers + 1 /\ timers = 0  BY <1>2, <2>1, <2>3
    <3>2. QED  BY ONLY <3>1
  <2>4. QED  BY <2>2, <2>3
<1>13. fcts' \in Nat /\ fcts' <= 1 /\ (fcts' > 0 <=> finished')
  <2>1. CASE done
    <3>1. fcts' = fcts + 1 /\ finished'  BY <1>3, <2>1
    <3>2. fcts' = 1  BY ONLY <1>9, <3>1
    <3>3. QED  BY <3>1, <3>2
  <2>2. CASE ~done
    <3>1. fcts' = 0 /\ ~finished'  BY <1>3, <1>9, <2>2
    <3>2. QED  BY <3>1
  <2>3. QED  BY <2>1, <2>2
<1>14. TypeOK'
  <2>1. received' \in Seq([seq : Nat, size : Nat])  BY <1>4 DEF BlockList, Block
  <2>2. net' \subseteq DataPackets  BY <1>1, <1>2 DEF TypeOK
  <2>3. isPulling' \in BOOLEAN /\ finished' \in BOOLEAN  BY <1>2, <1>3
  <2>4. lastPacket' \in Nat  BY <1>3, <1>10
  <2>5. QED
    BY <1>1, <1>2, <1>4, <1>12, <1>13, <2>1, <2>2, <2>3, <2>4 DEF TypeOK, operaVars
<1>15. LastPackets' /\ Reported'
  <2>1. LastPackets'  BY <1>1, <1>2, <1>3, <1>10 DEF LastPackets, End
  <2>2. Reported'  BY <1>13 DEF Reported
  <2>3. QED  BY <2>1, <2>2
<1>16. ClosPackets'
  <2>1. ASSUME NEW q \in net'
        PROVE  /\ q = WholePacket(q.seq - 1)' /\ cumAck' < q.seq
               /\ \A i \in DOMAIN received' : received'[i].seq # q.seq
               /\ q.last => End(q) = highestSent'
    <3>1. /\ q \in net /\ q # p /\ q = WholePacket(q.seq - 1)
          /\ \A i \in DOMAIN received : received[i].seq # q.seq
          /\ q.last => End(q) = highestSent
      BY <1>1, <1>2 DEF ClosPackets
    <3>2. WholePacket(q.seq - 1)' = WholePacket(q.seq - 1)  BY <1>1 DEF WholePacket
    <3>3. p.seq # q.seq
      <4>1. p = WholePacket(p.seq - 1)  BY <1>1 DEF ClosPackets
      <4>2. CASE p.seq = q.seq  BY ONLY <3>1, <4>1, <4>2
      <4>3. QED  BY <4>2
    <3>4. ASSUME NEW i \in DOMAIN received'  PROVE received'[i].seq # q.seq
      <4>1. \/ \E j \in DOMAIN received : received'[i] = received[j]
            \/ received'[i].seq = p.seq
        BY <1>5 DEF Accepted
      <4>2. QED  BY <3>1, <3>3, <4>1
    <3>5. QED  BY <1>2, <1>8, <3>1, <3>2, <3>4
  <2>2. QED  BY <2>1 DEF ClosPackets, WholePacket, PktSize, End
<1>17. ClosNothingLost'
  <2>1. ASSUME ~dataLost, NEW b \in 1..flowSize
        PROVE  b \in Arrived' \/ b > highestSent \/ \E q \in net' : b \in Bytes(q)
    <3>1. b \in Arrived \/ b > highestSent \/ \E q \in net : b \in Bytes(q)
      BY <1>1, <2>1 DEF ClosNothingLost
    <3>2. QED  BY <1>2, <1>4, <3>1
  <2>2. QED  BY <1>1, <1>2, <2>1 DEF ClosNothingLost, Bytes
<1>18. ClosInv'
  <2>1. rtxQueue' = <<>> /\ ctls' = {} /\ ~isRecovering' /\ highestSent' # 0
    BY <1>1, <1>2, <1>9 DEF ClosInv, operaVars
  <2>2. lastPacket' > 0 => lastPacket' = highestSent'  BY <1>2, <1>3, <1>10
  <2>3. finished' => net' = {} /\ highestSent' >= flowSize'
    BY <1>1, <1>2, <1>3, <1>9, <1>11
  <2>4. OneCreditLoop' /\ isPulling'  BY <1>2, <1>12 DEF OneCreditLoop
  <2>5. QED  BY <1>13, <1>16, <1>17, <2>1, <2>2, <2>3, <2>4 DEF ClosInv
<1>19. dataLost' \in BOOLEAN  BY <1>1, <1>2
<1>20. QED  BY <1>6, <1>14, <1>15, <1>18, <1>19, ClosIInv

-----------------------------------------------------------------------------
(* The theorems *)

\* Nothing happening keeps the invariant.
LEMMA StutterIInv ==
  ASSUME IInv, UNCHANGED mcVars  PROVE IInv'
<1>1. UNCHANGED <<flowSize, highestSent, lastUnsched, lastAcked, rtxQueue, finished>>
      /\ UNCHANGED <<cumAck, received, lastPacket, isPulling, isRecovering, timers, fcts>>
      /\ UNCHANGED <<net, credits, ctls, ctlLost, dataLost, clos>>
  BY DEF mcVars, vars, srcVars, sinkVars, netVars
<1>2. TypeOK' /\ Sorted' /\ Framed' /\ LastPackets' /\ Reported'
  BY <1>1 DEF IInv, TypeOK, Sorted, Framed, LastPackets, Reported, Blocks, Frame, Window,
              DataPacket, PktSize, Apart, End
<1>3. ~clos' => OperaInv'
  BY <1>1 DEF IInv, OperaInv, NotStarted, Started, WindowEnd, Origin, Retransmits,
              RetransmitsWindow, Acks, Loop, OneCreditLoop, Accounted, Carried, Arrived, Bytes,
              AckRequest, Window, DataPacket, PktSize
<1>4. clos' => ClosInv'
  BY <1>1 DEF IInv, ClosInv, ClosPackets, ClosNothingLost, OneCreditLoop, Arrived, Bytes,
              WholePacket, PktSize, End
<1>5. QED  BY <1>1, <1>2, <1>3, <1>4 DEF IInv

\* Every action of the Opera simulator keeps the invariant.
LEMMA OperaNextIInv ==
  ASSUME IInv, Opera, Next  PROVE IInv'
<1>1. OperaStep  BY DEF Opera, OperaStep
<1>2. CASE Over
  <2>1. UNCHANGED mcVars  BY <1>2 DEF Over, Opera, mcVars
  <2>2. QED  BY <2>1, StutterIInv
<1>3. CASE StartFlow  BY <1>1, <1>3, StepStartFlow
<1>4. CASE \E i \in DOMAIN credits : ReceiveCredit(i)  BY <1>1, <1>4, StepReceiveCredit
<1>5. CASE \E ack \in ctls : ReceiveCtl(ack)  BY <1>1, <1>5, StepReceiveCtl
<1>6. CASE \E p \in net : ReceiveData(p)  BY <1>1, <1>6, StepReceiveData
<1>7. CASE SendCredit  BY <1>1, <1>7, StepSendCredit
<1>8. CASE \E i \in DOMAIN credits : DropCredit(i)  BY <1>1, <1>8, StepDropCredit
<1>9. CASE \E ack \in ctls : DropCtl(ack)  BY <1>1, <1>9, StepDropCtl
<1>10. CASE \E p \in net : DropUnscheduled(p) \/ DropData(p)
  BY <1>1, <1>10, StepDropPacket
<1>11. QED
  BY <1>2, <1>3, <1>4, <1>5, <1>6, <1>7, <1>8, <1>9, <1>10 DEF Next

\* Every action of the Clos simulator keeps the invariant.
LEMMA ClosNextIInv ==
  ASSUME IInv, Clos, ClosNext  PROVE IInv'
<1>1. clos /\ clos' = clos  BY DEF Clos
<1>2. CASE ClosOver
  <2>1. UNCHANGED mcVars  BY <1>1, <1>2 DEF ClosOver, mcVars
  <2>2. QED  BY <2>1, StutterIInv
<1>3. CASE ClosStartFlow
  <2>1. ClosStep  BY <1>1, <1>3 DEF ClosStep, ClosStartFlow
  <2>2. QED  BY <1>3, <2>1, StepClosStartFlow
<1>4. CASE ClosSendCredit  BY <1>1, <1>4, StepClosSendCredit
<1>5. ASSUME NEW i \in DOMAIN credits, ClosReceiveCredit(i)  PROVE IInv'
  <2>1. ClosStep  BY <1>1, <1>5 DEF ClosStep, ClosReceiveCredit
  <2>2. QED  BY <1>5, <2>1, StepClosReceiveCredit
<1>6. ASSUME NEW i \in DOMAIN credits, ClosDropCredit(i)  PROVE IInv'
  BY <1>1, <1>6, StepClosDropCredit
<1>7. ASSUME NEW p \in net, ClosReceiveData(p)  PROVE IInv'
  <2>1. ClosStep  BY <1>1, <1>7 DEF ClosStep, ClosReceiveData
  <2>2. QED  BY <1>7, <2>1, StepClosReceiveData
<1>8. ASSUME NEW p \in net, ClosDropData(p)  PROVE IInv'
  <2>1. ClosStep  BY <1>1, <1>8 DEF ClosStep, ClosDropData
  <2>2. QED  BY <1>8, <2>1, StepClosDropData
<1>9. QED
  BY <1>2, <1>3, <1>4, <1>5, <1>6, <1>7, <1>8 DEF ClosNext

\* A step of a flow in either simulator keeps the invariant.
LEMMA StepIInv == IInv /\ [MCNext]_mcVars => IInv'
<1>1. ASSUME IInv, MCNext  PROVE IInv'
  BY <1>1, OperaNextIInv, ClosNextIInv DEF MCNext
<1>2. QED  BY <1>1, StutterIInv

\* The frame and the orders of the sink's list and of the window hold always,
\* in both simulators, whatever arrives, is dropped or is sent again, and in
\* whatever order.
THEOREM XPassInvariant == MCFairSpec => []IInv
<1>1. MCFairSpec => MCInit /\ [][MCNext]_mcVars  BY PTL DEF MCFairSpec
<1>2. QED  BY <1>1, InitIInv, StepIInv, PTL

\* Reassembly: the blocks in the list of the sink are in order, without
\* overlap, and above a hole, so that no block is ever stranded in it; and a
\* retransmission has the bounds of a packet of the first window
\* (XPassSink::receivePacket, XPassSrc::receive_ctl).
THEOREM Reassembles == MCFairSpec => []Inv
<1>1. IInv => Inv
  <2> SUFFICES ASSUME IInv  PROVE Inv  OBVIOUS
  <2>1. TypeOK /\ Sorted /\ Framed  BY DEF IInv
  <2>2. BlocksAboveHole
    <3>1. ASSUME NEW i \in DOMAIN received
          PROVE  received[i].seq > 1 + IF i = 1 THEN cumAck
                                       ELSE received[i - 1].seq + received[i - 1].size - 2
      <4>1. CASE i = 1
        <5>1. received[i].seq > cumAck + 1  BY <2>1 DEF Sorted
        <5>2. received[i].seq \in Nat /\ cumAck \in Nat  BY <2>1, BlockFacts
        <5>3. QED  BY <4>1, <5>1, <5>2
      <4>2. CASE i # 1
        <5>1. i - 1 \in DOMAIN received /\ i - 1 < i  BY <2>1, <4>2, BlockFacts
        <5>2. End(received[i - 1]) < received[i].seq  BY <2>1, <5>1 DEF Sorted
        <5>3. /\ received[i].seq \in Nat /\ received[i - 1].seq \in Nat
              /\ received[i - 1].size \in Nat
          BY <2>1, <5>1, BlockFacts
        <5>4. received[i].seq > 1 + (received[i - 1].seq + received[i - 1].size - 2)
          BY ONLY <5>2, <5>3 DEF End
        <5>5. QED  BY <4>2, <5>4
      <4>3. QED  BY <4>1, <4>2
    <3>2. QED  BY <3>1 DEF BlocksAboveHole
  <2>3. RetransmitsWindow
    <3>1. CASE clos
      <4>1. DOMAIN rtxQueue = {}  BY <3>1 DEF IInv, ClosInv
      <4>2. QED  BY <4>1 DEF RetransmitsWindow
    <3>2. CASE ~clos  BY <3>2 DEF IInv, OperaInv, Retransmits
    <3>3. QED  BY <3>1, <3>2
  <2>4. QED  BY <2>1, <2>2, <2>3 DEF Inv
<1>2. QED  BY <1>1, XPassInvariant, PTL

\* The sink never has two loops of credits for one flow, which would double
\* its rate, and it has one as long as a flow it pulls goes on.
THEOREM OneLoop == MCFairSpec => []OneCreditLoop
<1>1. IInv => OneCreditLoop  BY DEF IInv, OperaInv, Loop, ClosInv
<1>2. QED  BY <1>1, XPassInvariant, PTL

\* Whatever is neither delivered nor under way can still be sent again, as
\* long as the control packet is not lost (Opera) or no data is (Clos).
THEOREM NothingLostAlways == MCFairSpec => []NothingLost
<1>1. IInv => NothingLost
  <2>1. ASSUME IInv, ~clos  PROVE NothingLostForGood
    <3>1. Accounted  BY <2>1 DEF IInv, OperaInv
    <3>2. ASSUME NEW b \in 1..flowSize, Carried(b)
          PROVE  \E p \in net : b \in Bytes(p) \/ p.ackreq
      BY <3>2 DEF Carried
    <3>3. QED  BY <3>1, <3>2 DEF Accounted, NothingLostForGood
  <2>2. ASSUME IInv, clos  PROVE ClosNothingLost  BY <2>2 DEF IInv, ClosInv
  <2>3. QED  BY <2>1, <2>2 DEF NothingLost
<1>2. QED  BY <1>1, XPassInvariant, PTL

-----------------------------------------------------------------------------
(* The promise of a transport (FlowTransfer) *)

outcome ==
  CASE fcts = 0 /\ ~ finished -> "running"
    [] fcts = 0 /\ finished   -> "givenUp"
    [] fcts = 1               -> "delivered"
    [] fcts > 1               -> "delivered again"

arrived == Arrived \cap 1..(flowSize + 1)

\* The outcome changes with these two variables only.
LEMMA OutcomeFacts ==
  /\ fcts = 0 /\ ~finished => outcome = "running"
  /\ fcts = 0 /\ finished => outcome = "givenUp"
  /\ fcts = 1 => outcome = "delivered"
<1>1. fcts = 0 /\ ~finished => outcome = "running"  BY DEF outcome
<1>2. fcts = 0 /\ finished => outcome = "givenUp"  BY DEF outcome
<1>3. fcts = 1 => outcome = "delivered"  BY DEF outcome
<1>4. QED  BY <1>1, <1>2, <1>3

\* What the counters of the next state say of the outcome.
LEMMA OutcomeNextFacts ==
  /\ (fcts = 0 /\ ~finished)' => outcome' = "running"
  /\ (fcts = 0 /\ finished)' => outcome' = "givenUp"
  /\ fcts' = 1 => outcome' = "delivered"
<1>1. (fcts = 0 /\ ~finished)' => outcome' = "running"  BY DEF outcome
<1>2. (fcts = 0 /\ finished)' => outcome' = "givenUp"  BY DEF outcome
<1>3. fcts' = 1 => outcome' = "delivered"  BY DEF outcome
<1>4. QED  BY <1>1, <1>2, <1>3

Delivers ==
  /\ arrived' \subseteq 1..(flowSize + 1) /\ arrived \subseteq arrived'
  /\ \/ outcome' = outcome
     \/ outcome = "running" /\ 1..flowSize \subseteq arrived' /\ outcome' = "delivered"
  /\ UNCHANGED flowSize
GivesUp ==
  outcome = "running" /\ outcome' = "givenUp" /\ UNCHANGED <<flowSize, arrived>>
Transfers == Delivers \/ GivesUp \/ UNCHANGED <<flowSize, arrived, outcome>>

\* A packet is a part of the transfer; its outcome is reported at the end.
LEMMA DataTransfers ==
  ASSUME TypeOK, Sorted, Framed, Reported, flowSize' = flowSize, NEW p \in net,
         cumAck' = Accept(p).ack, received' = Accept(p).rest,
         NEW done \in BOOLEAN, finished' = (finished \/ done),
         fcts' = IF done THEN fcts + 1 ELSE fcts,
         done => ~finished /\ cumAck' >= flowSize
  PROVE  Transfers
<1>1. /\ Arrived \subseteq Arrived' /\ 1..cumAck' \subseteq Arrived' /\ cumAck' \in Nat
      /\ flowSize \in Nat
  BY ArrivedGrows, PktSizeFacts DEF TypeOK
<1>2. arrived' \subseteq 1..(flowSize + 1) /\ arrived \subseteq arrived'
  BY <1>1 DEF arrived
<1>3. fcts \in Nat /\ fcts <= 1 /\ (fcts > 0 => finished) /\ finished \in BOOLEAN
  BY DEF TypeOK, Reported
<1>4. CASE ~done
  <2>1. fcts' = fcts /\ finished' = finished  BY <1>3, <1>4
  <2>2. outcome' = outcome  BY ONLY <2>1 DEF outcome
  <2>3. QED  BY <1>2, <2>2 DEF Transfers, Delivers
<1>5. CASE done
  <2>1. ~finished /\ cumAck' >= flowSize /\ fcts' = fcts + 1  BY <1>5
  <2>2. fcts = 0  BY <1>3, <2>1
  <2>3. outcome = "running" /\ outcome' = "delivered"
    BY <2>1, <2>2, OutcomeFacts, OutcomeNextFacts
  <2>4. 1..flowSize \subseteq arrived'
    BY <1>1, <2>1 DEF arrived
  <2>5. QED  BY <1>2, <2>3, <2>4 DEF Transfers, Delivers
<1>6. QED  BY <1>4, <1>5

\* A step that brings no data is none of FlowTransfer, or gives the flow up.
LEMMA DropTransfers ==
  ASSUME TypeOK, Reported, UNCHANGED <<flowSize, cumAck, received, fcts>>,
         finished' \in BOOLEAN, finished => finished'
  PROVE  Transfers
<1>1. arrived' = arrived  BY DEF arrived, Arrived, Bytes
<1>2. fcts \in Nat /\ (fcts > 0 => finished) /\ finished \in BOOLEAN
  BY DEF TypeOK, Reported
<1>3. CASE finished' = finished
  <2>1. outcome' = outcome  BY <1>3 DEF outcome
  <2>2. QED  BY <1>1, <2>1 DEF Transfers
<1>4. CASE ~finished /\ finished'
  <2>1. fcts = 0  BY <1>2, <1>4
  <2>2. outcome = "running" /\ outcome' = "givenUp"
    BY <1>4, <2>1, OutcomeFacts, OutcomeNextFacts
  <2>3. QED  BY <1>1, <2>2 DEF Transfers, GivesUp
<1>5. QED  BY <1>2, <1>3, <1>4

\* Every action of the Opera simulator is a step of FlowTransfer, or none.
LEMMA OperaTransfers ==
  ASSUME IInv, Opera, Next  PROVE Transfers
<1>1. TypeOK /\ Sorted /\ Framed /\ Reported /\ LastPackets /\ flowSize \in Nat
  BY PktSizeFacts DEF IInv, TypeOK
<1>2. ASSUME NEW p \in net, ReceiveData(p)  PROVE Transfers
  <2>1. cumAck' = Accept(p).ack /\ received' = Accept(p).rest /\ flowSize' = flowSize
    BY <1>2 DEF ReceiveData, srcVars
  <2>2. PICK last : last = IF p.last THEN p.seq + p.size - 1 ELSE lastPacket  OBVIOUS
  <2>3. PICK done \in BOOLEAN : done = CompletesWith(cumAck', last)
    BY DEF CompletesWith
  <2>4. finished' = (finished \/ done) /\ fcts' = IF done THEN fcts + 1 ELSE fcts
    BY <1>2, <2>1, <2>2, <2>3 DEF ReceiveData
  <2>5. done => ~finished /\ last > 0 /\ cumAck' >= last
    BY <2>3 DEF CompletesWith
  <2>6. last > 0 => last >= flowSize
    BY <1>1, <2>2 DEF LastPackets, End
  <2>7. last \in Nat \/ p.last
    BY <1>1, <2>2 DEF TypeOK
  <2>8. last \in Int /\ cumAck' \in Int
    <3>1. p.seq \in Nat /\ p.size \in Nat /\ cumAck' \in Nat
      BY <1>1, <2>1, BlockFacts, ArrivedGrows
    <3>2. QED  BY <2>2, <2>7, <3>1
  <2>9. done => ~finished /\ cumAck' >= flowSize
    BY ONLY <1>1, <2>5, <2>6, <2>8
  <2>10. QED  BY <1>1, <2>1, <2>4, <2>9, DataTransfers
<1>3. ASSUME UNCHANGED <<flowSize, cumAck, received, fcts, finished>>  PROVE Transfers
  <2>1. finished' \in BOOLEAN /\ (finished => finished')  BY <1>1, <1>3 DEF TypeOK
  <2>2. QED  BY <1>1, <1>3, <2>1, DropTransfers
<1>4. CASE Over  BY <1>3, <1>4 DEF Over, vars, srcVars, sinkVars
<1>5. CASE StartFlow  BY <1>3, <1>5 DEF StartFlow, sinkVars
<1>6. CASE \E i \in DOMAIN credits : ReceiveCredit(i)
  BY <1>3, <1>6 DEF ReceiveCredit, sinkVars
<1>7. CASE \E ack \in ctls : ReceiveCtl(ack)  BY <1>3, <1>7 DEF ReceiveCtl, sinkVars
<1>8. CASE SendCredit  BY <1>3, <1>8 DEF SendCredit, srcVars
<1>9. CASE \E i \in DOMAIN credits : DropCredit(i)
  BY <1>3, <1>9 DEF DropCredit, srcVars, sinkVars
<1>10. CASE \E ack \in ctls : DropCtl(ack)  BY <1>3, <1>10 DEF DropCtl, srcVars, sinkVars
<1>11. ASSUME NEW p \in net, DropUnscheduled(p)  PROVE Transfers
  BY <1>3, <1>11 DEF DropUnscheduled, srcVars, sinkVars
<1>12. ASSUME NEW p \in net, DropData(p)  PROVE Transfers
  <2>1. /\ UNCHANGED <<flowSize, cumAck, received, fcts>> /\ finished' = TRUE
    BY <1>12 DEF DropData, srcVars, sinkVars
  <2>2. QED  BY <1>1, <2>1, DropTransfers
<1>13. QED
  BY <1>2, <1>4, <1>5, <1>6, <1>7, <1>8, <1>9, <1>10, <1>11, <1>12 DEF Next

\* Every action of the Clos simulator is a step of FlowTransfer, or none.
LEMMA ClosTransfers ==
  ASSUME IInv, Clos, ClosNext  PROVE Transfers
<1>1. /\ TypeOK /\ Sorted /\ Framed /\ Reported /\ LastPackets /\ ClosInv
      /\ flowSize \in Nat /\ clos
  BY PktSizeFacts DEF IInv, TypeOK, Clos
<1>2. ASSUME NEW p \in net, ClosReceiveData(p)  PROVE Transfers
  <2>1. cumAck' = Accept(p).ack /\ received' = Accept(p).rest /\ flowSize' = flowSize
    BY <1>2 DEF ClosReceiveData, operaVars
  <2>2. PICK last : last = IF p.last THEN p.seq + p.size - 1 ELSE lastPacket  OBVIOUS
  <2>3. PICK done \in BOOLEAN : done = (last > 0 /\ cumAck' = last)  OBVIOUS
  <2>4. finished' = (finished \/ done) /\ fcts' = IF done THEN fcts + 1 ELSE fcts
    BY <1>2, <2>1, <2>2, <2>3 DEF ClosReceiveData
  <2>5. last > 0 => last >= flowSize
    BY <1>1, <2>2 DEF LastPackets, End
  <2>6. ~finished  BY <1>1 DEF ClosInv
  <2>7. done => ~finished /\ cumAck' >= flowSize  BY <2>3, <2>5, <2>6
  <2>8. QED  BY <1>1, <2>1, <2>4, <2>7, DataTransfers
<1>3. ASSUME UNCHANGED <<flowSize, cumAck, received, fcts, finished>>  PROVE Transfers
  <2>1. finished' \in BOOLEAN /\ (finished => finished')  BY <1>1, <1>3 DEF TypeOK
  <2>2. QED  BY <1>1, <1>3, <2>1, DropTransfers
<1>4. CASE ClosOver  BY <1>3, <1>4 DEF ClosOver, vars, srcVars, sinkVars
<1>5. CASE ClosStartFlow  BY <1>3, <1>5 DEF ClosStartFlow, operaVars, closSinkVars
<1>6. CASE ClosSendCredit  BY <1>3, <1>6 DEF ClosSendCredit, SendCredit, srcVars
<1>7. ASSUME NEW i \in DOMAIN credits, ClosReceiveCredit(i)  PROVE Transfers
  BY <1>3, <1>7 DEF ClosReceiveCredit, operaVars, closSinkVars
<1>8. ASSUME NEW i \in DOMAIN credits, ClosDropCredit(i)  PROVE Transfers
  BY <1>3, <1>8 DEF ClosDropCredit, DropCredit, srcVars, sinkVars
<1>9. ASSUME NEW p \in net, ClosDropData(p)  PROVE Transfers
  BY <1>3, <1>9 DEF ClosDropData, operaVars, closSrcVars, closSinkVars
<1>10. QED
  BY <1>2, <1>4, <1>5, <1>6, <1>7, <1>8, <1>9 DEF ClosNext

\* ExpressPass implements the promise of a transport: a flow is reported
\* delivered once, when all its bytes have arrived, and never after it was
\* given up; what has arrived stays.
THEOREM ImplementsFlowTransfer == MCFairSpec => EachImplementsTransfer
<1>1. MCInit => EachTransfer!Init
  <2> SUFFICES ASSUME MCInit  PROVE EachTransfer!Init  OBVIOUS
  <2>1. flowSize \in FlowSizes /\ fcts = 0 /\ ~finished /\ cumAck = 0 /\ DOMAIN received = {}
    BY DEF MCInit, ClosInit, Init
  <2>2. Arrived = {}  BY <2>1 DEF Arrived
  <2>3. QED  BY <2>1, <2>2 DEF EachTransfer!Init
<1>2. IInv /\ [MCNext]_mcVars => [EachTransfer!Deliver \/ EachTransfer!GiveUp]_EachTransfer!vars
  <2>1. ASSUME IInv, MCNext  PROVE Transfers
    BY <2>1, OperaTransfers, ClosTransfers DEF MCNext
  <2>2. ASSUME UNCHANGED mcVars  PROVE Transfers
    BY <2>2 DEF Transfers, arrived, outcome, Arrived, Bytes, mcVars, vars, srcVars, sinkVars
  <2>3. ASSUME Transfers
        PROVE  [EachTransfer!Deliver \/ EachTransfer!GiveUp]_EachTransfer!vars
    BY <2>3 DEF Transfers, Delivers, GivesUp, arrived, outcome,
                EachTransfer!Deliver, EachTransfer!GiveUp, EachTransfer!vars
  <2>4. QED  BY <2>1, <2>2, <2>3
<1>3. MCFairSpec => MCInit /\ [][MCNext]_mcVars  BY PTL DEF MCFairSpec
<1>4. EachImplementsTransfer <=> EachTransfer!Spec  BY DEF EachImplementsTransfer
<1>5. QED  BY <1>1, <1>2, <1>3, <1>4, XPassInvariant, PTL DEF EachTransfer!Spec

=============================================================================
