---------------------------- MODULE DCTCPProofs -----------------------------
(***************************************************************************)
(* Proofs about a flow of TCP, DCTCP, HPCC or Bolt, in both simulators     *)
(* (MCDCTCP): the timer and the windows, recovery, that nothing is taken   *)
(* for acknowledged that did not come, and that the flow implements        *)
(* FlowTransfer.                                                           *)
(*                                                                         *)
(* The argument is about frames.  The sink joins blocks by the size of the *)
(* packet that has just come, and the source goes back to lastAcked + Mss  *)
(* after a timeout whatever it sent before; both are right because every   *)
(* packet starts a whole number of packets after the first byte of data,   *)
(* b, which is 1 with a SYN and 0 without, and so does every number that   *)
(* is sent, acknowledged or gone back to, up to the end of the flow.       *)
(***************************************************************************)
EXTENDS MCDCTCP, PacketListFacts, FiniteSetTheorems, TLAPS

-----------------------------------------------------------------------------
(* The inductive invariant *)

InFrame(b, x) == \E k \in Int : x = b + k * Mss

\* The largest window: a third duplicate ack may add three packets.
Top == MaxCwnd + 3 * Mss

Syn == [seq |-> 1, size |-> 1]

\* A packet of data: a whole one, or one up to the byte after the last.
DataPacket(b, p) ==
  /\ p \in [seq : 1..FlowSize, size : 1..Mss]
  /\ InFrame(b, p.seq - 1)
  /\ p.size = Mss \/ p.size = FlowSize - p.seq + 2

\* The bytes of a block that starts at q have come.
BlockCame(q) == q..Least(q + Mss - 1, FlowSize) \subseteq arrived

NetFramed(b) ==
  /\ IsABag(net)
  /\ \A p \in DOMAIN net : (b = 1 /\ p = Syn) \/ (established /\ DataPacket(b, p))

AcksFramed(b) ==
  /\ IsABag(acks)
  /\ \A a \in DOMAIN acks : /\ a \in 0..cumAck /\ (a < FlowSize => InFrame(b, a))
                            /\ established \/ a = 1

SinkFramed(b) ==
  /\ cumAck \in 0..(FlowSize + Mss) /\ received \in Seq(1..FlowSize)
  /\ established => (cumAck < FlowSize => InFrame(b, cumAck)) /\ (b = 1 => cumAck >= 1)
  /\ ~established => received = <<>> /\ cumAck \in {0, 1}
  /\ \A i \in 1..Len(received) : InFrame(b, received[i] - 1) /\ BlockCame(received[i])
  /\ 1..Least(cumAck, FlowSize) \subseteq arrived

WindowsOK(cw, ss) ==
  cw \in [Slices -> Mss..Top] /\ ss \in [Slices -> Mss..NoThreshold]

SourceFramed(b) ==
  /\ lastAcked \in 0..(FlowSize - 1) /\ lastAcked <= cumAck
  /\ highestSent \in 0..(FlowSize + Mss) /\ highestSent <= lastAcked + Top
  /\ established => InFrame(b, lastAcked) /\ (highestSent < FlowSize => InFrame(b, highestSent))
  /\ ~established => /\ b = 1 /\ lastAcked = 0 /\ highestSent \in {0, 1}
                     /\ ~finished /\ ~inRecovery
  /\ highestSent = 0 => /\ lastAcked = 0 /\ net = EmptyBag /\ acks = EmptyBag
                        /\ ~rtxPending /\ ~finished /\ ~inRecovery
  /\ highestSent > 0 => lastAcked < highestSent /\ (timer \/ established) /\ WindowsOK(cwnd, ssthresh)

\* The rest of the types: of what the classes count, and of all else.
CountsTyped ==
  /\ seen \in [Slices -> Nat] /\ pastCwnd \in [Slices -> Nat]
  /\ marked \in [Slices -> BOOLEAN] /\ alfa \in [Slices -> BOOLEAN]
  /\ ownCwnd \in 0..NoThreshold /\ lastSeqAI \in Nat

RestTyped ==
  /\ CountsTyped
  /\ cwnd \in [Slices -> 0..Top] /\ ssthresh \in [Slices -> 0..NoThreshold]
  /\ dupacks \in 0..4 /\ recoverq \in 0..(FlowSize + Mss)
  /\ faults \in 0..MaxFaults
  /\ established \in BOOLEAN /\ bypass \in BOOLEAN /\ inRecovery \in BOOLEAN
  /\ timer \in BOOLEAN /\ rtxPending \in BOOLEAN /\ finished \in BOOLEAN

Framed(b) ==
  /\ RestTyped /\ NetFramed(b) /\ AcksFramed(b) /\ SinkFramed(b) /\ SourceFramed(b)
  /\ TimerWhileRunning /\ RecoveryCanEnd

IInv == \E b \in {0, 1} : Framed(b)

-----------------------------------------------------------------------------
(* Bags *)

\* Two bags together.
LEMMA Together ==
  ASSUME NEW A, IsABag(A), NEW B, IsABag(B)
  PROVE  IsABag(A (+) B) /\ DOMAIN (A (+) B) = DOMAIN A \cup DOMAIN B
<1>1. /\ A \in [DOMAIN A -> {n \in Nat : n > 0}]
      /\ B \in [DOMAIN B -> {n \in Nat : n > 0}]  BY DEF IsABag
<1>2. A (+) B = [e \in DOMAIN A \cup DOMAIN B |->
                   (IF e \in DOMAIN A THEN A[e] ELSE 0) + (IF e \in DOMAIN B THEN B[e] ELSE 0)]
  BY DEF (+)
<1>3. \A e \in DOMAIN A \cup DOMAIN B :
        (IF e \in DOMAIN A THEN A[e] ELSE 0) + (IF e \in DOMAIN B THEN B[e] ELSE 0)
          \in {n \in Nat : n > 0}
  BY <1>1
<1>4. QED  BY <1>2, <1>3 DEF IsABag

\* A set as a bag.
LEMMA OneOfEach ==
  ASSUME NEW S
  PROVE  IsABag(SetToBag(S)) /\ DOMAIN SetToBag(S) = S
BY DEF IsABag, SetToBag

\* A bag with one element more.
LEMMA Added ==
  ASSUME NEW B, IsABag(B), NEW x
  PROVE  IsABag(B (+) One(x)) /\ DOMAIN (B (+) One(x)) = DOMAIN B \cup {x}
BY OneOfEach, Together DEF One

\* A bag with one element less.
LEMMA Removed ==
  ASSUME NEW B, IsABag(B), NEW x
  PROVE  IsABag(B (-) One(x)) /\ DOMAIN (B (-) One(x)) \subseteq DOMAIN B
<1>1. B \in [DOMAIN B -> {n \in Nat : n > 0}]  BY DEF IsABag
<1>2. DOMAIN One(x) = {x} /\ One(x)[x] = 1  BY DEF One, SetToBag
<1>3. PICK L : L = [e \in DOMAIN B |-> IF e \in DOMAIN One(x) THEN B[e] - One(x)[e] ELSE B[e]]
  OBVIOUS
<1>4. B (-) One(x) = [e \in {d \in DOMAIN L : L[d] > 0} |-> L[e]]  BY <1>3 DEF (-)
<1>5. DOMAIN L = DOMAIN B /\ \A e \in DOMAIN B : L[e] \in Nat
  <2>1. \A e \in DOMAIN B : L[e] = IF e = x THEN B[e] - 1 ELSE B[e]  BY <1>2, <1>3
  <2>2. QED  BY <1>1, <1>3, <2>1
<1>6. QED  BY <1>4, <1>5 DEF IsABag

\* The empty bag has no element.
LEMMA NoElement == IsABag(EmptyBag) /\ DOMAIN EmptyBag = {}
BY OneOfEach DEF EmptyBag

-----------------------------------------------------------------------------
(* Frames *)

\* A place any number of packets from one in frame is in frame.
LEMMA FrameOffset ==
  ASSUME NEW b \in Int, NEW x \in Int, InFrame(b, x), NEW k \in Int
  PROVE  InFrame(b, x + k * Mss)
<1>1. PICK j \in Int : x = b + j * Mss  BY DEF InFrame
<1>2. Mss \in Int  BY TCPAssumption
<1>3. x + k * Mss = b + (j + k) * Mss  BY <1>1, <1>2
<1>4. QED  BY <1>3 DEF InFrame

\* The next frame.
LEMMA FrameNext ==
  ASSUME NEW b \in Int, NEW x \in Int, InFrame(b, x)
  PROVE  InFrame(b, x + Mss)
<1>1. x + 1 * Mss = x + Mss  BY TCPAssumption
<1>2. QED  BY <1>1, FrameOffset

\* Two places in frame are a packet apart.
LEMMA FramesApart ==
  ASSUME NEW b \in Int, NEW x \in Int, InFrame(b, x), NEW y \in Int, InFrame(b, y), x < y
  PROVE  x + Mss <= y
<1>1. PICK j \in Int : x = b + j * Mss  BY DEF InFrame
<1>2. PICK k \in Int : y = b + k * Mss  BY DEF InFrame
<1>3. Mss \in Nat \ {0}  BY TCPAssumption
<1>4. j < k
  <2>1. SUFFICES ASSUME k <= j  PROVE FALSE  OBVIOUS
  <2>2. (j - k) * Mss >= 0  BY <1>3, <2>1
  <2>3. (j - k) * Mss = j * Mss - k * Mss  BY <1>3
  <2>4. j * Mss \in Int /\ k * Mss \in Int  BY <1>3
  <2>5. QED  BY <1>1, <1>2, <2>2, <2>3, <2>4
<1>5. j * Mss + Mss <= k * Mss  BY <1>3, <1>4, MultiplesApart
<1>6. j * Mss \in Int /\ k * Mss \in Int  BY <1>3
<1>7. QED  BY <1>1, <1>2, <1>3, <1>5, <1>6

\* The first byte of data is in frame.
LEMMA FrameBase ==
  ASSUME NEW b \in Int
  PROVE  InFrame(b, b)
<1>1. b = b + 0 * Mss  BY TCPAssumption
<1>2. QED  BY <1>1 DEF InFrame

-----------------------------------------------------------------------------
(* Sending *)

\* What send_packets leaves, with everything up to n acknowledged, from
\* highest h on and with a window of c, when N packets were in the network.
SentOK(b, h, n, c, on, more) ==
  /\ IsABag(net')
  /\ \A p \in DOMAIN net' : p \in DOMAIN net \/ p \in DOMAIN more \/ DataPacket(b, p)
  /\ highestSent' \in h..(FlowSize + Mss)
  /\ highestSent' <= h \/ highestSent' <= n + c
  /\ highestSent' < FlowSize => InFrame(b, highestSent')
  /\ timer' \in BOOLEAN /\ (on => timer')
  /\ n = h => n < highestSent' /\ timer'

\* The packets that the loop sends start in frame, end within the window and
\* the last of them a packet past the start of it.
LEMMA StartsFacts ==
  ASSUME NEW b \in {0, 1}, NEW h \in Nat, NEW n \in 0..h, NEW c \in Nat,
         h < FlowSize => InFrame(b, h),
         NEW q \in Starts(h, n, c)
  PROVE  /\ q \in h..(FlowSize - 1) /\ InFrame(b, q) /\ q + Mss <= n + c
<1>1. PICK k \in 0..FlowSize : q = h + k * Mss /\ h + k * Mss < FlowSize
                               /\ n + c >= h + (k + 1) * Mss
  BY DEF Starts
<1>2. Mss \in Nat \ {0} /\ FlowSize \in Nat  BY TCPAssumption
<1>3. k * Mss \in Nat /\ (k + 1) * Mss = k * Mss + Mss  BY <1>2
<1>4. q \in h..(FlowSize - 1) /\ q + Mss <= n + c  BY <1>1, <1>2, <1>3
<1>5. InFrame(b, q)
  <2>1. h < FlowSize  BY <1>1, <1>2, <1>3
  <2>2. QED  BY <1>1, <2>1, FrameOffset
<1>6. QED  BY <1>4, <1>5

\* With room for a packet, and all acknowledged, there is one to send.
LEMMA StartsSome ==
  ASSUME NEW h \in 0..(FlowSize - 1), NEW c \in Nat, c >= Mss
  PROVE  h \in Starts(h, h, c)
<1>1. Mss \in Nat \ {0} /\ FlowSize \in Nat  BY TCPAssumption
<1>2. 0 * Mss = 0 /\ (0 + 1) * Mss = Mss  BY <1>1
<1>3. 0 \in 0..FlowSize /\ h = h + 0 * Mss /\ h + 0 * Mss < FlowSize
      /\ h + c >= h + (0 + 1) * Mss
  BY <1>1, <1>2
<1>4. QED  BY <1>3 DEF Starts

\* A set of numbers below a bound has a last element.
LEMMA LastElement ==
  ASSUME NEW S, S # {}, NEW m \in Nat, S \subseteq 0..m
  PROVE  \E q \in S : \A r \in S : r <= q
<1> DEFINE T == {m - x : x \in S}
<1>1. T \in SUBSET Nat /\ T # {}
  <2>1. \A x \in S : m - x \in Nat  OBVIOUS
  <2>2. QED  BY <2>1
<1>2. PICK y \in T : \A z \in T : y <= z  BY <1>1, LeastElement
<1>3. PICK q \in S : y = m - q  OBVIOUS
<1>4. ASSUME NEW r \in S  PROVE r <= q
  <2>1. m - r \in T  OBVIOUS
  <2>2. m - q <= m - r  BY <1>2, <1>3, <2>1
  <2>3. QED  BY <2>2
<1>5. QED  BY <1>3, <1>4

\* The packets sent from the places where they start: whole ones, or one to
\* the end of the flow.
LEMMA SizeFacts ==
  ASSUME NEW b \in {0, 1}, NEW q \in 0..(FlowSize - 1), InFrame(b, q)
  PROVE  /\ DataPacket(b, [seq |-> q + 1, size |-> SizeAt(q)])
         /\ SizeAt(q) \in 1..Mss /\ q + SizeAt(q) <= FlowSize + 1
         /\ q + SizeAt(q) < FlowSize => SizeAt(q) = Mss
         /\ DataPacket(b, [seq |-> q + 1, size |-> Mss])
         /\ Again(q) = [seq |-> q + 1, size |-> Mss]
<1>1. Mss \in Nat \ {0} /\ FlowSize \in Nat /\ FlowSize >= Mss  BY TCPAssumption
<1>2. PICK n : n = SizeAt(q)  OBVIOUS
<1>3. n = IF q + Mss <= FlowSize THEN Mss ELSE FlowSize - q + 1  BY <1>2 DEF SizeAt
<1>4. /\ n \in 1..Mss /\ q + n <= FlowSize + 1 /\ (q + n < FlowSize => n = Mss)
      /\ n = Mss \/ n = FlowSize - (q + 1) + 2
  BY <1>1, <1>3
<1>5. (q + 1) - 1 = q /\ q + 1 \in 1..FlowSize /\ Mss \in 1..Mss  BY <1>1
<1>6. DataPacket(b, [seq |-> q + 1, size |-> n])
  BY <1>4, <1>5 DEF DataPacket
<1>7. DataPacket(b, [seq |-> q + 1, size |-> Mss])
  BY <1>5 DEF DataPacket
<1>8. Again(q) = [seq |-> q + 1, size |-> Mss]  BY <1>1 DEF Again, Least
<1>9. QED  BY <1>2, <1>4, <1>6, <1>7, <1>8

\* send_packets of Opera, once the flow is established.
LEMMA SendsFacts ==
  ASSUME NEW b \in {0, 1}, NEW h \in 0..(FlowSize + Mss), NEW n \in 0..h, n < FlowSize,
         NEW s, NEW cw, NEW c \in Nat, c = cw[s], c >= Mss,
         h < FlowSize => InFrame(b, h),
         NEW est, est = TRUE, NEW on \in BOOLEAN, NEW more, IsABag(more), IsABag(net),
         Sends(s, h, n, cw, est, on, more)
  PROVE  SentOK(b, h, n, c, on, more)
<1> DEFINE starts == Starts(h, n, c)
           new == SetToBag({[seq |-> q + 1, size |-> SizeAt(q)] : q \in starts})
<1>1. Mss \in Nat \ {0} /\ FlowSize \in Nat  BY TCPAssumption
<1>2. /\ net' = net (+) more (+) new
      /\ highestSent' = IF starts = {} THEN h
                        ELSE LET q == CHOOSE q \in starts : \A r \in starts : r <= q
                             IN q + SizeAt(q)
      /\ timer' = (on \/ starts # {})
  BY DEF Sends
<1>3. \A q \in starts : /\ q \in h..(FlowSize - 1) /\ InFrame(b, q) /\ q + Mss <= n + c
                        /\ q \in 0..(FlowSize - 1)
  <2>1. h \in Nat  BY <1>1
  <2>2. QED  BY <1>1, <2>1, StartsFacts
<1>4. n = h => starts # {}
  <2>1. n = h => h \in 0..(FlowSize - 1)  BY <1>1
  <2>2. QED  BY <2>1, StartsSome
<1>5. /\ IsABag(net')
      /\ \A p \in DOMAIN net' : p \in DOMAIN net \/ p \in DOMAIN more \/ DataPacket(b, p)
  <2>1. IsABag(new) /\ DOMAIN new = {[seq |-> q + 1, size |-> SizeAt(q)] : q \in starts}
    BY OneOfEach
  <2>2. \A p \in DOMAIN new : DataPacket(b, p)  BY <1>3, <2>1, SizeFacts
  <2>3. IsABag(net (+) more) /\ DOMAIN (net (+) more) = DOMAIN net \cup DOMAIN more
    BY Together
  <2>4. IsABag(net') /\ DOMAIN net' = DOMAIN net \cup DOMAIN more \cup DOMAIN new
    BY ONLY <1>2, <2>1, <2>3, Together
  <2>5. QED  BY <2>2, <2>4
<1>6. CASE starts = {}
  <2>1. highestSent' = h /\ n # h  BY <1>2, <1>4, <1>6
  <2>2. QED  BY <1>1, <1>2, <1>5, <1>6, <2>1 DEF SentOK
<1>7. CASE starts # {}
  <2> DEFINE last == CHOOSE q \in starts : \A r \in starts : r <= q
  <2>1. starts \subseteq 0..FlowSize  BY <1>1, <1>3
  <2>2. last \in starts  BY <1>1, <1>7, <2>1, LastElement
  <2>3. PICK q \in starts : q = last  BY <2>2
  <2>4. highestSent' = q + SizeAt(q)  BY <1>2, <1>7, <2>3
  <2>5. /\ q \in h..(FlowSize - 1) /\ InFrame(b, q) /\ q + Mss <= n + c
        /\ q \in 0..(FlowSize - 1)
    BY <1>3, <2>3
  <2>6. /\ SizeAt(q) \in 1..Mss /\ q + SizeAt(q) <= FlowSize + 1
        /\ q + SizeAt(q) < FlowSize => SizeAt(q) = Mss
    BY <2>5, SizeFacts
  <2>7. /\ highestSent' \in h..(FlowSize + Mss) /\ highestSent' <= n + c
        /\ h < highestSent'
    BY <1>1, <2>4, <2>5, <2>6
  <2>8. highestSent' < FlowSize => InFrame(b, highestSent')
    BY <2>4, <2>5, <2>6, FrameNext
  <2>9. timer' = TRUE  BY <1>2, <1>7
  <2>10. QED  BY <1>5, <2>7, <2>8, <2>9 DEF SentOK
<1>8. QED  BY <1>6, <1>7

\* The packets that start in the window of the Clos simulator are as many as
\* whole packets fit.
LEMMA StartsCount ==
  ASSUME NEW h \in Nat, NEW n \in 0..h, NEW c \in Nat, Starts(h, n, c) # {}
  PROVE  \E q \in Starts(h, n, c) : h + Mss * Cardinality(Starts(h, n, c)) = q + Mss
<1> DEFINE S == Starts(h, n, c)
           K == {k \in 0..FlowSize : h + k * Mss < FlowSize /\ n + c >= h + (k + 1) * Mss}
<1>1. Mss \in Nat \ {0} /\ FlowSize \in Nat  BY TCPAssumption
<1>2. S = {h + k * Mss : k \in K}  BY DEF Starts
<1>3. K # {} /\ K \subseteq 0..FlowSize  BY <1>2
<1>4. PICK m \in K : \A k \in K : k <= m  BY <1>1, <1>3, LastElement
<1>5. m \in Nat /\ m <= FlowSize /\ h + m * Mss < FlowSize /\ n + c >= h + (m + 1) * Mss
  OBVIOUS
<1>6. K = 0..m
  <2>1. ASSUME NEW k \in 0..m  PROVE k \in K
    <3>1. (m - k) * Mss >= 0 /\ (m - k) * Mss = m * Mss - k * Mss
      BY <1>1, <1>5
    <3>2. m * Mss \in Nat /\ k * Mss \in Nat /\ (k + 1) * Mss = k * Mss + Mss
          /\ (m + 1) * Mss = m * Mss + Mss
      BY <1>1, <1>5
    <3>3. k \in 0..FlowSize  BY <1>1, <1>5
    <3>4. h + k * Mss < FlowSize /\ n + c >= h + (k + 1) * Mss
      BY <1>1, <1>5, <3>1, <3>2
    <3>5. QED  BY <3>3, <3>4
  <2>2. QED  BY <1>3, <1>4, <1>5, <2>1
<1>7. PICK f : f = [k \in 0..m |-> h + k * Mss]  OBVIOUS
<1>8. f \in Bijection(0..m, S)
  <2>1. \A i, j \in 0..m : f[i] = f[j] => i = j
    <3>1. SUFFICES ASSUME NEW i \in 0..m, NEW j \in 0..m, f[i] = f[j], i < j  PROVE FALSE
      OBVIOUS
    <3>2. i \in Int /\ j \in Int /\ h + i * Mss = h + j * Mss  BY <1>7, <3>1
    <3>3. i * Mss + Mss <= j * Mss  BY <1>1, <3>1, <3>2, MultiplesApart
    <3>4. i * Mss \in Int /\ j * Mss \in Int  BY <1>1
    <3>5. QED  BY <1>1, <3>2, <3>3, <3>4
  <2>2. f \in [0..m -> S]  BY <1>2, <1>6, <1>7
  <2>3. \A q \in S : \E k \in 0..m : f[k] = q  BY <1>2, <1>6, <1>7
  <2>4. QED  BY <2>1, <2>2, <2>3 DEF Bijection, Injection, Surjection, IsInjective
<1>9. IsFiniteSet(0..m) /\ Cardinality(0..m) = m + 1
  BY <1>5, FS_Interval
<1>10. Cardinality(S) = m + 1  BY <1>8, <1>9, FS_Bijection DEF ExistsBijection
<1>11. h + m * Mss \in S  BY <1>2
<1>12. h + Mss * (m + 1) = (h + m * Mss) + Mss  BY <1>1, <1>5
<1>13. QED  BY <1>10, <1>11, <1>12

\* send_packets of the Clos simulator, once the flow is established.
LEMMA ClosSendsFacts ==
  ASSUME NEW b \in {0, 1}, NEW h \in 0..(FlowSize + Mss), NEW n \in 0..h, n < FlowSize,
         NEW c \in Nat, c >= Mss, h < FlowSize => InFrame(b, h),
         NEW est, est = TRUE, NEW on \in BOOLEAN, NEW more, IsABag(more), IsABag(net),
         ClosSends(h, n, c, est, on, more)
  PROVE  SentOK(b, h, n, c, on, more)
<1> DEFINE starts == Starts(h, n, c)
           new == SetToBag({Again(q) : q \in starts})
<1>1. Mss \in Nat \ {0} /\ FlowSize \in Nat  BY TCPAssumption
<1>2. /\ net' = net (+) more (+) new
      /\ highestSent' = h + Mss * Cardinality(starts)
      /\ timer' = (on \/ starts # {})
  BY DEF ClosSends
<1>3. \A q \in starts : /\ q \in h..(FlowSize - 1) /\ InFrame(b, q) /\ q + Mss <= n + c
                        /\ q \in 0..(FlowSize - 1)
  <2>1. h \in Nat  BY <1>1
  <2>2. QED  BY <1>1, <2>1, StartsFacts
<1>4. n = h => starts # {}
  <2>1. n = h => h \in 0..(FlowSize - 1)  BY <1>1
  <2>2. QED  BY <2>1, StartsSome
<1>5. /\ IsABag(net')
      /\ \A p \in DOMAIN net' : p \in DOMAIN net \/ p \in DOMAIN more \/ DataPacket(b, p)
  <2>1. IsABag(new) /\ DOMAIN new = {Again(q) : q \in starts}
    BY OneOfEach
  <2>2. \A p \in DOMAIN new : DataPacket(b, p)
    <3>1. \A q \in starts : DataPacket(b, Again(q))  BY <1>3, SizeFacts
    <3>2. QED  BY <2>1, <3>1
  <2>3. IsABag(net (+) more) /\ DOMAIN (net (+) more) = DOMAIN net \cup DOMAIN more
    BY Together
  <2>4. IsABag(net') /\ DOMAIN net' = DOMAIN net \cup DOMAIN more \cup DOMAIN new
    BY ONLY <1>2, <2>1, <2>3, Together
  <2>5. QED  BY <2>2, <2>4
<1>6. CASE starts = {}
  <2>1. Cardinality(starts) = 0  BY <1>6, FS_EmptySet
  <2>2. highestSent' = h /\ n # h  BY <1>1, <1>2, <1>4, <1>6, <2>1
  <2>3. QED  BY <1>1, <1>2, <1>5, <1>6, <2>2 DEF SentOK
<1>7. CASE starts # {}
  <2>1. h \in Nat  BY <1>1
  <2>2. PICK q \in starts : h + Mss * Cardinality(starts) = q + Mss
    BY <1>7, <2>1, StartsCount
  <2>3. highestSent' = q + Mss  BY <1>2, <2>2
  <2>4. /\ q \in h..(FlowSize - 1) /\ InFrame(b, q) /\ q + Mss <= n + c
        /\ q \in 0..(FlowSize - 1)
    BY <1>3
  <2>5. /\ highestSent' \in h..(FlowSize + Mss) /\ highestSent' <= n + c
        /\ h < highestSent'
    BY <1>1, <2>3, <2>4
  <2>6. InFrame(b, highestSent')  BY <2>3, <2>4, FrameNext
  <2>7. timer' = TRUE  BY <1>2, <1>7
  <2>8. QED  BY <1>5, <2>5, <2>6, <2>7 DEF SentOK
<1>8. QED  BY <1>6, <1>7

-----------------------------------------------------------------------------
(* An ack *)

\* inflate_window leaves room for a packet, and at most MaxCwnd.
LEMMA InflatedFacts ==
  ASSUME NEW c \in Mss..Top, NEW t \in Mss..NoThreshold, NEW h \in Nat, NEW a \in Nat,
         bypass \in BOOLEAN
  PROVE  Least(Inflated(c, t, h, a), MaxCwnd) \in Mss..MaxCwnd
<1>1. /\ Mss \in Nat \ {0} /\ MaxCwnd \in Nat /\ MaxCwnd >= 3 * Mss /\ NoThreshold \in Nat
      /\ Top \in Nat
  BY TCPAssumption DEF Top
<1>2. PICK newly \in Int : newly = Least(a + c - h, Mss)
  <2>1. Least(a + c - h, Mss) \in Int  BY <1>1 DEF Least
  <2>2. QED  BY <2>1
<1>3. PICK x : x = (newly * Mss) \div c  OBVIOUS
<1>4. newly >= 0 => x \in Nat
  <2>1. newly >= 0 => newly * Mss \in Nat  BY <1>1, <1>2
  <2>2. c \in Nat \ {0}  BY <1>1
  <2>3. QED  BY <1>3, <2>1, <2>2, Division
<1>5. Inflated(c, t, h, a) = IF bypass \/ newly < 0 THEN c
        ELSE Least(IF c < t THEN c + Least(t - c, newly) ELSE c + x, MaxCwnd)
  BY ONLY <1>2, <1>3 DEF Inflated
<1>6. CASE bypass \/ newly < 0
  <2>1. Inflated(c, t, h, a) = c  BY <1>5, <1>6
  <2>2. QED  BY <1>1, <2>1 DEF Least
<1>7. CASE ~ (bypass \/ newly < 0)
  <2>1. newly >= 0 /\ x \in Nat  BY <1>2, <1>4, <1>7
  <2>2. PICK y : y = IF c < t THEN c + Least(t - c, newly) ELSE c + x  OBVIOUS
  <2>3. y \in Nat /\ y >= c
    <3>1. c < t => Least(t - c, newly) \in Nat  BY <1>1, <1>2, <2>1 DEF Least
    <3>2. QED  BY <1>1, <2>1, <2>2, <3>1
  <2>4. Inflated(c, t, h, a) = Least(y, MaxCwnd)  BY <1>5, <1>7, <2>2
  <2>5. QED  BY <1>1, <2>3, <2>4 DEF Least
<1>8. QED  BY <1>6, <1>7

\* What an ack that is not old, of a flow that goes on, finds.
Found(b, a, h) ==
  /\ a \in 0..(FlowSize - 1) /\ a <= cumAck /\ InFrame(b, a) /\ lastAcked \in 0..a
  /\ highestSent \in 1..(FlowSize + Mss)
  /\ h \in highestSent..(FlowSize + Mss) /\ a <= h /\ (h < FlowSize => InFrame(b, h))
  /\ h <= a + Top /\ (h = highestSent \/ h = a)
  /\ WindowsOK(cwnd, ssthresh)
  /\ a = lastAcked => established /\ h = highestSent /\ a < h
  /\ established \/ a = 1
  /\ established => InFrame(b, lastAcked)
  /\ inRecovery => /\ established /\ lastAcked < recoverq /\ recoverq <= highestSent
  /\ h = highestSent => h <= lastAcked + Top

\* An ack that is neither old nor the last finds such a state.
LEMMA AckFinds ==
  ASSUME NEW b \in {0, 1}, Framed(b), NEW a \in DOMAIN acks, ~finished, a >= lastAcked,
         ~AllAcked(a), NEW h,
         h = IF a > lastAcked /\ a >= highestSent THEN a ELSE highestSent
  PROVE  Found(b, a, h)
<1>1. /\ Mss \in Nat \ {0} /\ FlowSize \in Nat /\ MaxCwnd \in Nat /\ FlowSize >= Mss
      /\ Top \in Nat /\ Top > 0
  BY TCPAssumption DEF Top
<1>2. SourceFramed(b) /\ AcksFramed(b) /\ RestTyped /\ RecoveryCanEnd /\ SinkFramed(b)
  BY DEF Framed
<1>3. /\ lastAcked \in 0..(FlowSize - 1) /\ highestSent \in 0..(FlowSize + Mss)
      /\ cumAck \in Nat /\ highestSent <= lastAcked + Top
  BY <1>1, <1>2 DEF SourceFramed, SinkFramed
<1>4. a \in 0..(FlowSize - 1) /\ a <= cumAck /\ InFrame(b, a) /\ (established \/ a = 1)
  BY <1>1, <1>2, <1>3 DEF AcksFramed, AllAcked
<1>5. highestSent > 0
  <2>1. acks # EmptyBag  BY NoElement
  <2>2. QED  BY <1>2, <1>3, <2>1 DEF SourceFramed
<1>6. /\ lastAcked < highestSent /\ WindowsOK(cwnd, ssthresh)
      /\ established => InFrame(b, lastAcked) /\ (highestSent < FlowSize => InFrame(b, highestSent))
      /\ ~established => lastAcked = 0 /\ highestSent \in {0, 1} /\ ~inRecovery
  BY <1>2, <1>5 DEF SourceFramed
<1>7. inRecovery => lastAcked < recoverq /\ recoverq <= highestSent
  BY <1>2 DEF RecoveryCanEnd
<1>8. /\ h \in highestSent..(FlowSize + Mss) /\ a <= h /\ (h = highestSent \/ h = a)
      /\ h <= a + Top /\ (h = highestSent => h <= lastAcked + Top)
      /\ a = lastAcked => h = highestSent /\ a < h
  BY <1>1, <1>3, <1>4, <1>5, <1>6
<1>9. a = lastAcked => established  BY <1>3, <1>4, <1>6
<1>10. h < FlowSize => InFrame(b, h)
  <2>1. CASE h = a  BY <1>4, <2>1
  <2>2. CASE h = highestSent /\ established  BY <1>6, <2>2
  <2>3. CASE h = highestSent /\ ~established
    <3>1. a = 1 /\ highestSent = 1  BY <1>4, <1>5, <1>6, <2>3
    <3>2. QED  BY <1>4, <2>3, <3>1
  <2>4. QED  BY <1>8, <2>1, <2>2, <2>3
<1>11. lastAcked \in 0..a /\ highestSent \in 1..(FlowSize + Mss)  BY <1>1, <1>3, <1>4, <1>5
<1>12. QED  BY <1>4, <1>6, <1>7, <1>8, <1>9, <1>10, <1>11 DEF Found

\* What the handler of such an ack leaves: something sent beyond it, and the
\* rest of the state of the source.
Ahead(b, a) ==
  /\ IsABag(net') /\ \A p \in DOMAIN net' : p \in DOMAIN net \/ DataPacket(b, p)
  /\ highestSent' \in (a + 1)..(FlowSize + Mss) /\ highestSent' <= a + Top
  /\ highestSent' < FlowSize => InFrame(b, highestSent')
  /\ timer' \in BOOLEAN

GoesOn(b, a) ==
  /\ lastAcked' = a /\ WindowsOK(cwnd', ssthresh')
  /\ dupacks' \in 0..4 /\ recoverq' \in 0..(FlowSize + Mss) /\ inRecovery' \in BOOLEAN
  /\ inRecovery' => a < recoverq' /\ recoverq' <= highestSent'
  /\ Ahead(b, a) /\ (timer' \/ rtxPending)

\* What sending adds to it.
LEMMA SentGoesOn ==
  ASSUME NEW b \in {0, 1}, NEW a, NEW h, Found(b, a, h), NEW c \in Mss..Top,
         NEW on \in BOOLEAN, NEW more, \A p \in DOMAIN more : DataPacket(b, p),
         SentOK(b, h, a, c, on, more)
  PROVE  Ahead(b, a) /\ highestSent' \in h..(FlowSize + Mss) /\ (on \/ a = h => timer')
<1>1. Mss \in Nat \ {0} /\ FlowSize \in Nat /\ Top \in Nat  BY TCPAssumption DEF Top
<1>2. a \in 0..(FlowSize - 1) /\ h \in a..(FlowSize + Mss) /\ h <= a + Top
  BY <1>1 DEF Found
<1>3. /\ highestSent' \in h..(FlowSize + Mss)
      /\ highestSent' <= h \/ highestSent' <= a + c
      /\ a = h => a < highestSent' /\ timer'
      /\ timer' \in BOOLEAN /\ (on => timer')
  BY DEF SentOK
<1>4. highestSent' \in (a + 1)..(FlowSize + Mss) /\ highestSent' <= a + Top
  BY <1>1, <1>2, <1>3
<1>5. /\ IsABag(net') /\ \A p \in DOMAIN net' : p \in DOMAIN net \/ DataPacket(b, p)
      /\ highestSent' < FlowSize => InFrame(b, highestSent')
  BY DEF SentOK
<1>6. QED  BY <1>3, <1>4, <1>5 DEF Ahead

\* A window changed within the bounds.
LEMMA OneWindow ==
  ASSUME NEW cw, NEW ss, WindowsOK(cw, ss), NEW w \in Slices, NEW c \in Mss..Top
  PROVE  WindowsOK([cw EXCEPT ![w] = c], ss)
BY DEF WindowsOK

\* A new ack outside of recovery.
LEMMA NewAckGoesOn ==
  ASSUME NEW b \in {0, 1}, Framed(b), NEW a, NEW h, Found(b, a, h), established' = TRUE,
         NEW w \in Slices, NEW s \in Slices, NEW cw, NEW ss, WindowsOK(cw, ss),
         NEW on \in BOOLEAN, on \/ a = h,
         NewAck(a, w, s, cw, ss, h, on)
  PROVE  GoesOn(b, a)
<1>1. /\ Mss \in Nat \ {0} /\ FlowSize \in Nat /\ MaxCwnd \in Nat /\ MaxCwnd >= 3 * Mss
      /\ Top = MaxCwnd + 3 * Mss
  BY TCPAssumption DEF Top
<1>2. IsABag(net) /\ RestTyped  BY DEF Framed, NetFramed
<1>3. /\ a \in 0..(FlowSize - 1) /\ h \in 0..(FlowSize + Mss) /\ a <= h
      /\ h < FlowSize => InFrame(b, h)
  BY <1>1 DEF Found
<1>4. PICK c : c = Least(Inflated(cw[w], ss[w], h, a), MaxCwnd)  OBVIOUS
<1>5. /\ ~inRecovery /\ lastAcked' = a /\ dupacks' = 0
      /\ cwnd' = [cw EXCEPT ![w] = c] /\ ssthresh' = ss
      /\ Sends(s, h, a, cwnd', established', on, EmptyBag)
      /\ recoverq' = recoverq /\ inRecovery' = inRecovery
  BY <1>4 DEF NewAck
<1>6. c \in Mss..MaxCwnd
  <2>1. cw[w] \in Mss..Top /\ ss[w] \in Mss..NoThreshold  BY DEF WindowsOK
  <2>2. h \in Nat /\ a \in Nat /\ bypass \in BOOLEAN  BY <1>1, <1>2, <1>3 DEF RestTyped
  <2>3. QED  BY <1>4, <2>1, <2>2, InflatedFacts
<1>7. c \in Mss..Top  BY <1>1, <1>6
<1>8. WindowsOK(cwnd', ssthresh')  BY <1>5, <1>7, OneWindow
<1>9. PICK d \in Mss..Top : d = cwnd'[s]  BY <1>8 DEF WindowsOK
<1>10. SentOK(b, h, a, d, on, EmptyBag)
  <2>1. a \in 0..h /\ a < FlowSize /\ d \in Nat /\ d >= Mss  BY <1>1, <1>3, <1>9
  <2>2. QED  BY <1>2, <1>3, <1>5, <1>9, <2>1, SendsFacts, NoElement, ZenonT(60)
<1>11. QED
  <2>1. recoverq' \in 0..(FlowSize + Mss) /\ dupacks' \in 0..4 /\ inRecovery' = FALSE
    BY <1>2, <1>5 DEF RestTyped
  <2>2. Ahead(b, a) /\ timer'  BY <1>10, SentGoesOn, NoElement
  <2>3. QED  BY <1>5, <1>8, <2>1, <2>2 DEF GoesOn

\* The ack that ends recovery.
LEMMA FullAckGoesOn ==
  ASSUME NEW b \in {0, 1}, Framed(b), NEW a, NEW h, Found(b, a, h), established' = TRUE,
         a > lastAcked, NEW w \in Slices, NEW s \in Slices, NEW cw, NEW ss, WindowsOK(cw, ss),
         NEW on \in BOOLEAN, on \/ a = h,
         FullAck(a, w, s, cw, ss, h, on)
  PROVE  GoesOn(b, a)
<1>1. /\ Mss \in Nat \ {0} /\ FlowSize \in Nat /\ MaxCwnd \in Nat /\ MaxCwnd >= 3 * Mss
      /\ Top = MaxCwnd + 3 * Mss /\ NoThreshold \in Nat
  BY TCPAssumption DEF Top
<1>2. IsABag(net) /\ RestTyped  BY DEF Framed, NetFramed
<1>3. /\ a \in 0..(FlowSize - 1) /\ h \in 0..(FlowSize + Mss) /\ a <= h
      /\ h < FlowSize => InFrame(b, h)
  BY <1>1 DEF Found
<1>4. PICK c : c = Least(ss[w], h - a + Mss)  OBVIOUS
<1>5. /\ inRecovery /\ inRecovery' = FALSE /\ lastAcked' = a /\ dupacks' = 0
      /\ cwnd' = [cw EXCEPT ![w] = c] /\ ssthresh' = ss
      /\ Sends(s, h, a, cwnd', established', on, EmptyBag)
      /\ recoverq' = recoverq
  BY <1>4 DEF FullAck
<1>6. c \in Mss..Top
  <2>1. ss[w] \in Mss..NoThreshold  BY DEF WindowsOK
  <2>2. h - a + Mss <= Top
    <3>1. CASE h = a  BY <1>1, <1>3, <3>1
    <3>2. CASE h = highestSent
      <4>1. h <= lastAcked + Top /\ InFrame(b, lastAcked) /\ InFrame(b, a) /\ lastAcked \in 0..a
        BY <1>5, <3>2 DEF Found
      <4>2. lastAcked + Mss <= a  BY <1>3, <4>1, FramesApart
      <4>3. QED  BY <1>1, <1>3, <4>1, <4>2
    <3>3. QED  BY <3>1, <3>2 DEF Found
  <2>3. QED  BY <1>1, <1>3, <1>4, <2>1, <2>2 DEF Least
<1>7. WindowsOK(cwnd', ssthresh')  BY <1>5, <1>6, OneWindow
<1>8. PICK d \in Mss..Top : d = cwnd'[s]  BY <1>7 DEF WindowsOK
<1>9. SentOK(b, h, a, d, on, EmptyBag)
  <2>1. a \in 0..h /\ a < FlowSize /\ d \in Nat /\ d >= Mss  BY <1>1, <1>3, <1>8
  <2>2. QED  BY <1>2, <1>3, <1>5, <1>8, <2>1, SendsFacts, NoElement, ZenonT(60)
<1>10. QED
  <2>1. recoverq' \in 0..(FlowSize + Mss) /\ dupacks' \in 0..4 /\ inRecovery' = FALSE
    BY <1>2, <1>5 DEF RestTyped
  <2>2. Ahead(b, a) /\ timer'  BY <1>9, SentGoesOn, NoElement
  <2>3. QED  BY <1>5, <1>7, <2>1, <2>2 DEF GoesOn

\* The ack that shows another hole.
LEMMA PartialAckGoesOn ==
  ASSUME NEW b \in {0, 1}, Framed(b), NEW a, NEW h, Found(b, a, h), established' = TRUE,
         a > lastAcked, NEW w \in Slices, NEW s \in Slices, NEW cw, NEW ss, WindowsOK(cw, ss),
         NEW on \in BOOLEAN,
         PartialAck(a, w, s, cw, ss, h, on)
  PROVE  GoesOn(b, a)
<1>1. /\ Mss \in Nat \ {0} /\ FlowSize \in Nat /\ MaxCwnd \in Nat /\ MaxCwnd >= 3 * Mss
      /\ Top = MaxCwnd + 3 * Mss
  BY TCPAssumption DEF Top
<1>2. IsABag(net) /\ RestTyped  BY DEF Framed, NetFramed
<1>3. /\ a \in 0..(FlowSize - 1) /\ h \in 0..(FlowSize + Mss) /\ a <= h
      /\ h < FlowSize => InFrame(b, h)
      /\ h >= highestSent
  BY <1>1 DEF Found
<1>4. PICK c : c = Most(cw[w] - (a - lastAcked), 0) + Mss  OBVIOUS
<1>5. /\ inRecovery /\ a < recoverq /\ lastAcked' = a
      /\ cwnd' = [cw EXCEPT ![w] = c] /\ ssthresh' = ss
      /\ Sends(s, h, a, cwnd', established', TRUE, One(Again(a)))
      /\ dupacks' = dupacks /\ recoverq' = recoverq /\ inRecovery' = inRecovery
  BY <1>4 DEF PartialAck
<1>6. /\ InFrame(b, lastAcked) /\ InFrame(b, a) /\ lastAcked \in 0..a
      /\ recoverq <= highestSent /\ highestSent \in Nat
  BY <1>5 DEF Found
<1>7. c \in Mss..Top
  <2>1. cw[w] \in Mss..Top  BY DEF WindowsOK
  <2>2. lastAcked + Mss <= a  BY <1>3, <1>6, FramesApart
  <2>3. QED  BY <1>1, <1>3, <1>4, <1>6, <2>1, <2>2 DEF Most
<1>8. WindowsOK(cwnd', ssthresh')  BY <1>5, <1>7, OneWindow
<1>9. PICK d \in Mss..Top : d = cwnd'[s]  BY <1>8 DEF WindowsOK
<1>10. /\ IsABag(One(Again(a))) /\ \A p \in DOMAIN One(Again(a)) : DataPacket(b, p)
  <2>1. DataPacket(b, Again(a))  BY <1>3, <1>6, SizeFacts
  <2>2. QED  BY <2>1, OneOfEach DEF One
<1>11. SentOK(b, h, a, d, TRUE, One(Again(a)))
  <2>1. a \in 0..h /\ a < FlowSize /\ d \in Nat /\ d >= Mss  BY <1>1, <1>3, <1>9
  <2>2. QED  BY <1>2, <1>3, <1>5, <1>9, <1>10, <2>1, SendsFacts
<1>12. /\ dupacks' \in 0..4 /\ recoverq' \in 0..(FlowSize + Mss) /\ inRecovery' \in BOOLEAN
  BY <1>2, <1>5 DEF RestTyped
<1>13. Ahead(b, a) /\ highestSent' \in h..(FlowSize + Mss) /\ timer'
  BY <1>10, <1>11, SentGoesOn
<1>14. recoverq' <= highestSent'  BY <1>1, <1>3, <1>5, <1>6, <1>12, <1>13
<1>15. QED  BY <1>5, <1>8, <1>12, <1>13, <1>14 DEF GoesOn

\* A duplicate ack in recovery.
LEMMA DupInRecoveryGoesOn ==
  ASSUME NEW b \in {0, 1}, Framed(b), ~finished, Found(b, lastAcked, highestSent),
         established' = TRUE,
         NEW w \in Slices, NEW s \in Slices, NEW cw, NEW ss, WindowsOK(cw, ss),
         DupInRecovery(w, s, cw, ss)
  PROVE  GoesOn(b, lastAcked)
<1>1. /\ Mss \in Nat \ {0} /\ FlowSize \in Nat /\ MaxCwnd \in Nat /\ MaxCwnd >= 3 * Mss
      /\ Top = MaxCwnd + 3 * Mss
  BY TCPAssumption DEF Top
<1>2. IsABag(net) /\ RestTyped /\ TimerWhileRunning  BY DEF Framed, NetFramed
<1>3. PICK a : a = lastAcked  OBVIOUS
<1>4. PICK h : h = highestSent  OBVIOUS
<1>5. /\ a \in 0..(FlowSize - 1) /\ h \in 0..(FlowSize + Mss) /\ a <= h /\ h > 0
      /\ h < FlowSize => InFrame(b, h)
      /\ inRecovery => a < recoverq /\ recoverq <= h
  BY <1>1, <1>3, <1>4 DEF Found
<1>6. PICK c : c = Least(cw[w] + Mss, MaxCwnd)  OBVIOUS
<1>7. /\ inRecovery /\ lastAcked' = lastAcked
      /\ cwnd' = [cw EXCEPT ![w] = c] /\ ssthresh' = ss
      /\ Sends(s, h, a, cwnd', established', timer, EmptyBag)
      /\ dupacks' = dupacks /\ recoverq' = recoverq /\ inRecovery' = inRecovery
  BY <1>3, <1>4, <1>6 DEF DupInRecovery
<1>8. c \in Mss..Top
  <2>1. cw[w] \in Mss..Top  BY DEF WindowsOK
  <2>2. QED  BY <1>1, <1>6, <2>1 DEF Least
<1>9. WindowsOK(cwnd', ssthresh')  BY <1>7, <1>8, OneWindow
<1>10. PICK d \in Mss..Top : d = cwnd'[s]  BY <1>9 DEF WindowsOK
<1>11. timer \in BOOLEAN /\ (timer \/ rtxPending)
  BY <1>2, <1>4, <1>5 DEF RestTyped, TimerWhileRunning
<1>12. SentOK(b, h, a, d, timer, EmptyBag)
  <2>1. a \in 0..h /\ a < FlowSize /\ d \in Nat /\ d >= Mss  BY <1>1, <1>5, <1>10
  <2>2. QED  BY <1>2, <1>5, <1>7, <1>10, <1>11, <2>1, SendsFacts, NoElement
<1>13. Ahead(b, a) /\ highestSent' \in h..(FlowSize + Mss) /\ (timer => timer')
  BY <1>3, <1>4, <1>10, <1>11, <1>12, SentGoesOn, NoElement
<1>14. /\ dupacks' \in 0..4 /\ recoverq' \in 0..(FlowSize + Mss) /\ inRecovery' \in BOOLEAN
  BY <1>2, <1>7 DEF RestTyped
<1>15. a < recoverq' /\ recoverq' <= highestSent'
  BY <1>1, <1>5, <1>7, <1>13, <1>14
<1>16. QED  BY <1>3, <1>7, <1>9, <1>11, <1>13, <1>14, <1>15 DEF GoesOn

\* A duplicate ack that is not the third sends by the window as it is.
LEMMA DupAckGoesOn ==
  ASSUME NEW b \in {0, 1}, Framed(b), ~finished, Found(b, lastAcked, highestSent),
         established' = TRUE,
         NEW s \in Slices, NEW cw, NEW ss, WindowsOK(cw, ss),
         DupAck(s, cw, ss)
  PROVE  GoesOn(b, lastAcked)
<1>1. Mss \in Nat \ {0} /\ FlowSize \in Nat  BY TCPAssumption
<1>2. IsABag(net) /\ RestTyped /\ TimerWhileRunning  BY DEF Framed, NetFramed
<1>3. PICK a : a = lastAcked  OBVIOUS
<1>4. PICK h : h = highestSent  OBVIOUS
<1>5. /\ a \in 0..(FlowSize - 1) /\ h \in 0..(FlowSize + Mss) /\ a <= h /\ h > 0
      /\ h < FlowSize => InFrame(b, h)
  BY <1>1, <1>3, <1>4 DEF Found
<1>6. /\ ~inRecovery /\ lastAcked' = lastAcked /\ cwnd' = cw /\ ssthresh' = ss
      /\ dupacks' = Least(dupacks + 1, 4)
      /\ Sends(s, h, a, cw, established', timer, EmptyBag)
      /\ recoverq' = recoverq /\ inRecovery' = inRecovery
  BY <1>3, <1>4 DEF DupAck
<1>7. PICK d \in Mss..Top : d = cw[s]  BY DEF WindowsOK
<1>8. timer \in BOOLEAN /\ (timer \/ rtxPending)
  BY <1>2, <1>4, <1>5 DEF RestTyped, TimerWhileRunning
<1>9. SentOK(b, h, a, d, timer, EmptyBag)
  <2>1. a \in 0..h /\ a < FlowSize /\ d \in Nat /\ d >= Mss  BY <1>1, <1>5, <1>7
  <2>2. QED  BY <1>2, <1>5, <1>6, <1>7, <1>8, <2>1, SendsFacts, NoElement
<1>10. Ahead(b, a) /\ (timer => timer')
  BY <1>3, <1>4, <1>7, <1>8, <1>9, SentGoesOn, NoElement
<1>11. dupacks' \in 0..4 /\ recoverq' \in 0..(FlowSize + Mss) /\ inRecovery' = FALSE
  BY <1>2, <1>6 DEF RestTyped, Least
<1>12. QED  BY <1>3, <1>6, <1>8, <1>10, <1>11 DEF GoesOn

\* The third duplicate ack may only be counted.
LEMMA ThirdIgnoredGoesOn ==
  ASSUME NEW b \in {0, 1}, Framed(b), ~finished, Found(b, lastAcked, highestSent),
         NEW cw, NEW ss, WindowsOK(cw, ss),
         ThirdIgnored(cw, ss)
  PROVE  GoesOn(b, lastAcked)
<1>1. Mss \in Nat \ {0} /\ FlowSize \in Nat  BY TCPAssumption
<1>2. IsABag(net) /\ RestTyped /\ TimerWhileRunning  BY DEF Framed, NetFramed
<1>3. PICK a : a = lastAcked  OBVIOUS
<1>4. PICK h : h = highestSent  OBVIOUS
<1>5. /\ a \in 0..(FlowSize - 1) /\ h \in 1..(FlowSize + Mss) /\ a < h /\ h <= a + Top
      /\ h < FlowSize => InFrame(b, h)
  BY <1>1, <1>3, <1>4 DEF Found
<1>6. /\ ~inRecovery /\ lastAcked' = lastAcked /\ cwnd' = cw /\ ssthresh' = ss /\ dupacks' = 3
      /\ recoverq' = recoverq /\ inRecovery' = inRecovery
      /\ highestSent' = h /\ timer' = timer /\ net' = net
  BY <1>4 DEF ThirdIgnored
<1>7. timer \in BOOLEAN /\ (timer \/ rtxPending)
  BY <1>2, <1>4, <1>5 DEF RestTyped, TimerWhileRunning
<1>8. Ahead(b, a)
  <2>1. highestSent' \in (a + 1)..(FlowSize + Mss) /\ highestSent' <= a + Top
    BY <1>1, <1>5, <1>6
  <2>2. QED  BY <1>2, <1>5, <1>6, <1>7, <2>1 DEF Ahead
<1>9. dupacks' \in 0..4 /\ recoverq' \in 0..(FlowSize + Mss) /\ inRecovery' = FALSE
  BY <1>2, <1>6 DEF RestTyped
<1>10. QED  BY <1>3, <1>6, <1>7, <1>8, <1>9 DEF GoesOn

\* deflate_window stays within the bounds.
LEMMA DeflatedFacts ==
  ASSUME NEW c \in 0..Top
  PROVE  /\ Deflated(c) \in Mss..MaxCwnd /\ Deflated(c) \in Mss..NoThreshold
         /\ Deflated(c) + 3 * Mss \in Mss..Top
<1>1. /\ Mss \in Nat \ {0} /\ MaxCwnd \in Nat /\ MaxCwnd >= 3 * Mss
      /\ Top = MaxCwnd + 3 * Mss /\ NoThreshold \in Nat /\ NoThreshold >= MaxCwnd
  BY TCPAssumption DEF Top
<1>2. PICK x : x = c \div 2  OBVIOUS
<1>3. x \in Nat /\ 2 * x <= c  BY <1>1, <1>2
<1>4. Deflated(c) = IF x > 2 * Mss THEN x ELSE 2 * Mss  BY <1>2 DEF Deflated, Most
<1>5. QED  BY <1>1, <1>3, <1>4

\* The third that starts recovery sends the missing packet again.
LEMMA StartRecoveryGoesOn ==
  ASSUME NEW b \in {0, 1}, Framed(b), ~finished, Found(b, lastAcked, highestSent),
         NEW w \in Slices, NEW cw, NEW ss, WindowsOK(cw, ss),
         StartRecovery(w, cw, ss)
  PROVE  GoesOn(b, lastAcked)
<1>1. Mss \in Nat \ {0} /\ FlowSize \in Nat /\ Top \in Nat  BY TCPAssumption DEF Top
<1>2. IsABag(net)  BY DEF Framed, NetFramed
<1>3. PICK a : a = lastAcked  OBVIOUS
<1>4. PICK h : h = highestSent  OBVIOUS
<1>5. /\ a \in 0..(FlowSize - 1) /\ h \in 1..(FlowSize + Mss) /\ a < h /\ h <= a + Top
      /\ h < FlowSize => InFrame(b, h)
      /\ InFrame(b, a)
  BY <1>1, <1>3, <1>4 DEF Found
<1>6. PICK t : t = Deflated(cw[w])  OBVIOUS
<1>7. /\ dupacks' = 3 /\ inRecovery' = TRUE /\ recoverq' = h
      /\ ssthresh' = [ss EXCEPT ![w] = t]
      /\ cwnd' = [cw EXCEPT ![w] = ssthresh'[w] + 3 * Mss]
      /\ net' = net (+) One(Again(a)) /\ timer' = TRUE
      /\ lastAcked' = lastAcked /\ highestSent' = h
  BY <1>3, <1>4, <1>6 DEF StartRecovery
<1>8. t \in Mss..NoThreshold /\ t + 3 * Mss \in Mss..Top
  <2>1. cw[w] \in 0..Top  BY <1>1 DEF WindowsOK
  <2>2. QED  BY <1>6, <2>1, DeflatedFacts
<1>9. WindowsOK(cwnd', ssthresh')
  <2>1. ssthresh' \in [Slices -> Mss..NoThreshold] /\ ssthresh'[w] = t
    BY <1>7, <1>8 DEF WindowsOK
  <2>2. cwnd' \in [Slices -> Mss..Top]  BY <1>7, <1>8, <2>1 DEF WindowsOK
  <2>3. QED  BY <2>1, <2>2 DEF WindowsOK
<1>10. Ahead(b, a)
  <2>1. DataPacket(b, Again(a))  BY <1>5, SizeFacts
  <2>2. IsABag(net') /\ \A p \in DOMAIN net' : p \in DOMAIN net \/ DataPacket(b, p)
    <3>1. IsABag(net') /\ DOMAIN net' = DOMAIN net \cup {Again(a)}  BY <1>2, <1>7, Added
    <3>2. QED  BY <2>1, <3>1
  <2>3. highestSent' \in (a + 1)..(FlowSize + Mss) /\ highestSent' <= a + Top
    BY <1>1, <1>5, <1>7
  <2>4. QED  BY <1>5, <1>7, <2>2, <2>3 DEF Ahead
<1>11. /\ dupacks' \in 0..4 /\ recoverq' \in 0..(FlowSize + Mss)
       /\ a < recoverq' /\ recoverq' <= highestSent'
  BY <1>1, <1>5, <1>7
<1>12. QED  BY <1>3, <1>7, <1>9, <1>10, <1>11 DEF GoesOn

\* An ack that is handled so keeps the invariant.
LEMMA GoesOnStep ==
  ASSUME NEW b \in {0, 1}, Framed(b), NEW a \in DOMAIN acks, NEW h, Found(b, a, h),
         GoesOn(b, a), acks' = acks (-) One(a), established' = TRUE, finished' = FALSE,
         UNCHANGED <<bypass, rtxPending, sink, faults>>, CountsTyped'
  PROVE  Framed(b)'
<1>1. /\ Mss \in Nat \ {0} /\ FlowSize \in Nat /\ Top \in Nat /\ NoThreshold \in Nat
  BY TCPAssumption DEF Top
<1>2. /\ NetFramed(b) /\ AcksFramed(b) /\ SinkFramed(b) /\ RestTyped
  BY DEF Framed
<1>3. /\ lastAcked' = a /\ WindowsOK(cwnd', ssthresh')
      /\ dupacks' \in 0..4 /\ recoverq' \in 0..(FlowSize + Mss) /\ inRecovery' \in BOOLEAN
      /\ inRecovery' => a < recoverq' /\ recoverq' <= highestSent'
      /\ timer' \/ rtxPending
      /\ IsABag(net') /\ \A p \in DOMAIN net' : p \in DOMAIN net \/ DataPacket(b, p)
      /\ highestSent' \in (a + 1)..(FlowSize + Mss) /\ highestSent' <= a + Top
      /\ highestSent' < FlowSize => InFrame(b, highestSent')
      /\ timer' \in BOOLEAN
  BY DEF GoesOn, Ahead
<1>4. /\ a \in 0..(FlowSize - 1) /\ a <= cumAck /\ InFrame(b, a) /\ (established \/ a = 1)
  BY DEF Found
<1>5. /\ bypass' = bypass /\ rtxPending' = rtxPending /\ faults' = faults
      /\ cumAck' = cumAck /\ received' = received /\ arrived' = arrived
  BY DEF sink
<1>6. RestTyped'
  <2>1. cwnd' \in [Slices -> 0..Top] /\ ssthresh' \in [Slices -> 0..NoThreshold]
    BY <1>1, <1>3 DEF WindowsOK
  <2>2. bypass' \in BOOLEAN /\ rtxPending' \in BOOLEAN /\ faults' \in 0..MaxFaults
    BY <1>2, <1>5 DEF RestTyped
  <2>3. QED  BY <1>3, <2>1, <2>2 DEF RestTyped
<1>7. NetFramed(b)'
  <2>1. \A p \in DOMAIN net' : (b = 1 /\ p = Syn) \/ DataPacket(b, p)
    BY <1>2, <1>3 DEF NetFramed
  <2>2. QED  BY <1>3, <2>1 DEF NetFramed, DataPacket, InFrame, Syn
<1>8. AcksFramed(b)'
  <2>1. IsABag(acks') /\ DOMAIN acks' \subseteq DOMAIN acks  BY <1>2, Removed DEF AcksFramed
  <2>2. QED  BY <1>2, <1>5, <2>1 DEF AcksFramed, InFrame
<1>9. SinkFramed(b)'
  <2>1. (cumAck < FlowSize => InFrame(b, cumAck)) /\ (b = 1 => cumAck >= 1)
    <3>1. CASE established  BY <1>2, <3>1 DEF SinkFramed
    <3>2. CASE ~established
      <4>1. a = 1 /\ cumAck \in {0, 1} /\ b = 1
        BY <1>2, <1>4, <3>2 DEF SinkFramed, Framed, SourceFramed
      <4>2. cumAck = b  BY <1>4, <4>1
      <4>3. QED  BY <4>1, <4>2, FrameBase
    <3>3. QED  BY <3>1, <3>2
  <2>2. QED  BY <1>2, <1>5, <2>1 DEF SinkFramed, InFrame, BlockCame
<1>10. SourceFramed(b)'
  <2>1. /\ highestSent' \in 0..(FlowSize + Mss) /\ highestSent' # 0 /\ highestSent' > 0
        /\ a < highestSent'
    BY <1>1, <1>3, <1>4
  <2>2. QED  BY <1>3, <1>4, <1>5, <2>1 DEF SourceFramed, InFrame, WindowsOK
<1>11. TimerWhileRunning'  BY <1>3, <1>5 DEF TimerWhileRunning
<1>12. RecoveryCanEnd'  BY <1>3 DEF RecoveryCanEnd
<1>13. QED  BY <1>6, <1>7, <1>8, <1>9, <1>10, <1>11, <1>12 DEF Framed

\* An ack that is ignored, or that ends the flow, changes windows only.
LEMMA SettledStep ==
  ASSUME NEW b \in {0, 1}, Framed(b), NEW a \in DOMAIN acks,
         acks' = acks (-) One(a), WindowsOK(cwnd', ssthresh'),
         UNCHANGED <<bypass, highestSent, lastAcked, dupacks, recoverq, inRecovery, timer,
                     rtxPending, net, sink, faults>>,
         \/ established' = established /\ finished' = finished
         \/ AllAcked(a) /\ established' = (established \/ a = 1) /\ finished' = TRUE,
         CountsTyped'
  PROVE  Framed(b)'
<1>1. /\ Mss \in Nat \ {0} /\ FlowSize \in Nat /\ FlowSize >= Mss /\ Top \in Nat
      /\ NoThreshold \in Nat
  BY TCPAssumption DEF Top
<1>2. /\ NetFramed(b) /\ AcksFramed(b) /\ SinkFramed(b) /\ SourceFramed(b) /\ RestTyped
      /\ TimerWhileRunning /\ RecoveryCanEnd
  BY DEF Framed
<1>3. /\ bypass' = bypass /\ rtxPending' = rtxPending /\ faults' = faults /\ net' = net
      /\ cumAck' = cumAck /\ received' = received /\ arrived' = arrived
      /\ highestSent' = highestSent /\ lastAcked' = lastAcked /\ dupacks' = dupacks
      /\ recoverq' = recoverq /\ inRecovery' = inRecovery /\ timer' = timer
  BY DEF sink
<1>4. highestSent > 0 /\ highestSent # 0
  <2>1. acks # EmptyBag  BY NoElement
  <2>2. QED  BY <1>1, <1>2, <2>1 DEF SourceFramed
<1>5. a \in 0..cumAck /\ (established \/ a = 1)  BY <1>2 DEF AcksFramed
<1>6. /\ established' \in BOOLEAN /\ finished' \in BOOLEAN
      /\ established => established'
      /\ ~established' => ~established /\ ~finished'
      /\ TimerWhileRunning'
  <2>1. CASE established' = established /\ finished' = finished
    BY <1>2, <1>3, <2>1 DEF TimerWhileRunning, RestTyped, SourceFramed
  <2>2. CASE established' = (established \/ a = 1) /\ finished' = TRUE
    <3>1. established' = TRUE  BY <1>5, <2>2
    <3>2. QED  BY <2>2, <3>1 DEF TimerWhileRunning
  <2>3. QED  BY <2>1, <2>2
<1>7. CASE established \/ ~established'
  <2>1. established' = established  BY <1>2, <1>6, <1>7 DEF RestTyped
  <2>2. RestTyped'
    <3>1. cwnd' \in [Slices -> 0..Top] /\ ssthresh' \in [Slices -> 0..NoThreshold]
      BY <1>1 DEF WindowsOK
    <3>2. QED  BY <1>2, <1>3, <1>6, <3>1 DEF RestTyped
  <2>3. NetFramed(b)'  BY <1>2, <1>3, <2>1 DEF NetFramed, DataPacket, InFrame, Syn
  <2>4. AcksFramed(b)'
    <3>1. IsABag(acks') /\ DOMAIN acks' \subseteq DOMAIN acks  BY <1>2, Removed DEF AcksFramed
    <3>2. QED  BY <1>2, <1>3, <2>1, <3>1 DEF AcksFramed, InFrame
  <2>5. SinkFramed(b)'  BY <1>2, <1>3, <2>1 DEF SinkFramed, InFrame, BlockCame
  <2>6. SourceFramed(b)'
    BY <1>2, <1>3, <1>4, <1>6, <2>1 DEF SourceFramed, InFrame, WindowsOK
  <2>7. RecoveryCanEnd'  BY <1>2, <1>3 DEF RecoveryCanEnd
  <2>8. QED  BY <1>6, <2>2, <2>3, <2>4, <2>5, <2>6, <2>7 DEF Framed
<1>8. CASE ~established /\ established'
  <2>1. /\ b = 1 /\ a = 1 /\ FlowSize = 1 /\ Mss = 1 /\ cumAck = 1 /\ received = <<>>
        /\ lastAcked = 0 /\ highestSent = 1 /\ ~inRecovery
    <3>1. a = 1 /\ AllAcked(a)  BY <1>5, <1>8
    <3>2. FlowSize = 1 /\ Mss = 1  BY <1>1, <3>1 DEF AllAcked
    <3>3. QED  BY <1>2, <1>4, <1>5, <1>8, <3>1, <3>2 DEF SinkFramed, SourceFramed
  <2>2. InFrame(b, lastAcked)
    <3>1. 0 = 1 + (-1) * 1 /\ -1 \in Int  OBVIOUS
    <3>2. QED  BY <2>1, <3>1 DEF InFrame
  <2>3. RestTyped'
    <3>1. cwnd' \in [Slices -> 0..Top] /\ ssthresh' \in [Slices -> 0..NoThreshold]
      BY <1>1 DEF WindowsOK
    <3>2. QED  BY <1>2, <1>3, <1>6, <3>1 DEF RestTyped
  <2>4. NetFramed(b)'  BY <1>2, <1>3, <1>8 DEF NetFramed, DataPacket, InFrame, Syn
  <2>5. AcksFramed(b)'
    <3>1. IsABag(acks') /\ DOMAIN acks' \subseteq DOMAIN acks  BY <1>2, Removed DEF AcksFramed
    <3>2. QED  BY <1>2, <1>3, <1>8, <3>1 DEF AcksFramed, InFrame
  <2>6. SinkFramed(b)'
    <3>1. ~ (cumAck < FlowSize) /\ cumAck >= 1  BY <2>1
    <3>2. QED  BY <1>2, <1>3, <1>8, <3>1 DEF SinkFramed, InFrame, BlockCame
  <2>7. SourceFramed(b)'
    <3>1. ~ (highestSent < FlowSize) /\ lastAcked < highestSent  BY <2>1
    <3>2. QED
      BY <1>2, <1>3, <1>4, <1>8, <2>2, <3>1 DEF SourceFramed, InFrame, WindowsOK
  <2>8. RecoveryCanEnd'  BY <1>2, <1>3 DEF RecoveryCanEnd
  <2>9. QED  BY <1>6, <2>3, <2>4, <2>5, <2>6, <2>7, <2>8 DEF Framed
<1>9. QED  BY <1>7, <1>8

\* TcpSrc::receivePacket of Opera keeps the invariant.
LEMMA AcknowledgedStep ==
  ASSUME NEW b \in {0, 1}, Framed(b), NEW a \in DOMAIN acks, NEW w \in Slices, NEW s \in Slices,
         NEW cw, NEW ss, WindowsOK(cw, ss), Acknowledged(a, w, s, cw, ss), CountsTyped'
  PROVE  Framed(b)'
<1> DEFINE new == a > lastAcked
           done == new /\ a >= highestSent
<1>1. PICK h : h = IF done THEN a ELSE highestSent  OBVIOUS
<1>2. /\ acks' = acks (-) One(a)
      /\ UNCHANGED <<bypass, rtxPending, sink, faults>>
  BY DEF Acknowledged
<1>3. /\ AcksFramed(b) /\ SinkFramed(b) /\ SourceFramed(b) /\ RestTyped
  BY DEF Framed
<1>4. a \in Int /\ lastAcked \in Int /\ highestSent \in Int /\ (established \/ a = 1)
  BY <1>3, TCPAssumption DEF AcksFramed, SinkFramed, SourceFramed
<1>5. CASE finished \/ a < lastAcked
  <2>1. /\ cwnd' = cw /\ ssthresh' = ss
        /\ UNCHANGED <<established, highestSent, lastAcked, dupacks, recoverq, inRecovery,
                       timer, finished, net>>
    BY <1>5 DEF Acknowledged
  <2>2. QED  BY <1>2, <2>1, SettledStep
<1>6. CASE ~ (finished \/ a < lastAcked)
  <2>1. /\ established' = (established \/ a = 1)
        /\ finished' = AllAcked(a)
        /\ \/ /\ finished' /\ cwnd' = cw /\ ssthresh' = ss
              /\ UNCHANGED <<highestSent, lastAcked, dupacks, recoverq, inRecovery, timer, net>>
           \/ /\ ~finished' /\ new
              /\ \/ NewAck(a, w, s, cw, ss, h, ~done)
                 \/ FullAck(a, w, s, cw, ss, h, ~done)
                 \/ PartialAck(a, w, s, cw, ss, h, ~done)
           \/ /\ ~finished' /\ ~new
              /\ \/ DupInRecovery(w, s, cw, ss) \/ DupAck(s, cw, ss)
                 \/ ThirdIgnored(cw, ss) \/ StartRecovery(w, cw, ss)
    BY <1>1, <1>6 DEF Acknowledged
  <2>2. established' = TRUE  BY <1>4, <2>1
  <2>3. AllAcked(a) \in BOOLEAN  BY DEF AllAcked
  <2>4. CASE finished'
    <3>1. AllAcked(a) /\ finished' = TRUE  BY <2>1, <2>3, <2>4
    <3>2. UNCHANGED <<highestSent, lastAcked, dupacks, recoverq, inRecovery, timer, net>>
          /\ cwnd' = cw /\ ssthresh' = ss
      BY <2>1, <2>4
    <3>3. QED  BY <1>2, <2>1, <3>1, <3>2, SettledStep
  <2>5. CASE ~finished'
    <3>1. ~AllAcked(a) /\ finished' = FALSE  BY <2>1, <2>3, <2>5
    <3>2. Found(b, a, h)
      <4>1. a >= lastAcked /\ ~finished  BY <1>4, <1>6
      <4>2. QED  BY <1>1, <3>1, <4>1, AckFinds
    <3>3. GoesOn(b, a)
      <4>1. CASE new
        <5>1. (~done) \in BOOLEAN /\ (~done \/ a = h)
          <6>1. done => a = h  BY <1>1
          <6>2. QED  BY <6>1
        <5>2. CASE NewAck(a, w, s, cw, ss, h, ~done)
          BY <2>2, <3>2, <5>1, <5>2, NewAckGoesOn
        <5>3. CASE FullAck(a, w, s, cw, ss, h, ~done)
          BY <2>2, <3>2, <4>1, <5>1, <5>3, FullAckGoesOn
        <5>4. CASE PartialAck(a, w, s, cw, ss, h, ~done)
          BY <2>2, <3>2, <4>1, <5>1, <5>4, PartialAckGoesOn
        <5>5. QED  BY <2>1, <2>5, <4>1, <5>2, <5>3, <5>4
      <4>2. CASE ~new
        <5>1. a = lastAcked /\ h = highestSent /\ ~finished  BY <1>1, <1>4, <1>6, <4>2
        <5>2. Found(b, lastAcked, highestSent)  BY <3>2, <5>1
        <5>3. CASE DupInRecovery(w, s, cw, ss)
          BY <2>2, <5>1, <5>2, <5>3, DupInRecoveryGoesOn
        <5>4. CASE DupAck(s, cw, ss)
          BY <2>2, <5>1, <5>2, <5>4, DupAckGoesOn
        <5>5. CASE ThirdIgnored(cw, ss)
          BY <5>1, <5>2, <5>5, ThirdIgnoredGoesOn
        <5>6. CASE StartRecovery(w, cw, ss)
          BY <5>1, <5>2, <5>6, StartRecoveryGoesOn
        <5>7. QED  BY <2>1, <2>5, <4>2, <5>3, <5>4, <5>5, <5>6
      <4>3. QED  BY <4>1, <4>2
    <3>4. QED  BY <1>2, <2>2, <3>1, <3>2, <3>3, GoesOnStep
  <2>6. QED  BY <2>4, <2>5
<1>7. QED  BY <1>5, <1>6

\* Acks are only received by a flow that has started, and so has its windows.
LEMMA WindowsFound ==
  ASSUME NEW b \in {0, 1}, Framed(b), NEW a \in DOMAIN acks
  PROVE  WindowsOK(cwnd, ssthresh) /\ highestSent > 0
<1>1. SourceFramed(b) /\ highestSent \in 0..(FlowSize + Mss)
  BY DEF Framed, SourceFramed
<1>2. acks # EmptyBag  BY NoElement
<1>3. highestSent > 0  BY <1>1, <1>2, TCPAssumption DEF SourceFramed
<1>4. QED  BY <1>1, <1>3 DEF SourceFramed

\* The cuts of DCTCP leave room for a packet.
LEMMA CutsFacts ==
  ASSUME NEW c \in Mss..Top
  PROVE  /\ Cuts(c) \subseteq Mss..MaxCwnd /\ MaxCwnd \in Nat /\ MaxCwnd <= NoThreshold
         /\ Mss..MaxCwnd \subseteq Mss..Top /\ NoThreshold \in Nat
         /\ ClosCuts(c) \subseteq Mss..Top /\ Top <= NoThreshold
<1>1. /\ Mss \in Nat \ {0} /\ MaxCwnd \in Nat /\ MaxCwnd >= 3 * Mss
      /\ Top = MaxCwnd + 3 * Mss /\ NoThreshold \in Nat /\ NoThreshold >= MaxCwnd + 3 * Mss
  BY TCPAssumption DEF Top
<1>2. \A x \in (c \div 2)..(c - 1) : x \in Nat /\ x < c
  <2>1. c \div 2 \in Nat  BY <1>1
  <2>2. QED  BY <1>1, <2>1
<1>3. \A x \in (c \div 2)..(c - 1) :
        Least(Most(x, Mss), MaxCwnd) \in Mss..MaxCwnd /\ Most(x, Mss) \in Mss..Top
  BY <1>1, <1>2 DEF Least, Most
<1>4. Cuts(c) \subseteq Mss..MaxCwnd /\ ClosCuts(c) \subseteq Mss..Top
  BY <1>3 DEF Cuts, ClosCuts
<1>5. QED  BY <1>1, <1>4

\* An ack of DCTCP, in Opera.
LEMMA ReceiveAckStep ==
  ASSUME NEW b \in {0, 1}, Framed(b), NEW a \in BagToSet(acks), NEW w \in Slices, NEW s \in Slices,
         NEW e \in BOOLEAN, ReceiveAck(a, w, s, e), UNCHANGED own
  PROVE  Framed(b)'
<1>1. a \in DOMAIN acks  BY DEF BagToSet
<1>2. WindowsOK(cwnd, ssthresh)  BY <1>1, WindowsFound
<1>3. /\ Mss \in Nat \ {0} /\ NoThreshold \in Nat /\ Top \in Nat  BY TCPAssumption DEF Top
<1>4. CountsTyped /\ ownCwnd' = ownCwnd /\ lastSeqAI' = lastSeqAI
  BY DEF Framed, RestTyped, own
<1>5. PICK ss : ss = IF e THEN [ssthresh EXCEPT ![w] = Least(@, cwnd[w])] ELSE ssthresh
  OBVIOUS
<1>6. PICK marks \in BOOLEAN : marks = (marked[w] \/ e)
  <2>1. marked[w] \in BOOLEAN  BY <1>4 DEF CountsTyped
  <2>2. (marked[w] \/ e) \in BOOLEAN  OBVIOUS
  <2>3. QED  BY <2>2
<1>7. WindowsOK(cwnd, ss)
  <2>1. cwnd[w] \in Mss..Top /\ ssthresh[w] \in Mss..NoThreshold  BY <1>2 DEF WindowsOK
  <2>2. Least(ssthresh[w], cwnd[w]) \in Mss..NoThreshold  BY <1>3, <2>1 DEF Least
  <2>3. ss \in [Slices -> Mss..NoThreshold]  BY <1>2, <1>5, <2>2 DEF WindowsOK
  <2>4. QED  BY <1>2, <2>3 DEF WindowsOK
<1>8. CASE finished /\ UNCHANGED ecn /\ Acknowledged(a, w, s, cwnd, ssthresh)
  <2>1. CountsTyped'  BY <1>4, <1>8 DEF CountsTyped, ecn
  <2>2. QED  BY <1>1, <1>2, <1>8, <2>1, AcknowledgedStep
<1>9. CASE /\ seen' = [seen EXCEPT ![w] = @ + 1]
           /\ marked' = [marked EXCEPT ![w] = marks]
           /\ UNCHANGED <<alfa, pastCwnd>>
           /\ Acknowledged(a, w, s, cwnd, ss)
  <2>1. seen[w] + 1 \in Nat  BY <1>4 DEF CountsTyped
  <2>2. CountsTyped'  BY <1>4, <1>9, <2>1 DEF CountsTyped
  <2>3. QED  BY <1>1, <1>7, <1>9, <2>2, AcknowledgedStep
<1>10. CASE /\ seen' = [seen EXCEPT ![w] = 0]
            /\ marked' = [marked EXCEPT ![w] = FALSE]
            /\ alfa' = [alfa EXCEPT ![w] = @ \/ marks]
            /\ \E c \in IF alfa'[w] THEN Cuts(cwnd[w]) ELSE {cwnd[w]} :
                 /\ pastCwnd' = [pastCwnd EXCEPT ![w] = c]
                 /\ Acknowledged(a, w, s, [cwnd EXCEPT ![w] = c],
                                 IF alfa'[w] THEN [ss EXCEPT ![w] = c] ELSE ss)
  <2>1. PICK c \in IF alfa'[w] THEN Cuts(cwnd[w]) ELSE {cwnd[w]} :
          /\ pastCwnd' = [pastCwnd EXCEPT ![w] = c]
          /\ Acknowledged(a, w, s, [cwnd EXCEPT ![w] = c],
                          IF alfa'[w] THEN [ss EXCEPT ![w] = c] ELSE ss)
    BY <1>10
  <2>2. cwnd[w] \in Mss..Top  BY <1>2 DEF WindowsOK
  <2>3. c \in Mss..Top /\ (alfa'[w] => c \in Mss..NoThreshold) /\ c \in Nat
    <3>1. CASE alfa'[w]
      <4>1. c \in Mss..MaxCwnd  BY <2>1, <2>2, <3>1, CutsFacts
      <4>2. /\ MaxCwnd \in Nat /\ MaxCwnd <= NoThreshold /\ Mss..MaxCwnd \subseteq Mss..Top
        BY <2>2, CutsFacts
      <4>3. QED  BY <1>3, <4>1, <4>2
    <3>2. CASE ~alfa'[w]  BY <1>3, <2>1, <2>2, <3>2
    <3>3. QED  BY <3>1, <3>2
  <2>4. CountsTyped'
    <3>1. (alfa[w] \/ marks) \in BOOLEAN  OBVIOUS
    <3>2. alfa' \in [Slices -> BOOLEAN]  BY <1>4, <1>10, <3>1 DEF CountsTyped
    <3>3. QED  BY <1>4, <1>10, <2>1, <2>3, <3>2 DEF CountsTyped
  <2>5. PICK cw : cw = [cwnd EXCEPT ![w] = c]  OBVIOUS
  <2>6. PICK st : st = IF alfa'[w] THEN [ss EXCEPT ![w] = c] ELSE ss  OBVIOUS
  <2>7. WindowsOK(cw, st)  BY <1>7, <2>3, <2>5, <2>6 DEF WindowsOK
  <2>8. Acknowledged(a, w, s, cw, st)  BY <2>1, <2>5, <2>6
  <2>9. QED  BY <1>1, <2>4, <2>7, <2>8, AcknowledgedStep
<1>11. QED  BY <1>5, <1>6, <1>8, <1>9, <1>10 DEF ReceiveAck

-----------------------------------------------------------------------------
(* An ack, in the Clos simulator *)

\* What DCTCPSrc, HPCCSrc or BoltSrc may leave to TcpSrc.
LeftOK(r) ==
  /\ r.seen \in Nat /\ r.marked \in BOOLEAN /\ r.alfa \in BOOLEAN /\ r.past \in Nat
  /\ r.cwnd \in Mss..Top /\ r.ssthresh \in Mss..NoThreshold /\ r.deflates \in BOOLEAN
  /\ r.deflates \/ r.ssthresh <= MaxCwnd \/ finished

\* The one window of the Clos simulator, set within the bounds.
LEMMA WindowsSet ==
  ASSUME NEW c \in Mss..Top, NEW t \in Mss..NoThreshold, Windows(c, t)
  PROVE  WindowsOK(cwnd', ssthresh') /\ \A s \in Slices : cwnd'[s] = c
BY DEF Windows, WindowsOK

\* What DCTCPSrc counts, set within its types.
LEMMA CountsSet ==
  ASSUME NEW n \in Nat, NEW mark \in BOOLEAN, NEW al \in BOOLEAN, NEW past \in Nat,
         Counts(n, mark, al, past), ownCwnd' \in 0..NoThreshold, lastSeqAI' \in Nat
  PROVE  CountsTyped'
BY DEF Counts, CountsTyped

\* A new ack outside of recovery.
LEMMA ClosNewAckGoesOn ==
  ASSUME NEW b \in {0, 1}, Framed(b), NEW a, NEW h, Found(b, a, h), established' = TRUE,
         NEW r, LeftOK(r), NEW on \in BOOLEAN, on \/ a = h, ClosNewAck(a, r, h, on)
  PROVE  GoesOn(b, a)
<1>1. /\ Mss \in Nat \ {0} /\ FlowSize \in Nat /\ MaxCwnd \in Nat /\ MaxCwnd >= 3 * Mss
      /\ Top = MaxCwnd + 3 * Mss
  BY TCPAssumption DEF Top
<1>2. IsABag(net) /\ RestTyped  BY DEF Framed, NetFramed
<1>3. /\ a \in 0..(FlowSize - 1) /\ h \in 0..(FlowSize + Mss) /\ a <= h
      /\ h < FlowSize => InFrame(b, h)
  BY <1>1 DEF Found
<1>4. PICK c : c = Least(Inflated(r.cwnd, r.ssthresh, h, a), MaxCwnd)  OBVIOUS
<1>5. /\ ~inRecovery /\ lastAcked' = a /\ dupacks' = 0
      /\ Windows(c, r.ssthresh) /\ ClosSends(h, a, c, established', on, EmptyBag)
      /\ recoverq' = recoverq /\ inRecovery' = inRecovery
  BY <1>4 DEF ClosNewAck
<1>6. r.cwnd \in Mss..Top /\ r.ssthresh \in Mss..NoThreshold  BY DEF LeftOK
<1>7. c \in Mss..MaxCwnd
  <2>1. h \in Nat /\ a \in Nat /\ bypass \in BOOLEAN  BY <1>1, <1>2, <1>3 DEF RestTyped
  <2>2. QED  BY <1>4, <1>6, <2>1, InflatedFacts
<1>8. c \in Mss..Top /\ c \in Nat /\ c >= Mss  BY <1>1, <1>7
<1>9. WindowsOK(cwnd', ssthresh')  BY <1>5, <1>6, <1>8, WindowsSet
<1>10. SentOK(b, h, a, c, on, EmptyBag)
  <2>1. a \in 0..h /\ a < FlowSize  BY <1>1, <1>3
  <2>2. QED  BY <1>2, <1>3, <1>5, <1>8, <2>1, ClosSendsFacts, NoElement
<1>11. recoverq' \in 0..(FlowSize + Mss) /\ dupacks' \in 0..4 /\ inRecovery' = FALSE
  BY <1>2, <1>5 DEF RestTyped
<1>12. Ahead(b, a) /\ timer'  BY <1>8, <1>10, SentGoesOn, NoElement
<1>13. QED  BY <1>5, <1>9, <1>11, <1>12 DEF GoesOn

\* The ack that ends recovery, in the Clos simulator.
LEMMA ClosFullAckGoesOn ==
  ASSUME NEW b \in {0, 1}, Framed(b), NEW a, NEW h, Found(b, a, h), established' = TRUE,
         a > lastAcked, NEW r, LeftOK(r), NEW on \in BOOLEAN, on \/ a = h,
         ClosFullAck(a, r, h, on)
  PROVE  GoesOn(b, a)
<1>1. /\ Mss \in Nat \ {0} /\ FlowSize \in Nat /\ MaxCwnd \in Nat /\ MaxCwnd >= 3 * Mss
      /\ Top = MaxCwnd + 3 * Mss /\ NoThreshold \in Nat
  BY TCPAssumption DEF Top
<1>2. IsABag(net) /\ RestTyped  BY DEF Framed, NetFramed
<1>3. /\ a \in 0..(FlowSize - 1) /\ h \in 0..(FlowSize + Mss) /\ a <= h
      /\ h < FlowSize => InFrame(b, h)
  BY <1>1 DEF Found
<1>4. PICK c : c = Least(r.ssthresh, h - a + Mss)  OBVIOUS
<1>5. /\ inRecovery /\ inRecovery' = FALSE /\ lastAcked' = a /\ dupacks' = 0
      /\ Windows(c, r.ssthresh) /\ ClosSends(h, a, c, established', on, EmptyBag)
      /\ recoverq' = recoverq
  BY <1>4 DEF ClosFullAck
<1>6. r.ssthresh \in Mss..NoThreshold  BY DEF LeftOK
<1>7. c \in Mss..Top
  <2>1. h - a + Mss <= Top
    <3>1. CASE h = a  BY <1>1, <1>3, <3>1
    <3>2. CASE h = highestSent
      <4>1. h <= lastAcked + Top /\ InFrame(b, lastAcked) /\ InFrame(b, a) /\ lastAcked \in 0..a
        BY <1>5, <3>2 DEF Found
      <4>2. lastAcked + Mss <= a  BY <1>3, <4>1, FramesApart
      <4>3. QED  BY <1>1, <1>3, <4>1, <4>2
    <3>3. QED  BY <3>1, <3>2 DEF Found
  <2>2. QED  BY <1>1, <1>3, <1>4, <1>6, <2>1 DEF Least
<1>8. WindowsOK(cwnd', ssthresh')  BY <1>5, <1>6, <1>7, WindowsSet
<1>9. SentOK(b, h, a, c, on, EmptyBag)
  <2>1. a \in 0..h /\ a < FlowSize /\ c \in Nat /\ c >= Mss  BY <1>1, <1>3, <1>7
  <2>2. QED  BY <1>2, <1>3, <1>5, <2>1, ClosSendsFacts, NoElement
<1>10. recoverq' \in 0..(FlowSize + Mss) /\ dupacks' \in 0..4  BY <1>2, <1>5 DEF RestTyped
<1>11. Ahead(b, a) /\ timer'  BY <1>7, <1>9, SentGoesOn, NoElement
<1>12. QED  BY <1>5, <1>8, <1>10, <1>11 DEF GoesOn

\* The ack that shows another hole, in the Clos simulator.
LEMMA ClosPartialAckGoesOn ==
  ASSUME NEW b \in {0, 1}, Framed(b), NEW a, NEW h, Found(b, a, h), established' = TRUE,
         a > lastAcked, NEW r, LeftOK(r), ClosPartialAck(a, r, h)
  PROVE  GoesOn(b, a)
<1>1. /\ Mss \in Nat \ {0} /\ FlowSize \in Nat /\ MaxCwnd \in Nat /\ MaxCwnd >= 3 * Mss
      /\ Top = MaxCwnd + 3 * Mss
  BY TCPAssumption DEF Top
<1>2. IsABag(net) /\ RestTyped  BY DEF Framed, NetFramed
<1>3. /\ a \in 0..(FlowSize - 1) /\ h \in 0..(FlowSize + Mss) /\ a <= h
      /\ h < FlowSize => InFrame(b, h)
      /\ h >= highestSent
  BY <1>1 DEF Found
<1>4. PICK c : c = Most(r.cwnd - (a - lastAcked), 0) + Mss  OBVIOUS
<1>5. /\ inRecovery /\ a < recoverq /\ lastAcked' = a
      /\ Windows(c, r.ssthresh) /\ ClosSends(h, a, c, established', TRUE, One(Again(a)))
      /\ dupacks' = dupacks /\ recoverq' = recoverq /\ inRecovery' = inRecovery
  BY <1>4 DEF ClosPartialAck
<1>6. /\ InFrame(b, lastAcked) /\ InFrame(b, a) /\ lastAcked \in 0..a
      /\ recoverq <= highestSent /\ highestSent \in Nat
  BY <1>5 DEF Found
<1>7. r.cwnd \in Mss..Top /\ r.ssthresh \in Mss..NoThreshold  BY DEF LeftOK
<1>8. c \in Mss..Top
  <2>1. lastAcked + Mss <= a  BY <1>3, <1>6, FramesApart
  <2>2. QED  BY <1>1, <1>3, <1>4, <1>6, <1>7, <2>1 DEF Most
<1>9. WindowsOK(cwnd', ssthresh')  BY <1>5, <1>7, <1>8, WindowsSet
<1>10. /\ IsABag(One(Again(a))) /\ \A p \in DOMAIN One(Again(a)) : DataPacket(b, p)
  <2>1. DataPacket(b, Again(a))  BY <1>3, <1>6, SizeFacts
  <2>2. QED  BY <2>1, OneOfEach DEF One
<1>11. SentOK(b, h, a, c, TRUE, One(Again(a)))
  <2>1. a \in 0..h /\ a < FlowSize /\ c \in Nat /\ c >= Mss  BY <1>1, <1>3, <1>8
  <2>2. QED  BY <1>2, <1>3, <1>5, <1>10, <2>1, ClosSendsFacts
<1>12. /\ dupacks' \in 0..4 /\ recoverq' \in 0..(FlowSize + Mss) /\ inRecovery' \in BOOLEAN
  BY <1>2, <1>5 DEF RestTyped
<1>13. Ahead(b, a) /\ highestSent' \in h..(FlowSize + Mss) /\ timer'
  BY <1>8, <1>10, <1>11, SentGoesOn
<1>14. recoverq' <= highestSent'  BY <1>1, <1>3, <1>5, <1>6, <1>12, <1>13
<1>15. QED  BY <1>5, <1>9, <1>12, <1>13, <1>14 DEF GoesOn

\* A duplicate ack that is not the third that matters.
LEMMA ClosDupAckGoesOn ==
  ASSUME NEW b \in {0, 1}, Framed(b), ~finished, Found(b, lastAcked, highestSent),
         established' = TRUE, NEW r, LeftOK(r), ClosDupAck(r)
  PROVE  GoesOn(b, lastAcked)
<1>1. /\ Mss \in Nat \ {0} /\ FlowSize \in Nat /\ MaxCwnd \in Nat /\ MaxCwnd >= 3 * Mss
      /\ Top = MaxCwnd + 3 * Mss
  BY TCPAssumption DEF Top
<1>2. IsABag(net) /\ RestTyped /\ TimerWhileRunning  BY DEF Framed, NetFramed
<1>3. PICK a : a = lastAcked  OBVIOUS
<1>4. PICK h : h = highestSent  OBVIOUS
<1>5. /\ a \in 0..(FlowSize - 1) /\ h \in 0..(FlowSize + Mss) /\ a <= h /\ h > 0
      /\ h < FlowSize => InFrame(b, h)
      /\ inRecovery => a < recoverq /\ recoverq <= h
  BY <1>1, <1>3, <1>4 DEF Found
<1>6. r.cwnd \in Mss..Top /\ r.ssthresh \in Mss..NoThreshold  BY DEF LeftOK
<1>7. PICK c \in Mss..Top : Windows(c, r.ssthresh)
  <2>1. Least(r.cwnd + Mss, MaxCwnd) \in Mss..Top  BY <1>1, <1>6 DEF Least
  <2>2. Windows(Least(r.cwnd + Mss, MaxCwnd), r.ssthresh) \/ Windows(r.cwnd, r.ssthresh)
    BY DEF ClosDupAck
  <2>3. QED  BY <1>6, <2>1, <2>2
<1>8. WindowsOK(cwnd', ssthresh') /\ \A s \in Slices : cwnd'[s] = c
  BY <1>6, <1>7, WindowsSet
<1>9. /\ lastAcked' = lastAcked /\ recoverq' = recoverq /\ inRecovery' = inRecovery
      /\ dupacks' = dupacks \/ dupacks' = Least(dupacks + 1, 4)
  BY DEF ClosDupAck
<1>10. ClosSends(h, a, c, established', timer, EmptyBag)
  <2>1. PICK d \in {cwnd'[s] : s \in Slices} :
          ClosSends(h, a, d, established', timer, EmptyBag)
    BY <1>3, <1>4 DEF ClosDupAck
  <2>2. d = c  BY <1>8
  <2>3. QED  BY <2>1, <2>2
<1>11. timer \in BOOLEAN /\ (timer \/ rtxPending)
  BY <1>2, <1>4, <1>5 DEF RestTyped, TimerWhileRunning
<1>12. SentOK(b, h, a, c, timer, EmptyBag)
  <2>1. a \in 0..h /\ a < FlowSize /\ c \in Nat /\ c >= Mss  BY <1>1, <1>5
  <2>2. QED  BY <1>2, <1>5, <1>10, <1>11, <2>1, ClosSendsFacts, NoElement
<1>13. Ahead(b, a) /\ highestSent' \in h..(FlowSize + Mss) /\ (timer => timer')
  BY <1>3, <1>4, <1>11, <1>12, SentGoesOn, NoElement
<1>14. /\ dupacks' \in 0..4 /\ recoverq' \in 0..(FlowSize + Mss) /\ inRecovery' \in BOOLEAN
  BY <1>2, <1>9 DEF RestTyped, Least
<1>15. inRecovery' => a < recoverq' /\ recoverq' <= highestSent'
  BY <1>1, <1>5, <1>9, <1>13, <1>14
<1>16. QED  BY <1>3, <1>8, <1>9, <1>11, <1>13, <1>14, <1>15 DEF GoesOn

\* The third duplicate ack of a packet that was not dropped.
LEMMA ClosThirdIgnoredGoesOn ==
  ASSUME NEW b \in {0, 1}, Framed(b), ~finished, Found(b, lastAcked, highestSent),
         NEW r, LeftOK(r), ClosThirdIgnored(r)
  PROVE  GoesOn(b, lastAcked)
<1>1. Mss \in Nat \ {0} /\ FlowSize \in Nat  BY TCPAssumption
<1>2. IsABag(net) /\ RestTyped /\ TimerWhileRunning  BY DEF Framed, NetFramed
<1>3. PICK a : a = lastAcked  OBVIOUS
<1>4. PICK h : h = highestSent  OBVIOUS
<1>5. /\ a \in 0..(FlowSize - 1) /\ h \in 1..(FlowSize + Mss) /\ a < h /\ h <= a + Top
      /\ h < FlowSize => InFrame(b, h)
  BY <1>1, <1>3, <1>4 DEF Found
<1>6. /\ ~inRecovery /\ lastAcked' = lastAcked /\ dupacks' = 3
      /\ Windows(r.cwnd, r.ssthresh)
      /\ recoverq' = recoverq /\ inRecovery' = inRecovery
      /\ highestSent' = h /\ timer' = timer /\ net' = net
  BY <1>4 DEF ClosThirdIgnored
<1>7. timer \in BOOLEAN /\ (timer \/ rtxPending)
  BY <1>2, <1>4, <1>5 DEF RestTyped, TimerWhileRunning
<1>8. Ahead(b, a)
  <2>1. highestSent' \in (a + 1)..(FlowSize + Mss) /\ highestSent' <= a + Top
    BY <1>1, <1>5, <1>6
  <2>2. QED  BY <1>2, <1>5, <1>6, <1>7, <2>1 DEF Ahead
<1>9. dupacks' \in 0..4 /\ recoverq' \in 0..(FlowSize + Mss) /\ inRecovery' = FALSE
  BY <1>2, <1>6 DEF RestTyped
<1>10. WindowsOK(cwnd', ssthresh')  BY <1>6, WindowsSet DEF LeftOK
<1>11. QED  BY <1>3, <1>6, <1>7, <1>8, <1>9, <1>10 DEF GoesOn

\* The third of one that was dropped: it is sent again.
LEMMA ClosStartRecoveryGoesOn ==
  ASSUME NEW b \in {0, 1}, Framed(b), ~finished, Found(b, lastAcked, highestSent),
         NEW r, LeftOK(r), ClosStartRecovery(r)
  PROVE  GoesOn(b, lastAcked)
<1>1. /\ Mss \in Nat \ {0} /\ FlowSize \in Nat /\ MaxCwnd \in Nat /\ Top = MaxCwnd + 3 * Mss
  BY TCPAssumption DEF Top
<1>2. IsABag(net)  BY DEF Framed, NetFramed
<1>3. PICK a : a = lastAcked  OBVIOUS
<1>4. PICK h : h = highestSent  OBVIOUS
<1>5. /\ a \in 0..(FlowSize - 1) /\ h \in 1..(FlowSize + Mss) /\ a < h /\ h <= a + Top
      /\ h < FlowSize => InFrame(b, h)
      /\ InFrame(b, a)
  BY <1>1, <1>3, <1>4 DEF Found
<1>6. PICK t : t = IF r.deflates THEN Deflated(r.cwnd) ELSE r.ssthresh  OBVIOUS
<1>7. /\ dupacks' = 3 /\ inRecovery' = TRUE /\ recoverq' = h
      /\ Windows(t + 3 * Mss, t)
      /\ net' = net (+) One(Again(a)) /\ timer' = TRUE
      /\ lastAcked' = lastAcked /\ highestSent' = h
  BY <1>3, <1>4, <1>6 DEF ClosStartRecovery
<1>8. t \in Mss..NoThreshold /\ t + 3 * Mss \in Mss..Top
  <2>1. r.cwnd \in 0..Top  BY <1>1 DEF LeftOK
  <2>2. CASE r.deflates  BY <1>6, <2>1, <2>2, DeflatedFacts
  <2>3. CASE ~r.deflates
    <3>1. t \in Mss..NoThreshold /\ t <= MaxCwnd  BY <1>6, <2>3 DEF LeftOK
    <3>2. QED  BY <1>1, <3>1, TCPAssumption
  <2>4. QED  BY <2>2, <2>3
<1>9. WindowsOK(cwnd', ssthresh')  BY <1>7, <1>8, WindowsSet
<1>10. Ahead(b, a)
  <2>1. DataPacket(b, Again(a))  BY <1>5, SizeFacts
  <2>2. IsABag(net') /\ \A p \in DOMAIN net' : p \in DOMAIN net \/ DataPacket(b, p)
    <3>1. IsABag(net') /\ DOMAIN net' = DOMAIN net \cup {Again(a)}  BY <1>2, <1>7, Added
    <3>2. QED  BY <2>1, <3>1
  <2>3. highestSent' \in (a + 1)..(FlowSize + Mss) /\ highestSent' <= a + Top
    BY <1>1, <1>5, <1>7
  <2>4. QED  BY <1>5, <1>7, <2>2, <2>3 DEF Ahead
<1>11. /\ dupacks' \in 0..4 /\ recoverq' \in 0..(FlowSize + Mss)
       /\ a < recoverq' /\ recoverq' <= highestSent'
  BY <1>1, <1>5, <1>7
<1>12. QED  BY <1>3, <1>7, <1>9, <1>10, <1>11 DEF GoesOn

\* All of them leave the counts typed.
LEMMA KeepsCounts ==
  ASSUME NEW r, LeftOK(r), Keeps(r), ownCwnd' \in 0..NoThreshold, lastSeqAI' \in Nat
  PROVE  CountsTyped'
BY CountsSet DEF LeftOK, Keeps

\* TcpSrc::receivePacket of the Clos simulator keeps the invariant.
LEMMA ClosAcknowledgedStep ==
  ASSUME NEW b \in {0, 1}, Framed(b), NEW a \in DOMAIN acks, NEW r, LeftOK(r),
         ClosAcknowledged(a, r), ownCwnd' \in 0..NoThreshold, lastSeqAI' \in Nat
  PROVE  Framed(b)'
<1> DEFINE new == a > lastAcked
           done == new /\ a >= highestSent
           old == finished \/ a < lastAcked
<1>1. PICK h : h = IF done THEN a ELSE highestSent  OBVIOUS
<1>2. /\ acks' = acks (-) One(a)
      /\ established' = (established \/ (~old /\ a = 1))
      /\ finished' = (finished \/ (~old /\ AllAcked(a)))
      /\ UNCHANGED <<bypass, rtxPending, sink, faults>>
      /\ IF old \/ AllAcked(a)
         THEN /\ Windows(r.cwnd, r.ssthresh) /\ Keeps(r)
              /\ UNCHANGED <<highestSent, lastAcked, dupacks, recoverq, inRecovery, timer, net>>
         ELSE IF new
         THEN ClosNewAck(a, r, h, ~done) \/ ClosFullAck(a, r, h, ~done) \/ ClosPartialAck(a, r, h)
         ELSE ClosDupAck(r) \/ ClosThirdIgnored(r) \/ ClosStartRecovery(r)
  BY <1>1 DEF ClosAcknowledged
<1>3. AcksFramed(b) /\ SinkFramed(b) /\ SourceFramed(b) /\ RestTyped
  BY DEF Framed
<1>4. /\ a \in Int /\ lastAcked \in Int /\ highestSent \in Int /\ (established \/ a = 1)
      /\ established \in BOOLEAN /\ finished \in BOOLEAN /\ AllAcked(a) \in BOOLEAN
  BY <1>3, TCPAssumption DEF AcksFramed, SinkFramed, SourceFramed, RestTyped, AllAcked
<1>5. CASE old \/ AllAcked(a)
  <2>1. /\ Windows(r.cwnd, r.ssthresh) /\ Keeps(r)
        /\ UNCHANGED <<highestSent, lastAcked, dupacks, recoverq, inRecovery, timer, net>>
    BY <1>2, <1>5
  <2>2. WindowsOK(cwnd', ssthresh')  BY <2>1, WindowsSet DEF LeftOK
  <2>3. CountsTyped'  BY <2>1, KeepsCounts
  <2>4. \/ established' = established /\ finished' = finished
        \/ AllAcked(a) /\ established' = (established \/ a = 1) /\ finished' = TRUE
    <3> HIDE DEF old
    <3>1. CASE old  BY <1>2, <1>4, <3>1
    <3>2. CASE ~old /\ AllAcked(a)  BY <1>2, <1>4, <3>2
    <3>3. QED  BY <1>5, <3>1, <3>2
  <2>5. QED  BY <1>2, <2>1, <2>2, <2>3, <2>4, SettledStep
<1>6. CASE ~old /\ ~AllAcked(a)
  <2>1. established' = TRUE /\ finished' = FALSE  BY <1>2, <1>4, <1>6
  <2>2. a >= lastAcked /\ ~finished  BY <1>4, <1>6
  <2>3. Found(b, a, h)  BY <1>1, <1>6, <2>2, AckFinds
  <2>4. CASE new
    <3>1. (~done) \in BOOLEAN /\ (~done \/ a = h)
      <4>1. done => a = h  BY <1>1
      <4>2. QED  BY <4>1
    <3>2. ClosNewAck(a, r, h, ~done) \/ ClosFullAck(a, r, h, ~done) \/ ClosPartialAck(a, r, h)
      BY <1>2, <1>6, <2>4
    <3>3. GoesOn(b, a)
      BY <2>1, <2>3, <2>4, <3>1, <3>2, ClosNewAckGoesOn, ClosFullAckGoesOn, ClosPartialAckGoesOn
    <3>4. Keeps(r)  BY <3>2 DEF ClosNewAck, ClosFullAck, ClosPartialAck
    <3>5. CountsTyped'  BY <3>4, KeepsCounts
    <3>6. QED  BY <1>2, <2>1, <2>3, <3>3, <3>5, GoesOnStep
  <2>5. CASE ~new
    <3>1. ClosDupAck(r) \/ ClosThirdIgnored(r) \/ ClosStartRecovery(r)
      BY <1>2, <1>6, <2>5
    <3>2. a = lastAcked /\ h = highestSent  BY <1>1, <1>4, <2>2, <2>5
    <3>3. Found(b, lastAcked, highestSent)  BY <2>3, <3>2
    <3>4. GoesOn(b, lastAcked)
      BY <2>1, <2>2, <3>1, <3>3, ClosDupAckGoesOn, ClosThirdIgnoredGoesOn, ClosStartRecoveryGoesOn
    <3>5. CountsTyped'
      <4>1. CASE ClosDupAck(r) \/ ClosThirdIgnored(r)
        <5>1. Keeps(r)  BY <4>1 DEF ClosDupAck, ClosThirdIgnored
        <5>2. QED  BY <5>1, KeepsCounts
      <4>2. CASE ClosStartRecovery(r)
        <5>1. Counts(0, FALSE, r.alfa, IF r.deflates THEN r.cwnd ELSE r.past)
          BY <4>2 DEF ClosStartRecovery
        <5>2. /\ (IF r.deflates THEN r.cwnd ELSE r.past) \in Nat /\ r.alfa \in BOOLEAN
          BY TCPAssumption DEF LeftOK, Top
        <5>3. QED  BY <5>1, <5>2, CountsSet
      <4>3. QED  BY <3>1, <4>1, <4>2
    <3>6. QED  BY <1>2, <2>1, <2>3, <3>2, <3>4, <3>5, GoesOnStep
  <2>6. QED  BY <2>4, <2>5
<1>7. QED  BY <1>5, <1>6

\* The one window that the Clos simulator has.
LEMMA OneOfSlices ==
  ASSUME NEW b \in {0, 1}, Framed(b), NEW a \in DOMAIN acks
  PROVE  /\ Cwnd \in Mss..Top /\ Ssthresh \in Mss..NoThreshold
         /\ Seen \in Nat /\ Marked \in BOOLEAN /\ Alfa \in BOOLEAN /\ PastCwnd \in Nat
         /\ First \in Slices
<1>1. PICK f : f = CHOOSE s \in Slices : TRUE  OBVIOUS
<1>2. f \in Slices  BY <1>1, TCPAssumption
<1>3. WindowsOK(cwnd, ssthresh) /\ CountsTyped  BY WindowsFound DEF Framed, RestTyped
<1>4. /\ Cwnd = cwnd[f] /\ Ssthresh = ssthresh[f] /\ Seen = seen[f] /\ Marked = marked[f]
      /\ Alfa = alfa[f] /\ PastCwnd = pastCwnd[f] /\ First = f
  BY <1>1 DEF Cwnd, Ssthresh, Seen, Marked, Alfa, PastCwnd, First
<1>5. QED  BY <1>2, <1>3, <1>4 DEF WindowsOK, CountsTyped

\* An ack of DCTCP, in the Clos simulator.
LEMMA ClosReceiveAckStep ==
  ASSUME NEW b \in {0, 1}, Framed(b), NEW a \in BagToSet(acks), NEW e \in BOOLEAN,
         ClosReceiveAck(a, e), UNCHANGED own
  PROVE  Framed(b)'
<1>1. a \in DOMAIN acks  BY DEF BagToSet
<1>2. /\ Cwnd \in Mss..Top /\ Ssthresh \in Mss..NoThreshold
      /\ Seen \in Nat /\ Marked \in BOOLEAN /\ Alfa \in BOOLEAN /\ PastCwnd \in Nat
  BY <1>1, OneOfSlices
<1>3. /\ Mss \in Nat \ {0} /\ NoThreshold \in Nat /\ Top \in Nat /\ Top <= NoThreshold
  BY TCPAssumption DEF Top
<1>4. ownCwnd' \in 0..NoThreshold /\ lastSeqAI' \in Nat
  BY DEF Framed, RestTyped, CountsTyped, own
<1>5. PICK r \in Counted(e) : ClosAcknowledged(a, r)  BY DEF ClosReceiveAck
<1>6. PICK mark \in BOOLEAN : mark = (Marked \/ e)  BY <1>2
<1>7. PICK al \in BOOLEAN : al = (Alfa \/ mark)  BY <1>2
<1>8. PICK t : t = IF e THEN Least(Ssthresh, Cwnd) ELSE Ssthresh  OBVIOUS
<1>9. t \in Mss..NoThreshold  BY <1>2, <1>3, <1>8 DEF Least
<1>10. LeftOK(r)
  <2>1. r \in IF (Seen + 1) * Mss < PastCwnd
              THEN {[seen |-> Seen + 1, marked |-> mark, alfa |-> Alfa, past |-> PastCwnd,
                     cwnd |-> Cwnd, ssthresh |-> t, deflates |-> TRUE]}
              ELSE {[seen |-> 0, marked |-> FALSE, alfa |-> al, past |-> c, cwnd |-> c,
                     ssthresh |-> IF al THEN c ELSE t, deflates |-> TRUE] :
                      c \in IF al THEN ClosCuts(Cwnd) ELSE {Cwnd}}
    BY <1>5, <1>6, <1>7, <1>8 DEF Counted
  <2>2. CASE r = [seen |-> Seen + 1, marked |-> mark, alfa |-> Alfa, past |-> PastCwnd,
                  cwnd |-> Cwnd, ssthresh |-> t, deflates |-> TRUE]
    BY <1>2, <1>9, <2>2 DEF LeftOK
  <2>3. CASE \E c \in IF al THEN ClosCuts(Cwnd) ELSE {Cwnd} :
               r = [seen |-> 0, marked |-> FALSE, alfa |-> al, past |-> c, cwnd |-> c,
                    ssthresh |-> IF al THEN c ELSE t, deflates |-> TRUE]
    <3>1. PICK c \in IF al THEN ClosCuts(Cwnd) ELSE {Cwnd} :
               r = [seen |-> 0, marked |-> FALSE, alfa |-> al, past |-> c, cwnd |-> c,
                    ssthresh |-> IF al THEN c ELSE t, deflates |-> TRUE]
      BY <2>3
    <3>2. c \in Mss..Top  BY <1>2, <3>1, CutsFacts
    <3>3. c \in Nat /\ c \in Mss..NoThreshold  BY <1>3, <3>2
    <3>4. QED  BY <1>9, <3>1, <3>2, <3>3 DEF LeftOK
  <2>4. QED  BY <2>1, <2>2, <2>3
<1>11. QED  BY <1>1, <1>4, <1>5, <1>10, ClosAcknowledgedStep

-----------------------------------------------------------------------------
(* An ack of HPCC or Bolt *)

\* The windows that HPCC and Bolt bound.
LEMMA BoundedFacts ==
  ASSUME NEW c \in Nat
  PROVE  /\ Bounded(c) \in Mss..MaxCwnd /\ MaxCwnd \in Nat /\ NoThreshold \in Nat
         /\ \A d \in Mss..MaxCwnd : d \in Mss..Top /\ d \in Mss..NoThreshold
                                    /\ d \in 0..NoThreshold
<1>1. /\ Mss \in Nat \ {0} /\ MaxCwnd \in Nat /\ MaxCwnd >= 3 * Mss
      /\ Top = MaxCwnd + 3 * Mss /\ NoThreshold \in Nat /\ NoThreshold >= MaxCwnd + 3 * Mss
  BY TCPAssumption DEF Top
<1>2. Bounded(c) \in Mss..MaxCwnd  BY <1>1 DEF Bounded, Most, Least
<1>3. QED  BY <1>1, <1>2

\* The window of Bolt after an ack.
LEMMA BoltIncreasedFacts ==
  ASSUME NEW b \in {0, 1}, Framed(b), NEW a, NEW i
  PROVE  BoltIncreased(a, i) \in Mss..MaxCwnd
<1>1. Mss \in Nat \ {0} /\ NoThreshold \in Nat  BY TCPAssumption
<1>2. ownCwnd \in Nat  BY <1>1 DEF Framed, RestTyped, CountsTyped
<1>3. PICK x \in Nat : x = ownCwnd + (IF i THEN Mss ELSE 0) + IF AddsPerWindow(a) THEN Mss ELSE 0
  BY <1>1, <1>2
<1>4. x % (NoThreshold + 1) \in Nat  BY <1>1, <1>3
<1>5. QED  BY <1>3, <1>4, BoundedFacts DEF BoltIncreased

\* Windows given to TcpSrc.
LEMMA WithOK ==
  ASSUME NEW cw, NEW ss, WindowsOK(cw, ss), NEW c \in Mss..MaxCwnd
  PROVE  WindowsOK(With(cw, c), With(ss, c))
<1>1. c \in Mss..Top /\ c \in Mss..NoThreshold  BY BoundedFacts
<1>2. QED  BY <1>1 DEF WindowsOK, With

\* What HPCC and Bolt give to TcpSrc in the Clos simulator.
LEMMA GivenOK ==
  ASSUME NEW b \in {0, 1}, Framed(b), NEW a \in DOMAIN acks
  PROVE  /\ finished => LeftOK(Given(Cwnd, Ssthresh))
         /\ \A c \in Mss..MaxCwnd : LeftOK(Given(c, c))
<1>1. /\ Cwnd \in Mss..Top /\ Ssthresh \in Mss..NoThreshold
      /\ Seen \in Nat /\ Marked \in BOOLEAN /\ Alfa \in BOOLEAN /\ PastCwnd \in Nat
  BY OneOfSlices
<1>2. finished => LeftOK(Given(Cwnd, Ssthresh))  BY <1>1 DEF LeftOK, Given
<1>3. ASSUME NEW c \in Mss..MaxCwnd  PROVE LeftOK(Given(c, c))
  <2>1. c \in Mss..Top /\ c \in Mss..NoThreshold /\ c <= MaxCwnd
    BY BoundedFacts
  <2>2. QED  BY <1>1, <2>1 DEF LeftOK, Given
<1>4. QED  BY <1>2, <1>3

\* The windows that HPCC computes.
LEMMA HPCCWindowsFacts ==
  HPCCWindows \subseteq Mss..MaxCwnd /\ ClosHPCCWindows \subseteq Mss..MaxCwnd
<1>1. Mss..MaxCwnd \subseteq Nat  BY TCPAssumption
<1>2. QED  BY <1>1, BoundedFacts DEF HPCCWindows, ClosHPCCWindows

\* An ack of HPCC, in Opera.
LEMMA HPCCReceiveAckStep ==
  ASSUME NEW b \in {0, 1}, Framed(b), NEW a \in BagToSet(acks), HPCCReceiveAck(a)
  PROVE  Framed(b)'
<1>1. a \in DOMAIN acks  BY DEF BagToSet
<1>2. WindowsOK(cwnd, ssthresh) /\ First \in Slices  BY <1>1, WindowsFound, OneOfSlices
<1>3. CountsTyped'
  BY DEF HPCCReceiveAck, ecn, own, Framed, RestTyped, CountsTyped
<1>4. CASE Acknowledged(a, First, First, cwnd, ssthresh)
  BY <1>1, <1>2, <1>3, <1>4, AcknowledgedStep
<1>5. CASE \E c \in HPCCWindows :
             Acknowledged(a, First, First, With(cwnd, c), With(ssthresh, c))
  <2>1. PICK c \in Mss..MaxCwnd :
          Acknowledged(a, First, First, With(cwnd, c), With(ssthresh, c))
    BY <1>5, HPCCWindowsFacts
  <2>2. WindowsOK(With(cwnd, c), With(ssthresh, c))  BY <1>2, WithOK
  <2>3. QED  BY <1>1, <1>2, <1>3, <2>1, <2>2, AcknowledgedStep
<1>6. QED  BY <1>4, <1>5 DEF HPCCReceiveAck

\* An ack of Bolt, in Opera.
LEMMA BoltReceiveAckStep ==
  ASSUME NEW b \in {0, 1}, Framed(b), NEW a \in BagToSet(acks), NEW i \in BOOLEAN,
         BoltReceiveAck(a, i)
  PROVE  Framed(b)'
<1>1. a \in DOMAIN acks  BY DEF BagToSet
<1>2. WindowsOK(cwnd, ssthresh) /\ First \in Slices  BY <1>1, WindowsFound, OneOfSlices
<1>3. CountsTyped /\ UNCHANGED ecn  BY DEF BoltReceiveAck, Framed, RestTyped
<1>4. CASE UNCHANGED own /\ Acknowledged(a, First, First, cwnd, ssthresh)
  <2>1. CountsTyped'  BY <1>3, <1>4 DEF ecn, own, CountsTyped
  <2>2. QED  BY <1>1, <1>2, <1>4, <2>1, AcknowledgedStep
<1>5. CASE /\ ownCwnd' = BoltIncreased(a, i)
           /\ lastSeqAI' = IF AddsPerWindow(a) THEN highestSent + 1 ELSE lastSeqAI
           /\ Acknowledged(a, First, First, With(cwnd, ownCwnd'), With(ssthresh, ownCwnd'))
  <2>1. PICK c \in Mss..MaxCwnd : c = ownCwnd'  BY <1>5, BoltIncreasedFacts
  <2>2. WindowsOK(With(cwnd, c), With(ssthresh, c))  BY <1>2, WithOK
  <2>3. CountsTyped'
    <3>1. highestSent + 1 \in Nat  BY TCPAssumption DEF Framed, SourceFramed
    <3>2. lastSeqAI' \in Nat  BY <1>3, <1>5, <3>1 DEF CountsTyped
    <3>3. ownCwnd' \in 0..NoThreshold  BY <2>1, BoundedFacts
    <3>4. QED  BY <1>3, <3>2, <3>3 DEF ecn, CountsTyped
  <2>4. Acknowledged(a, First, First, With(cwnd, c), With(ssthresh, c))  BY <1>5, <2>1
  <2>5. QED  BY <1>1, <1>2, <2>2, <2>3, <2>4, AcknowledgedStep
<1>6. QED  BY <1>4, <1>5 DEF BoltReceiveAck

\* An ack of HPCC, in the Clos simulator.
LEMMA ClosHPCCReceiveAckStep ==
  ASSUME NEW b \in {0, 1}, Framed(b), NEW a \in BagToSet(acks), ClosHPCCReceiveAck(a)
  PROVE  Framed(b)'
<1>1. a \in DOMAIN acks  BY DEF BagToSet
<1>2. ownCwnd' \in 0..NoThreshold /\ lastSeqAI' \in Nat
  BY DEF ClosHPCCReceiveAck, own, Framed, RestTyped, CountsTyped
<1>3. PICK r : LeftOK(r) /\ ClosAcknowledged(a, r)
  <2>1. CASE finished /\ ClosAcknowledged(a, Given(Cwnd, Ssthresh))
    BY <1>1, <2>1, GivenOK
  <2>2. CASE \E c \in ClosHPCCWindows : ClosAcknowledged(a, Given(c, c))
    BY <1>1, <2>2, GivenOK, HPCCWindowsFacts
  <2>3. QED  BY <2>1, <2>2 DEF ClosHPCCReceiveAck
<1>4. QED  BY <1>1, <1>2, <1>3, ClosAcknowledgedStep

\* An ack of Bolt, in the Clos simulator.
LEMMA ClosBoltReceiveAckStep ==
  ASSUME NEW b \in {0, 1}, Framed(b), NEW a \in BagToSet(acks), NEW i \in BOOLEAN,
         ClosBoltReceiveAck(a, i)
  PROVE  Framed(b)'
<1>1. a \in DOMAIN acks  BY DEF BagToSet
<1>2. CountsTyped  BY DEF Framed, RestTyped
<1>3. CASE finished /\ UNCHANGED own /\ ClosAcknowledged(a, Given(Cwnd, Ssthresh))
  <2>1. ownCwnd' \in 0..NoThreshold /\ lastSeqAI' \in Nat
    BY <1>2, <1>3 DEF own, CountsTyped
  <2>2. LeftOK(Given(Cwnd, Ssthresh))  BY <1>1, <1>3, GivenOK
  <2>3. QED  BY <1>1, <1>3, <2>1, <2>2, ClosAcknowledgedStep
<1>4. CASE /\ ownCwnd' = BoltIncreased(a, i)
           /\ lastSeqAI' = IF AddsPerWindow(a) THEN highestSent + 1 ELSE lastSeqAI
           /\ ClosAcknowledged(a, Given(ownCwnd', ownCwnd'))
  <2>1. PICK c \in Mss..MaxCwnd : c = ownCwnd'  BY <1>4, BoltIncreasedFacts
  <2>2. LeftOK(Given(c, c))  BY <1>1, GivenOK
  <2>3. ownCwnd' \in 0..NoThreshold  BY <2>1, BoundedFacts
  <2>4. lastSeqAI' \in Nat
    <3>1. highestSent + 1 \in Nat  BY TCPAssumption DEF Framed, SourceFramed
    <3>2. QED  BY <1>2, <1>4, <3>1 DEF CountsTyped
  <2>5. ClosAcknowledged(a, Given(c, c))  BY <1>4, <2>1
  <2>6. QED  BY <1>1, <2>2, <2>3, <2>4, <2>5, ClosAcknowledgedStep
<1>5. QED  BY <1>3, <1>4 DEF ClosBoltReceiveAck

-----------------------------------------------------------------------------
(* The start of a flow *)

\* What the first send_packets leaves: a SYN, or data.
Sent(b) ==
  \/ ~established /\ highestSent' = 1 /\ timer' = TRUE /\ IsABag(net') /\ DOMAIN net' = {Syn}
  \/ established /\ SentOK(b, 0, 0, InitCwnd, FALSE, EmptyBag)

\* Any flow that starts so keeps the invariant.
LEMMA StartStep ==
  ASSUME NEW b \in {0, 1}, Framed(b), highestSent = 0, Sent(b), CountsTyped',
         cwnd' = [s \in Slices |-> InitCwnd], ssthresh' = [s \in Slices |-> NoThreshold],
         UNCHANGED <<established, bypass, lastAcked, dupacks, recoverq, inRecovery, rtxPending,
                     finished, sink, acks, faults>>
  PROVE  Framed(b)'
<1>1. /\ Mss \in Nat \ {0} /\ FlowSize \in Nat /\ MaxCwnd \in Nat /\ MaxCwnd >= 3 * Mss
      /\ Top = MaxCwnd + 3 * Mss /\ InitCwnd \in Mss..MaxCwnd /\ FlowSize >= Mss
      /\ NoThreshold \in Nat /\ NoThreshold >= Mss
  BY TCPAssumption DEF Top
<1>2. /\ RestTyped /\ NetFramed(b) /\ AcksFramed(b) /\ SinkFramed(b) /\ SourceFramed(b)
  BY DEF Framed
<1>3. /\ established' = established /\ bypass' = bypass /\ lastAcked' = lastAcked
      /\ dupacks' = dupacks /\ recoverq' = recoverq /\ inRecovery' = inRecovery
      /\ rtxPending' = rtxPending /\ finished' = finished /\ acks' = acks /\ faults' = faults
      /\ cumAck' = cumAck /\ received' = received /\ arrived' = arrived
  BY DEF sink
<1>4. lastAcked = 0 /\ net = EmptyBag /\ ~inRecovery /\ (~established => b = 1) /\ ~finished
      /\ (established => InFrame(b, lastAcked))
  BY <1>2 DEF SourceFramed
<1>5. WindowsOK(cwnd', ssthresh')
  <2>1. InitCwnd \in Mss..Top /\ NoThreshold \in Mss..NoThreshold  BY <1>1
  <2>2. QED  BY <2>1 DEF WindowsOK
<1>6. /\ highestSent' \in 1..(FlowSize + Mss) /\ highestSent' <= Top /\ timer' = TRUE
      /\ established /\ highestSent' < FlowSize => InFrame(b, highestSent')
      /\ ~established => highestSent' = 1
      /\ NetFramed(b)'
  <2>1. CASE /\ ~established /\ highestSent' = 1 /\ timer' = TRUE
             /\ IsABag(net') /\ DOMAIN net' = {Syn}
    <3>1. NetFramed(b)'  BY <1>3, <1>4, <2>1 DEF NetFramed, Syn
    <3>2. QED  BY <1>1, <2>1, <3>1
  <2>2. CASE established /\ SentOK(b, 0, 0, InitCwnd, FALSE, EmptyBag)
    <3>1. /\ highestSent' \in 0..(FlowSize + Mss) /\ 0 < highestSent' /\ highestSent' <= 0 + InitCwnd
          /\ highestSent' < FlowSize => InFrame(b, highestSent')
          /\ timer' \in BOOLEAN /\ timer'
      BY <1>1, <2>2 DEF SentOK
    <3>2. IsABag(net') /\ \A p \in DOMAIN net' : DataPacket(b, p)
      BY <1>4, <2>2, NoElement DEF SentOK
    <3>3. NetFramed(b)'  BY <1>3, <2>2, <3>2 DEF NetFramed, DataPacket, InFrame
    <3>4. QED  BY <1>1, <2>2, <3>1, <3>3
  <2>3. QED  BY <2>1, <2>2 DEF Sent
<1>7. RestTyped'
  <2>1. cwnd' \in [Slices -> 0..Top] /\ ssthresh' \in [Slices -> 0..NoThreshold]
    BY <1>1, <1>5 DEF WindowsOK
  <2>2. QED  BY <1>2, <1>3, <1>6, <2>1 DEF RestTyped
<1>8. AcksFramed(b)'  BY <1>2, <1>3 DEF AcksFramed, InFrame
<1>9. SinkFramed(b)'  BY <1>2, <1>3 DEF SinkFramed, InFrame, BlockCame
<1>10. SourceFramed(b)'
  <2>1. /\ highestSent' \in 0..(FlowSize + Mss) /\ highestSent' <= lastAcked' + Top
        /\ highestSent' # 0 /\ lastAcked' < highestSent'
    BY <1>1, <1>3, <1>4, <1>6
  <2>2. established' => InFrame(b, lastAcked)' /\ (highestSent' < FlowSize => InFrame(b, highestSent)')
    BY <1>3, <1>4, <1>6 DEF InFrame
  <2>3. WindowsOK(cwnd, ssthresh)'  BY <1>5 DEF WindowsOK
  <2>4. QED  BY <1>2, <1>3, <1>4, <1>6, <2>1, <2>2, <2>3 DEF SourceFramed
<1>11. TimerWhileRunning'  BY <1>6 DEF TimerWhileRunning
<1>12. RecoveryCanEnd'  BY <1>3, <1>4 DEF RecoveryCanEnd
<1>13. QED  BY <1>6, <1>7, <1>8, <1>9, <1>10, <1>11, <1>12 DEF Framed

\* The first send_packets, in Opera and in the Clos simulator.
LEMMA FirstSends ==
  ASSUME NEW b \in {0, 1}, Framed(b), highestSent = 0, NEW s \in Slices,
         NEW cw, cw = [w \in Slices |-> InitCwnd], NEW more,
         more = EmptyBag \/ (~established /\ more = One([seq |-> 1, size |-> 1])),
         Sends(s, 0, 0, cw, established, FALSE, more)
         \/ ClosSends(0, 0, InitCwnd, established, FALSE, more)
  PROVE  Sent(b)
<1>1. /\ Mss \in Nat \ {0} /\ FlowSize \in Nat /\ FlowSize >= Mss
      /\ InitCwnd \in Nat /\ InitCwnd >= Mss
  BY TCPAssumption
<1>2. IsABag(net) /\ net = EmptyBag /\ established \in BOOLEAN
      /\ (established => (0 < FlowSize => InFrame(b, 0)))
  BY DEF Framed, NetFramed, SourceFramed, RestTyped
<1>3. CASE ~established
  <2>1. /\ highestSent' = 1 /\ timer' = TRUE /\ net' = net (+) more (+) One(Syn)
    BY <1>3 DEF Sends, ClosSends, Syn
  <2>2. IsABag(more) /\ DOMAIN more \subseteq {Syn}  BY NoElement, OneOfEach DEF One, Syn
  <2>3. IsABag(net (+) more) /\ DOMAIN (net (+) more) \subseteq {Syn}
    BY <1>2, <2>2, Together, NoElement
  <2>4. IsABag(net') /\ DOMAIN net' = {Syn}  BY <2>1, <2>3, Added
  <2>5. QED  BY <1>3, <2>1, <2>4 DEF Sent
<1>4. CASE established
  <2>1. more = EmptyBag /\ established = TRUE  BY <1>2, <1>4
  <2>2. PICK h : h = 0  OBVIOUS
  <2>3. h \in 0..(FlowSize + Mss) /\ 0 \in 0..h /\ 0 < FlowSize /\ (h < FlowSize => InFrame(b, h))
    BY <1>1, <1>2, <1>4, <2>2
  <2>4. CASE Sends(s, 0, 0, cw, established, FALSE, more)
    <3>1. InitCwnd = cw[s] /\ Sends(s, h, 0, cw, established, FALSE, EmptyBag)
      BY <2>1, <2>2, <2>4
    <3>2. SentOK(b, h, 0, InitCwnd, FALSE, EmptyBag)
      BY <1>1, <1>2, <2>1, <2>3, <3>1, SendsFacts, NoElement
    <3>3. QED  BY <1>4, <2>2, <3>2 DEF Sent
  <2>5. CASE ClosSends(0, 0, InitCwnd, established, FALSE, more)
    <3>1. ClosSends(h, 0, InitCwnd, established, FALSE, EmptyBag)
      BY <2>1, <2>2, <2>5
    <3>2. SentOK(b, h, 0, InitCwnd, FALSE, EmptyBag)
      BY <1>1, <1>2, <2>1, <2>3, <3>1, ClosSendsFacts, NoElement
    <3>3. QED  BY <1>4, <2>2, <3>2 DEF Sent
  <2>6. QED  BY <2>4, <2>5
<1>5. QED  BY <1>2, <1>3, <1>4

\* The start of DCTCP, in Opera: startflow twice.
LEMMA StartFlowStep ==
  ASSUME NEW b \in {0, 1}, Framed(b), NEW s \in Slices, StartFlow(s), UNCHANGED own
  PROVE  Framed(b)'
<1>1. CountsTyped'
  <2>1. 2 * Mss \in Nat  BY TCPAssumption
  <2>2. pastCwnd' \in [Slices -> Nat]  BY <2>1 DEF StartFlow
  <2>3. QED  BY <2>2 DEF StartFlow, Framed, RestTyped, CountsTyped, own
<1>2. PICK more : more = IF established THEN EmptyBag ELSE One([seq |-> 1, size |-> 1])
  OBVIOUS
<1>3. more = EmptyBag \/ (~established /\ more = One([seq |-> 1, size |-> 1]))
  BY <1>2
<1>4. Sent(b)  BY <1>2, <1>3, FirstSends DEF StartFlow
<1>5. QED  BY <1>1, <1>4, StartStep DEF StartFlow

\* The start of HPCC and Bolt, in Opera.
LEMMA RateStartsStep ==
  ASSUME NEW b \in {0, 1}, Framed(b), NEW c \in 0..NoThreshold, RateStarts(c)
  PROVE  Framed(b)'
<1>1. CountsTyped'
  BY DEF RateStarts, Framed, RestTyped, CountsTyped, ecn
<1>2. First \in Slices  BY TCPAssumption DEF First
<1>3. Sent(b)  BY <1>2, FirstSends DEF RateStarts
<1>4. QED  BY <1>1, <1>3, StartStep DEF RateStarts

\* The start of all classes, in the Clos simulator.
LEMMA ClosStartsStep ==
  ASSUME NEW b \in {0, 1}, Framed(b), ClosStartFlow,
         ownCwnd' \in 0..NoThreshold, lastSeqAI' \in Nat
  PROVE  Framed(b)'
<1>1. CountsTyped'
  <2>1. 2 * Mss \in Nat  BY TCPAssumption
  <2>2. pastCwnd' \in [Slices -> Nat]  BY <2>1 DEF ClosStartFlow
  <2>3. QED  BY <2>2 DEF ClosStartFlow, Framed, RestTyped, CountsTyped
<1>2. First \in Slices  BY TCPAssumption DEF First
<1>3. Sent(b)
  <2>1. PICK cw : cw = [w \in Slices |-> InitCwnd]  OBVIOUS
  <2>2. QED  BY <1>2, <2>1, FirstSends DEF ClosStartFlow
<1>4. QED  BY <1>1, <1>3, StartStep DEF ClosStartFlow, Windows

-----------------------------------------------------------------------------
(* The timer *)

\* A timeout keeps the invariant: it sends one packet after the last byte
\* acknowledged, or the SYN again.
LEMMA TimeoutStep ==
  ASSUME NEW b \in {0, 1}, Framed(b), rtxPending, rtxPending' = FALSE,
         WindowsOK(cwnd', ssthresh'), CountsTyped',
         inRecovery' = FALSE, recoverq' = highestSent, dupacks' = 0,
         highestSent' = IF established THEN lastAcked + Mss ELSE highestSent,
         net' = net (+) One(IF established THEN Again(lastAcked) ELSE [seq |-> 1, size |-> 1]),
         timer' = (timer \/ established),
         UNCHANGED <<established, bypass, lastAcked, finished, sink, acks, faults>>
  PROVE  Framed(b)'
<1>1. /\ Mss \in Nat \ {0} /\ FlowSize \in Nat /\ MaxCwnd \in Nat /\ Top = MaxCwnd + 3 * Mss
      /\ NoThreshold \in Nat
  BY TCPAssumption DEF Top
<1>2. /\ RestTyped /\ NetFramed(b) /\ AcksFramed(b) /\ SinkFramed(b) /\ SourceFramed(b)
  BY DEF Framed
<1>3. /\ established' = established /\ bypass' = bypass /\ lastAcked' = lastAcked
      /\ finished' = finished /\ acks' = acks /\ faults' = faults
      /\ cumAck' = cumAck /\ received' = received /\ arrived' = arrived
  BY DEF sink
<1>4. /\ highestSent > 0 /\ lastAcked < highestSent /\ (timer \/ established)
      /\ lastAcked \in 0..(FlowSize - 1) /\ highestSent \in 0..(FlowSize + Mss)
      /\ highestSent <= lastAcked + Top
      /\ established => InFrame(b, lastAcked)
      /\ ~established => b = 1 /\ highestSent \in {0, 1} /\ lastAcked = 0
  BY <1>1, <1>2 DEF SourceFramed
<1>5. timer' = TRUE  BY <1>2, <1>4 DEF RestTyped
<1>6. /\ highestSent' \in 1..(FlowSize + Mss) /\ highestSent' <= lastAcked + Top
      /\ lastAcked < highestSent'
      /\ established => InFrame(b, highestSent')
      /\ ~established => highestSent' = 1
  <2>1. established => InFrame(b, lastAcked + Mss)  BY <1>4, FrameNext
  <2>2. QED  BY <1>1, <1>2, <1>4, <2>1 DEF RestTyped
<1>7. NetFramed(b)'
  <2>1. PICK p : p = IF established THEN Again(lastAcked) ELSE Syn  OBVIOUS
  <2>2. established => DataPacket(b, p)  BY <1>4, <2>1, SizeFacts
  <2>3. ~established => b = 1 /\ p = Syn  BY <1>4, <2>1
  <2>4. IsABag(net') /\ DOMAIN net' = DOMAIN net \cup {p}
    BY <1>2, <2>1, Added DEF NetFramed, Syn
  <2>5. \A q \in DOMAIN net' : (b = 1 /\ q = Syn) \/ (established /\ DataPacket(b, q))
    BY <1>2, <2>2, <2>3, <2>4 DEF NetFramed
  <2>6. QED  BY <1>3, <2>4, <2>5 DEF NetFramed, DataPacket, InFrame, Syn
<1>8. RestTyped'
  <2>1. cwnd' \in [Slices -> 0..Top] /\ ssthresh' \in [Slices -> 0..NoThreshold]
    BY <1>1 DEF WindowsOK
  <2>2. /\ recoverq' \in 0..(FlowSize + Mss) /\ dupacks' \in 0..4
        /\ inRecovery' \in BOOLEAN /\ timer' \in BOOLEAN /\ rtxPending' \in BOOLEAN
    <3>1. recoverq' \in 0..(FlowSize + Mss) /\ dupacks' \in 0..4  BY <1>4
    <3>2. inRecovery' \in BOOLEAN /\ timer' \in BOOLEAN /\ rtxPending' \in BOOLEAN
      BY <1>5
    <3>3. QED  BY <3>1, <3>2
  <2>3. faults' \in 0..MaxFaults /\ established' \in BOOLEAN /\ bypass' \in BOOLEAN
        /\ finished' \in BOOLEAN
    BY <1>2, <1>3 DEF RestTyped
  <2>4. QED  BY <2>1, <2>2, <2>3 DEF RestTyped
<1>9. AcksFramed(b)'  BY <1>2, <1>3 DEF AcksFramed, InFrame
<1>10. SinkFramed(b)'  BY <1>2, <1>3 DEF SinkFramed, InFrame, BlockCame
<1>11. SourceFramed(b)'
  <2>1. /\ highestSent' \in 0..(FlowSize + Mss) /\ highestSent' <= lastAcked' + Top
        /\ highestSent' # 0 /\ lastAcked' < highestSent'
    BY <1>1, <1>3, <1>6
  <2>2. established' => InFrame(b, lastAcked)' /\ (highestSent' < FlowSize => InFrame(b, highestSent)')
    BY <1>3, <1>4, <1>6 DEF InFrame
  <2>3. WindowsOK(cwnd, ssthresh)'  BY DEF WindowsOK
  <2>4. QED  BY <1>2, <1>3, <1>4, <1>5, <1>6, <2>1, <2>2, <2>3 DEF SourceFramed
<1>12. TimerWhileRunning'  BY <1>5 DEF TimerWhileRunning
<1>13. RecoveryCanEnd'  BY DEF RecoveryCanEnd
<1>14. QED  BY <1>7, <1>8, <1>9, <1>10, <1>11, <1>12, <1>13 DEF Framed

\* The timeouts of Opera: the windows they leave.
LEMMA OperaTimesOut ==
  ASSUME NEW b \in {0, 1}, Framed(b), NEW w \in Slices, NEW t,
         highestSent > 0 => t \in Mss..NoThreshold, TimesOut(w, t), CountsTyped'
  PROVE  Framed(b)'
<1>1. rtxPending /\ SourceFramed(b) /\ highestSent \in Nat
  BY TCPAssumption DEF TimesOut, Framed, SourceFramed
<1>2. highestSent > 0  BY <1>1 DEF SourceFramed
<1>3. WindowsOK(cwnd, ssthresh)  BY <1>1, <1>2 DEF SourceFramed
<1>4. Mss \in Mss..Top  BY TCPAssumption DEF Top
<1>5. WindowsOK(cwnd', ssthresh')  BY <1>2, <1>3, <1>4 DEF WindowsOK, TimesOut
<1>6. net' = net (+) One(IF established THEN Again(lastAcked) ELSE [seq |-> 1, size |-> 1])
  BY DEF TimesOut
<1>7. QED  BY <1>5, <1>6, TimeoutStep DEF TimesOut

\* The timeouts of the Clos simulator: its one window.
LEMMA ClosTimesOutStep ==
  ASSUME NEW b \in {0, 1}, Framed(b), NEW t \in Mss..NoThreshold, ClosTimesOut(t), CountsTyped'
  PROVE  Framed(b)'
<1>1. Mss \in Mss..Top  BY TCPAssumption DEF Top
<1>2. WindowsOK(cwnd', ssthresh')  BY <1>1, WindowsSet DEF ClosTimesOut
<1>3. QED  BY <1>2, TimeoutStep DEF ClosTimesOut

\* The windows that a timeout finds.
LEMMA TimedOutFacts ==
  ASSUME NEW b \in {0, 1}, Framed(b), rtxPending, NEW w \in Slices
  PROVE  /\ TimedOutWindow(w) \in Nat
         /\ Deflated(TimedOutWindow(w)) \in Mss..NoThreshold
         /\ cwnd[w] \in Mss..Top /\ ssthresh[w] \in Mss..NoThreshold
<1>1. /\ Mss \in Nat \ {0} /\ Top \in Nat /\ Top = MaxCwnd + 3 * Mss /\ MaxCwnd \in Nat
      /\ FlowSize \in Nat /\ NoThreshold \in Nat /\ MaxCwnd >= 3 * Mss
      /\ NoThreshold >= MaxCwnd + 3 * Mss
  BY TCPAssumption DEF Top
<1>2. /\ highestSent > 0 /\ WindowsOK(cwnd, ssthresh) /\ lastAcked < highestSent
      /\ lastAcked \in Nat /\ highestSent \in Nat /\ highestSent <= lastAcked + Top
  BY <1>1 DEF Framed, SourceFramed
<1>3. cwnd[w] \in Mss..Top /\ ssthresh[w] \in Mss..NoThreshold
  BY <1>2 DEF WindowsOK
<1>4. TimedOutWindow(w) \in 0..(Top + Mss)
  <2>1. CASE inRecovery
    <3>1. TimedOutWindow(w) = Least(ssthresh[w], highestSent - lastAcked + Mss)
      BY <2>1 DEF TimedOutWindow
    <3>2. QED  BY <1>1, <1>2, <1>3, <3>1 DEF Least
  <2>2. CASE ~inRecovery
    BY <1>1, <1>3, <2>2 DEF TimedOutWindow
  <2>3. QED  BY <2>1, <2>2
<1>5. Deflated(TimedOutWindow(w)) \in Mss..NoThreshold
  <2>1. PICK x : x = TimedOutWindow(w) \div 2  OBVIOUS
  <2>2. x \in Nat /\ 2 * x <= Top + Mss  BY <1>1, <1>4, <2>1
  <2>3. Deflated(TimedOutWindow(w)) = IF x > 2 * Mss THEN x ELSE 2 * Mss
    BY <2>1 DEF Deflated, Most
  <2>4. QED  BY <1>1, <2>2, <2>3
<1>6. QED  BY <1>1, <1>3, <1>4, <1>5

\* The timeout of DCTCP, in Opera.
LEMMA DCTCPTimeoutStep ==
  ASSUME NEW b \in {0, 1}, Framed(b), NEW w \in Slices, Timeout(w), UNCHANGED own
  PROVE  Framed(b)'
<1>1. PICK d : d = TimedOutWindow(w)  OBVIOUS
<1>2. rtxPending  BY DEF Timeout, TimesOut
<1>3. d \in Nat /\ Deflated(d) \in Mss..NoThreshold  BY <1>1, <1>2, TimedOutFacts
<1>4. TimesOut(w, Deflated(d)) /\ pastCwnd' = [pastCwnd EXCEPT ![w] = d]
  BY <1>1 DEF Timeout
<1>5. CountsTyped'
  BY <1>3, <1>4 DEF Timeout, Framed, RestTyped, CountsTyped, own
<1>6. QED  BY <1>3, <1>4, <1>5, OperaTimesOut

\* The timeouts of HPCC and Bolt, in Opera.
LEMMA RateTimeoutStep ==
  ASSUME NEW b \in {0, 1}, Framed(b), HPCCTimeout \/ BoltTimeout
  PROVE  Framed(b)'
<1>1. First \in Slices  BY TCPAssumption DEF First
<1>2. UNCHANGED <<ecn, own>>  BY DEF HPCCTimeout, BoltTimeout
<1>3. CountsTyped'  BY <1>2 DEF Framed, RestTyped, CountsTyped, ecn, own
<1>4. CASE HPCCTimeout
  <2>1. rtxPending /\ TimesOut(First, ssthresh[First])  BY <1>4 DEF HPCCTimeout, TimesOut
  <2>2. ssthresh[First] \in Mss..NoThreshold  BY <1>1, <2>1, TimedOutFacts
  <2>3. QED  BY <1>1, <1>3, <2>1, <2>2, OperaTimesOut
<1>5. CASE BoltTimeout
  <2>1. TimesOut(First, Deflated(ownCwnd))  BY <1>5 DEF BoltTimeout
  <2>2. ownCwnd \in 0..NoThreshold  BY DEF Framed, RestTyped, CountsTyped
  <2>3. Deflated(ownCwnd) \in Mss..NoThreshold
    <3>1. Mss \in Nat \ {0} /\ NoThreshold \in Nat /\ NoThreshold >= 3 * Mss  BY TCPAssumption
    <3>2. PICK x : x = ownCwnd \div 2  OBVIOUS
    <3>3. x \in Nat /\ 2 * x <= ownCwnd  BY <2>2, <3>1, <3>2
    <3>4. Deflated(ownCwnd) = IF x > 2 * Mss THEN x ELSE 2 * Mss  BY <3>2 DEF Deflated, Most
    <3>5. QED  BY <2>2, <3>1, <3>3, <3>4
  <2>4. QED  BY <1>1, <1>3, <2>1, <2>3, OperaTimesOut
<1>6. QED  BY <1>4, <1>5

\* The timeouts of all classes, in the Clos simulator.
LEMMA ClosTimeoutStep ==
  ASSUME NEW b \in {0, 1}, Framed(b), UNCHANGED own, ClosTimeout \/ ClosRateTimeout
  PROVE  Framed(b)'
<1>1. PICK f \in Slices : f = CHOOSE s \in Slices : TRUE  BY TCPAssumption
<1>2. CountsTyped /\ ownCwnd' = ownCwnd /\ lastSeqAI' = lastSeqAI
  BY DEF Framed, RestTyped, own
<1>3. CASE ClosTimeout
  <2>0. PICK s \in Slices :
          \E d : d = TimedOutWindow(s) /\ ClosTimesOut(Deflated(d)) /\ Counts(0, FALSE, Alfa, d)
    BY <1>3 DEF ClosTimeout
  <2>1. PICK d : d = TimedOutWindow(s) /\ ClosTimesOut(Deflated(d)) /\ Counts(0, FALSE, Alfa, d)
    BY <2>0
  <2>2. rtxPending  BY <2>1 DEF ClosTimesOut
  <2>3. d \in Nat /\ Deflated(d) \in Mss..NoThreshold  BY <2>1, <2>2, TimedOutFacts
  <2>4. Alfa \in BOOLEAN  BY <1>1, <1>2 DEF Alfa, CountsTyped
  <2>5. CountsTyped'  BY <1>2, <2>1, <2>3, <2>4, CountsSet DEF CountsTyped
  <2>6. QED  BY <2>1, <2>3, <2>5, ClosTimesOutStep
<1>4. CASE ClosRateTimeout
  <2>1. rtxPending /\ ClosTimesOut(Ssthresh)  BY <1>4 DEF ClosRateTimeout, ClosTimesOut
  <2>2. Ssthresh \in Mss..NoThreshold  BY <1>1, <2>1, TimedOutFacts DEF Ssthresh
  <2>3. CountsTyped'  BY <1>2, <1>4 DEF ClosRateTimeout, CountsTyped, ecn
  <2>4. QED  BY <2>1, <2>2, <2>3, ClosTimesOutStep
<1>5. QED  BY <1>3, <1>4

\* The timer hook schedules the timeout of a flow that has started.
LEMMA TimerHookStep ==
  ASSUME NEW b \in {0, 1}, Framed(b), RtxTimerHook, UNCHANGED <<ecn, own>>
  PROVE  Framed(b)'
<1>1. /\ timer /\ ~finished /\ highestSent > 0 /\ rtxPending' = TRUE
      /\ faults' \in 0..MaxFaults
      /\ established' = established /\ bypass' = bypass /\ highestSent' = highestSent
      /\ lastAcked' = lastAcked /\ cwnd' = cwnd /\ ssthresh' = ssthresh
      /\ dupacks' = dupacks /\ recoverq' = recoverq /\ inRecovery' = inRecovery
      /\ timer' = timer /\ finished' = finished /\ net' = net /\ acks' = acks
      /\ cumAck' = cumAck /\ received' = received /\ arrived' = arrived
  <2>1. faults \in 0..MaxFaults /\ MaxFaults \in Nat  BY TCPAssumption DEF Framed, RestTyped
  <2>2. faults' \in 0..MaxFaults  BY <2>1 DEF RtxTimerHook
  <2>3. QED  BY <2>2 DEF RtxTimerHook, sink
<1>2. /\ RestTyped /\ NetFramed(b) /\ AcksFramed(b) /\ SinkFramed(b) /\ SourceFramed(b)
      /\ RecoveryCanEnd
  BY DEF Framed
<1>3. CountsTyped'  BY <1>2 DEF RestTyped, CountsTyped, ecn, own
<1>4. RestTyped'  BY <1>1, <1>2, <1>3 DEF RestTyped
<1>5. NetFramed(b)'  BY <1>1, <1>2 DEF NetFramed, DataPacket, InFrame
<1>6. AcksFramed(b)'  BY <1>1, <1>2 DEF AcksFramed, InFrame
<1>7. SinkFramed(b)'  BY <1>1, <1>2 DEF SinkFramed, InFrame, BlockCame
<1>8. SourceFramed(b)'
  <2>1. highestSent # 0  BY <1>1
  <2>2. QED  BY <1>1, <1>2, <2>1 DEF SourceFramed, InFrame, WindowsOK
<1>9. TimerWhileRunning' /\ RecoveryCanEnd'
  BY <1>1, <1>2 DEF TimerWhileRunning, RecoveryCanEnd
<1>10. QED  BY <1>3, <1>4, <1>5, <1>6, <1>7, <1>8, <1>9 DEF Framed

-----------------------------------------------------------------------------
(* Steps that change little *)

\* A step that only the class's own numbers see.
LEMMA OwnStep ==
  ASSUME NEW b \in {0, 1}, Framed(b), UNCHANGED vars, ownCwnd' \in 0..NoThreshold,
         lastSeqAI' = lastSeqAI
  PROVE  Framed(b)'
<1>1. /\ established' = established /\ bypass' = bypass /\ highestSent' = highestSent
      /\ lastAcked' = lastAcked /\ cwnd' = cwnd /\ ssthresh' = ssthresh
      /\ dupacks' = dupacks /\ recoverq' = recoverq /\ inRecovery' = inRecovery
      /\ timer' = timer /\ rtxPending' = rtxPending /\ finished' = finished
      /\ cumAck' = cumAck /\ received' = received /\ arrived' = arrived
      /\ net' = net /\ acks' = acks /\ faults' = faults /\ seen' = seen
      /\ marked' = marked /\ alfa' = alfa /\ pastCwnd' = pastCwnd
  BY DEF vars, source, sink, network, ecn
<1>2. /\ RestTyped /\ NetFramed(b) /\ AcksFramed(b) /\ SinkFramed(b) /\ SourceFramed(b)
      /\ TimerWhileRunning /\ RecoveryCanEnd
  BY DEF Framed
<1>3. RestTyped'  BY <1>1, <1>2 DEF RestTyped, CountsTyped
<1>4. NetFramed(b)'  BY <1>1, <1>2 DEF NetFramed, DataPacket, InFrame
<1>5. AcksFramed(b)'  BY <1>1, <1>2 DEF AcksFramed, InFrame
<1>6. SinkFramed(b)'  BY <1>1, <1>2 DEF SinkFramed, InFrame, BlockCame
<1>7. SourceFramed(b)'  BY <1>1, <1>2 DEF SourceFramed, InFrame, WindowsOK
<1>8. TimerWhileRunning' /\ RecoveryCanEnd'
  BY <1>1, <1>2 DEF TimerWhileRunning, RecoveryCanEnd
<1>9. QED  BY <1>3, <1>4, <1>5, <1>6, <1>7, <1>8 DEF Framed

\* Early feedback changes the window of Bolt within the width of it.
LEMMA HandleSRCStep ==
  ASSUME NEW b \in {0, 1}, Framed(b), HandleSRC \/ ClosHandleSRC
  PROVE  Framed(b)'
<1>1. Mss \in Nat \ {0} /\ NoThreshold \in Nat  BY TCPAssumption
<1>2. ownCwnd \in 0..NoThreshold  BY DEF Framed, RestTyped, CountsTyped
<1>3. (ownCwnd - Mss) % (NoThreshold + 1) \in 0..NoThreshold  BY <1>1, <1>2
<1>4. Most(ownCwnd - Mss, 0) \in 0..NoThreshold  BY <1>1, <1>2 DEF Most
<1>5. ownCwnd' \in 0..NoThreshold /\ UNCHANGED vars /\ lastSeqAI' = lastSeqAI
  BY <1>3, <1>4 DEF HandleSRC, ClosHandleSRC
<1>6. QED  BY <1>5, OwnStep

\* A loss takes one element of a bag.
LEMMA LoseStep ==
  ASSUME NEW b \in {0, 1}, Framed(b), Lose, UNCHANGED <<ecn, own>>
  PROVE  Framed(b)'
<1>1. /\ faults' \in 0..MaxFaults
      /\ established' = established /\ bypass' = bypass /\ highestSent' = highestSent
      /\ lastAcked' = lastAcked /\ cwnd' = cwnd /\ ssthresh' = ssthresh
      /\ dupacks' = dupacks /\ recoverq' = recoverq /\ inRecovery' = inRecovery
      /\ timer' = timer /\ rtxPending' = rtxPending /\ finished' = finished
      /\ cumAck' = cumAck /\ received' = received /\ arrived' = arrived
  <2>1. faults \in 0..MaxFaults /\ MaxFaults \in Nat  BY TCPAssumption DEF Framed, RestTyped
  <2>2. faults' \in 0..MaxFaults  BY <2>1 DEF Lose
  <2>3. QED  BY <2>2 DEF Lose, source, sink
<1>2. /\ RestTyped /\ NetFramed(b) /\ AcksFramed(b) /\ SinkFramed(b) /\ SourceFramed(b)
      /\ TimerWhileRunning /\ RecoveryCanEnd
  BY DEF Framed
<1>3. /\ IsABag(net') /\ DOMAIN net' \subseteq DOMAIN net
      /\ IsABag(acks') /\ DOMAIN acks' \subseteq DOMAIN acks
      /\ net # EmptyBag \/ acks # EmptyBag
  <2>1. IsABag(net) /\ IsABag(acks)  BY <1>2 DEF NetFramed, AcksFramed
  <2>2. CASE \E p \in BagToSet(net) : net' = net (-) One(p) /\ UNCHANGED acks
    BY <2>1, <2>2, Removed, NoElement DEF BagToSet
  <2>3. CASE \E a \in BagToSet(acks) : acks' = acks (-) One(a) /\ UNCHANGED net
    BY <2>1, <2>3, Removed, NoElement DEF BagToSet
  <2>4. QED  BY <2>2, <2>3 DEF Lose
<1>4. CountsTyped'  BY <1>2 DEF RestTyped, CountsTyped, ecn, own
<1>5. RestTyped'  BY <1>1, <1>2, <1>4 DEF RestTyped
<1>6. NetFramed(b)'  BY <1>1, <1>2, <1>3 DEF NetFramed, DataPacket, InFrame
<1>7. AcksFramed(b)'  BY <1>1, <1>2, <1>3 DEF AcksFramed, InFrame
<1>8. SinkFramed(b)'  BY <1>1, <1>2 DEF SinkFramed, InFrame, BlockCame
<1>9. SourceFramed(b)'
  <2>1. highestSent # 0  BY <1>2, <1>3 DEF SourceFramed
  <2>2. QED  BY <1>1, <1>2, <2>1 DEF SourceFramed, InFrame, WindowsOK
<1>10. TimerWhileRunning' /\ RecoveryCanEnd'
  BY <1>1, <1>2 DEF TimerWhileRunning, RecoveryCanEnd
<1>11. QED  BY <1>5, <1>6, <1>7, <1>8, <1>9, <1>10 DEF Framed

-----------------------------------------------------------------------------
(* The sink *)

\* Where the loop of the sink stops.
Taken(k, cum, blocks, n) ==
  /\ k \in 0..Len(blocks)
  /\ \A i \in 1..k : blocks[i] = cum + 1 + (i - 1) * n
  /\ k < Len(blocks) => blocks[k + 1] # cum + 1 + k * n

\* It stops somewhere.
LEMMA JoinedEnds ==
  ASSUME NEW cum \in Nat, NEW n \in Nat, NEW blocks \in Seq(1..FlowSize)
  PROVE  \E k \in 0..Len(blocks) :
           /\ Taken(k, cum, blocks, n)
           /\ Joined(cum, blocks, n) =
                [cum |-> cum + k * n, blocks |-> SubSeq(blocks, k + 1, Len(blocks))]
<1> DEFINE Good == {i \in 1..Len(blocks) : blocks[i] = cum + 1 + (i - 1) * n}
           run == CHOOSE k \in 0..Len(blocks) :
                    /\ \A i \in 1..k : blocks[i] = cum + 1 + (i - 1) * n
                    /\ k < Len(blocks) => blocks[k + 1] # cum + 1 + k * n
<1>1. Len(blocks) \in Nat  BY LenProperties
<1>2. PICK k \in 0..Len(blocks) : StopsAt(k, Len(blocks), Good)  BY <1>1, SearchEnds
<1>3. /\ \A i \in 1..k : blocks[i] = cum + 1 + (i - 1) * n
      /\ k < Len(blocks) => blocks[k + 1] # cum + 1 + k * n
  <2>1. (k + 1) - 1 = k /\ (k < Len(blocks) => k + 1 \in 1..Len(blocks))  BY <1>1
  <2>2. QED  BY <1>2, <2>1 DEF StopsAt
<1>4. /\ run \in 0..Len(blocks)
      /\ \A i \in 1..run : blocks[i] = cum + 1 + (i - 1) * n
      /\ run < Len(blocks) => blocks[run + 1] # cum + 1 + run * n
  BY <1>3
<1>5. Taken(run, cum, blocks, n)  BY <1>4 DEF Taken
<1>6. Joined(cum, blocks, n) =
        [cum |-> cum + run * n, blocks |-> SubSeq(blocks, run + 1, Len(blocks))]
  BY DEF Joined
<1>7. QED  BY <1>4, <1>5, <1>6

\* Where the blocks that the sink may hold lie.
BlocksOK(b, blocks, bytes) ==
  /\ blocks \in Seq(1..FlowSize)
  /\ \A i \in 1..Len(blocks) : /\ InFrame(b, blocks[i] - 1)
                               /\ blocks[i]..Least(blocks[i] + Mss - 1, FlowSize) \subseteq bytes

\* The packet after byte q, of n bytes, fills the hole: the sink acknowledges
\* only what has come, and keeps blocks of what has.
Fills(b, q, n, bytes, blocks) ==
  LET j    == Joined(q + n, blocks, n)
      more == bytes \cup (q + 1)..(q + n)
  IN /\ j.cum \in q..(FlowSize + Mss) /\ (j.cum < FlowSize => InFrame(b, j.cum))
     /\ q < j.cum
     /\ 1..Least(j.cum, FlowSize) \subseteq more
     /\ BlocksOK(b, j.blocks, more)

\* It does, though the sink takes the size of this packet for that of the
\* blocks above.
LEMMA HoleFilled ==
  ASSUME NEW b \in {0, 1}, NEW q \in 0..(FlowSize - 1), InFrame(b, q), NEW n \in 1..Mss,
         n = Mss \/ n = FlowSize - q + 1,
         NEW bytes, 1..q \subseteq bytes, NEW blocks, BlocksOK(b, blocks, bytes)
  PROVE  Fills(b, q, n, bytes, blocks)
<1> DEFINE j == Joined(q + n, blocks, n)
           more == bytes \cup (q + 1)..(q + n)
<1>1. Mss \in Nat \ {0} /\ FlowSize \in Nat  BY TCPAssumption
<1>2. q \in Nat /\ q < FlowSize /\ n \in Nat /\ 1 <= n /\ n <= Mss  BY <1>1
<1>3. q + n \in Nat  BY <1>2
<1>4. blocks \in Seq(1..FlowSize) /\ Len(blocks) \in Nat
      /\ \A i \in 1..Len(blocks) : blocks[i] \in 1..FlowSize
  BY LenProperties, ElementOfSeq DEF BlocksOK
<1>5. PICK k \in 0..Len(blocks) :
        /\ Taken(k, q + n, blocks, n)
        /\ Joined(q + n, blocks, n)
             = [cum |-> q + n + k * n, blocks |-> SubSeq(blocks, k + 1, Len(blocks))]
  BY <1>2, <1>3, <1>4, JoinedEnds
<1>12. PICK c, rest : /\ c = q + n + k * n /\ rest = SubSeq(blocks, k + 1, Len(blocks))
                      /\ j.cum = c /\ j.blocks = rest
  BY <1>5
<1>6. \A i \in 1..k : blocks[i] = q + n + 1 + (i - 1) * n /\ i \in 1..Len(blocks)
  BY <1>4, <1>5 DEF Taken
<1>7. k > 0 => n = Mss
  <2>1. SUFFICES ASSUME k > 0, n = FlowSize - q + 1  PROVE FALSE  BY <1>2
  <2>2. blocks[1] = q + n + 1 + (1 - 1) * n /\ 1 \in 1..Len(blocks)  BY <1>4, <1>6, <2>1
  <2>3. (1 - 1) * n = 0  BY <1>3
  <2>4. QED  BY <1>1, <1>2, <1>4, <2>1, <2>2, <2>3
<1>8. /\ c \in q..(FlowSize + Mss) /\ q < c
      /\ c < FlowSize => InFrame(b, c)
  <2>1. CASE k = 0
    <3>1. c = q + n  BY <1>3, <1>12, <2>1
    <3>2. n = Mss => InFrame(b, q + n)  BY <1>2, FrameNext
    <3>3. QED  BY <1>1, <1>2, <3>1, <3>2
  <2>2. CASE k > 0
    <3>1. n = Mss /\ k \in 1..k  BY <1>7, <2>2
    <3>2. blocks[k] = q + Mss + 1 + (k - 1) * Mss /\ blocks[k] \in 1..FlowSize
      BY <1>4, <1>6, <3>1
    <3>3. (k - 1) * Mss = k * Mss - Mss /\ k * Mss \in Nat /\ (k + 1) * Mss = k * Mss + Mss
      BY <1>1
    <3>4. c = q + Mss + k * Mss  BY <1>12, <3>1
    <3>5. c <= FlowSize + Mss  BY <1>1, <1>2, <3>2, <3>3, <3>4
    <3>6. InFrame(b, q + (k + 1) * Mss)  BY <1>2, FrameOffset
    <3>7. QED  BY <1>1, <1>2, <3>3, <3>4, <3>5, <3>6
  <2>3. QED  BY <1>4, <2>1, <2>2
<1>9. ASSUME NEW x \in 1..Least(c, FlowSize)  PROVE x \in more
  <2>1. x \in Nat /\ 1 <= x /\ x <= c /\ x <= FlowSize  BY <1>1, <1>8 DEF Least
  <2>2. CASE x <= q  BY <2>1, <2>2
  <2>3. CASE q < x /\ x <= q + n  BY <1>2, <2>1, <2>3
  <2>4. CASE x > q + n
    <3>1. x - q - n - 1 \in Nat  BY <1>2, <1>3, <2>1, <2>4
    <3>2. k > 0 /\ n = Mss
      <4>1. k # 0  BY <1>3, <1>12, <2>1, <2>4
      <4>2. QED  BY <1>7, <4>1
    <3>3. PICK d \in Nat, m \in 0..(Mss - 1) : x - q - n - 1 = d * Mss + m /\ d * Mss \in Nat
      BY <1>1, <3>1, Division
    <3>4. d < k
      <4>1. SUFFICES ASSUME d >= k  PROVE FALSE  OBVIOUS
      <4>2. (d - k) * Mss >= 0 /\ (d - k) * Mss = d * Mss - k * Mss /\ k * Mss \in Nat
        BY <1>1, <4>1
      <4>3. c = q + n + k * Mss  BY <1>12, <3>2
      <4>4. QED  BY <1>1, <1>2, <2>1, <3>2, <3>3, <4>2, <4>3
    <3>5. d + 1 \in 1..k /\ (d + 1) - 1 = d  BY <3>4
    <3>6. blocks[d + 1] = q + n + 1 + d * Mss /\ d + 1 \in 1..Len(blocks)
      BY <1>6, <3>2, <3>5
    <3>7. x \in blocks[d + 1]..Least(blocks[d + 1] + Mss - 1, FlowSize)
      <4>1. x = blocks[d + 1] + m  BY <1>1, <1>2, <1>3, <2>1, <3>3, <3>6
      <4>2. QED  BY <1>1, <1>4, <2>1, <3>3, <3>6, <4>1 DEF Least
    <3>8. QED  BY <3>6, <3>7 DEF BlocksOK
  <2>5. QED  BY <1>2, <1>3, <2>1, <2>2, <2>3, <2>4
<1>10. BlocksOK(b, rest, more)
  <2>1. \A i \in (k + 1)..Len(blocks) : blocks[i] \in 1..FlowSize /\ i \in 1..Len(blocks)
    BY <1>4
  <2>2. /\ rest \in Seq(1..FlowSize)
        /\ Len(rest) = IF k + 1 <= Len(blocks) THEN Len(blocks) - (k + 1) + 1 ELSE 0
        /\ \A i \in 1..(Len(blocks) - (k + 1) + 1) : rest[i] = blocks[(k + 1) + i - 1]
    BY <1>4, <1>12, <2>1, SubSeqProperties
  <2>3. ASSUME NEW i \in 1..Len(rest)
        PROVE  \E m \in 1..Len(blocks) : rest[i] = blocks[m]
    <3>1. i \in 1..(Len(blocks) - (k + 1) + 1) /\ (k + 1) + i - 1 \in 1..Len(blocks)
      BY <1>4, <2>2
    <3>2. QED  BY <2>2, <3>1
  <2>4. QED  BY <2>2, <2>3 DEF BlocksOK
<1>11. QED  BY <1>8, <1>9, <1>10, <1>12 DEF Fills

\* A packet above a hole becomes a block.
LEMMA BlockKept ==
  ASSUME NEW b \in {0, 1}, NEW p, DataPacket(b, p), NEW bytes, NEW blocks,
         BlocksOK(b, blocks, bytes),
         NEW more, more = bytes \cup p.seq..(p.seq + p.size - 1)
  PROVE  BlocksOK(b, WithBlock(blocks, p.seq), more)
<1>1. Mss \in Nat \ {0} /\ FlowSize \in Nat  BY TCPAssumption
<1>2. PICK q : q = p.seq  OBVIOUS
<1>3. /\ q \in 1..FlowSize /\ InFrame(b, q - 1) /\ p.size \in 1..Mss
      /\ p.size = Mss \/ p.size = FlowSize - q + 2
  BY <1>2 DEF DataPacket
<1>4. q..Least(q + Mss - 1, FlowSize) \subseteq more  BY <1>1, <1>2, <1>3 DEF Least
<1>5. blocks \in Seq(1..FlowSize) /\ Len(blocks) \in Nat
      /\ \A i \in 1..Len(blocks) : blocks[i] \in 1..FlowSize
  BY LenProperties, ElementOfSeq DEF BlocksOK
<1>6. CASE q \in Range(blocks)
  <2>1. WithBlock(blocks, q) = blocks  BY <1>6 DEF WithBlock
  <2>2. QED  BY <1>2, <2>1 DEF BlocksOK
<1>7. CASE q \notin Range(blocks)
  <2> DEFINE below == {i \in 1..Len(blocks) : blocks[i] < q}
  <2>1. Cardinality(below) \in 0..Len(blocks)
    <3>1. IsFiniteSet(1..Len(blocks)) /\ Cardinality(1..Len(blocks)) = Len(blocks)
      <4>1. PICK m \in Nat : m = Len(blocks)  BY <1>5
      <4>2. IsFiniteSet(1..m) /\ Cardinality(1..m) = IF 1 > m THEN 0 ELSE m - 1 + 1
        BY ONLY m \in Nat, FS_Interval
      <4>3. QED  BY <4>1, <4>2
    <3>2. below \subseteq 1..Len(blocks)  OBVIOUS
    <3>3. Cardinality(below) \in Nat /\ Cardinality(below) <= Cardinality(1..Len(blocks))
      BY <3>1, <3>2, FS_Subset, FS_CardinalityType
    <3>4. QED  BY <1>5, <3>1, <3>3
  <2>2. PICK k \in 0..Len(blocks) : k = Cardinality(below)  BY <2>1
  <2>3. PICK s, t : s = SubSeq(blocks, 1, k) /\ t = SubSeq(blocks, k + 1, Len(blocks))
    OBVIOUS
  <2>4. WithBlock(blocks, q) = s \o <<q>> \o t  BY <1>7, <2>2, <2>3 DEF WithBlock
  <2>5. /\ s \in Seq(1..FlowSize) /\ Len(s) = k /\ \A i \in 1..k : s[i] = blocks[i]
    <3>1. \A i \in 1..k : blocks[i] \in 1..FlowSize  BY <1>5
    <3>2. /\ s \in Seq(1..FlowSize) /\ Len(s) = (IF 1 <= k THEN k - 1 + 1 ELSE 0)
          /\ \A i \in 1..(k - 1 + 1) : s[i] = blocks[1 + i - 1]
      BY <2>3, <3>1, SubSeqProperties
    <3>3. QED  BY <3>2
  <2>6. /\ t \in Seq(1..FlowSize) /\ Len(t) = Len(blocks) - k
        /\ \A i \in 1..Len(t) : t[i] = blocks[k + i]
    <3>1. \A i \in (k + 1)..Len(blocks) : blocks[i] \in 1..FlowSize  BY <1>5
    <3>2. /\ t \in Seq(1..FlowSize)
          /\ Len(t) = (IF k + 1 <= Len(blocks) THEN Len(blocks) - (k + 1) + 1 ELSE 0)
          /\ \A i \in 1..(Len(blocks) - (k + 1) + 1) : t[i] = blocks[k + 1 + i - 1]
      BY <1>5, <2>3, <3>1, SubSeqProperties
    <3>3. QED  BY <1>5, <3>2
  <2>7. PICK w : w = s \o <<q>> \o t  OBVIOUS
  <2>8. /\ w \in Seq(1..FlowSize) /\ Len(w) = Len(blocks) + 1
        /\ \A i \in 1..Len(w) : w[i] = q \/ \E m \in 1..Len(blocks) : w[i] = blocks[m]
    <3>1. <<q>> \in Seq(1..FlowSize) /\ Len(<<q>>) = 1 /\ <<q>>[1] = q  BY <1>3
    <3>2. PICK u : u = s \o <<q>>  OBVIOUS
    <3>3. /\ u \in Seq(1..FlowSize) /\ Len(u) = k + 1
          /\ \A i \in 1..Len(u) : u[i] = IF i <= k THEN blocks[i] ELSE q
      BY <2>5, <3>1, <3>2
    <3>4. w = u \o t  BY <2>7, <3>2
    <3>5. /\ w \in Seq(1..FlowSize) /\ Len(w) = Len(u) + Len(t)
          /\ \A i \in 1..Len(w) : w[i] = IF i <= Len(u) THEN u[i] ELSE t[i - Len(u)]
      <4>1. u \in Seq(1..FlowSize) /\ t \in Seq(1..FlowSize)  BY <2>6, <3>3
      <4>2. /\ u \o t \in Seq(1..FlowSize) /\ Len(u \o t) = Len(u) + Len(t)
            /\ \A i \in 1..(Len(u) + Len(t)) :
                 (u \o t)[i] = IF i <= Len(u) THEN u[i] ELSE t[i - Len(u)]
        BY ONLY <4>1, ConcatProperties
      <4>3. QED  BY <3>4, <4>2
    <3>6. ASSUME NEW i \in 1..Len(w)
          PROVE  w[i] = q \/ \E m \in 1..Len(blocks) : w[i] = blocks[m]
      <4>1. CASE i \in 1..k
        <5>1. w[i] = blocks[i]  BY <3>3, <3>5, <4>1
        <5>2. QED  BY <1>5, <4>1, <5>1
      <4>2. CASE i = k + 1  BY <3>3, <3>5, <4>2
      <4>3. CASE i > k + 1
        <5>1. i - Len(u) \in 1..Len(t) /\ k + (i - Len(u)) \in 1..Len(blocks)
          BY <1>5, <2>6, <3>3, <3>5, <4>3
        <5>2. w[i] = blocks[k + (i - Len(u))]
          <6>1. w[i] = t[i - Len(u)]  BY <3>3, <3>5, <4>3
          <6>2. QED  BY <2>6, <5>1, <6>1
        <5>3. QED  BY <5>1, <5>2
      <4>4. QED  BY <2>6, <3>3, <3>5, <4>1, <4>2, <4>3
    <3>7. QED  BY <1>5, <2>6, <3>3, <3>5, <3>6
  <2>10. ASSUME NEW i \in 1..Len(w)
         PROVE  /\ InFrame(b, w[i] - 1)
                /\ w[i]..Least(w[i] + Mss - 1, FlowSize) \subseteq more
    <3>1. CASE w[i] = q  BY <1>3, <1>4, <3>1
    <3>2. CASE \E m \in 1..Len(blocks) : w[i] = blocks[m]  BY <3>2 DEF BlocksOK
    <3>3. QED  BY <2>8, <3>1, <3>2
  <2>11. QED  BY <1>2, <2>4, <2>7, <2>8, <2>10 DEF BlocksOK
<1>8. QED  BY <1>6, <1>7

\* What the sink makes of a packet.
LEMMA SinkStep ==
  ASSUME NEW b \in {0, 1}, Framed(b), NEW p \in DOMAIN net, ReceiveData(p)
  PROVE  /\ SinkFramed(b)' /\ cumAck' >= cumAck
         /\ cumAck' \in Nat /\ (cumAck' < FlowSize => InFrame(b, cumAck'))
         /\ established \/ cumAck' = 1
         /\ arrived' = arrived \cup p.seq..(p.seq + p.size - 1)
<1>1. Mss \in Nat \ {0} /\ FlowSize \in Nat /\ FlowSize >= Mss  BY TCPAssumption
<1>2. NetFramed(b) /\ SinkFramed(b) /\ SourceFramed(b)  BY DEF Framed
<1>3. /\ established' = established
      /\ arrived' = arrived \cup p.seq..(p.seq + p.size - 1)
      /\ CASE p.seq = cumAck + 1 ->
                /\ cumAck' = Joined(p.seq + p.size - 1, received, p.size).cum
                /\ received' = Joined(p.seq + p.size - 1, received, p.size).blocks
           [] p.seq <= cumAck    -> UNCHANGED <<cumAck, received>>
           [] p.seq > cumAck + 1 -> /\ received' = WithBlock(received, p.seq)
                                    /\ UNCHANGED cumAck
  BY DEF ReceiveData, source
<1>4. /\ cumAck \in 0..(FlowSize + Mss)
      /\ 1..Least(cumAck, FlowSize) \subseteq arrived
      /\ BlocksOK(b, received, arrived)
      /\ established => (cumAck < FlowSize => InFrame(b, cumAck)) /\ (b = 1 => cumAck >= 1)
      /\ ~established => b = 1 /\ received = <<>> /\ cumAck \in {0, 1}
  BY <1>2 DEF SinkFramed, SourceFramed, BlocksOK, BlockCame
<1>5. CASE b = 1 /\ p = Syn
  <2>1. p.seq = 1 /\ p.size = 1 /\ arrived' = arrived \cup {1}
    <3>1. p.seq = 1 /\ p.size = 1  BY <1>5 DEF Syn
    <3>2. 1..(1 + 1 - 1) = {1}  OBVIOUS
    <3>3. QED  BY <1>3, <3>1, <3>2
  <2>2. CASE cumAck = 0
    <3>1. received = <<>> /\ ~established  BY <1>4, <1>5, <2>2
    <3>2. PICK k \in 0..Len(received) :
            Joined(1, received, 1) =
              [cum |-> 1 + k * 1, blocks |-> SubSeq(received, k + 1, Len(received))]
      <4>1. received \in Seq(1..FlowSize)  BY <1>4 DEF BlocksOK
      <4>2. QED  BY <4>1, JoinedEnds
    <3>3. k = 0 /\ Len(received) = 0  BY <3>1, <3>2
    <3>4. Joined(1, received, 1).cum = 1 /\ Joined(1, received, 1).blocks = <<>>
      <4>1. SubSeq(received, 0 + 1, 0) = <<>>  BY SubSeqEmpty
      <4>2. QED  BY <3>2, <3>3, <4>1
    <3>5. cumAck' = 1 /\ received' = <<>>
      <4>1. /\ p.seq = cumAck + 1 /\ p.seq + p.size - 1 = 1 /\ p.size = 1
            /\ ~ (p.seq <= cumAck) /\ ~ (p.seq > cumAck + 1)
        BY <2>1, <2>2
      <4>2. QED  BY <1>3, <3>4, <4>1
    <3>6. InFrame(b, 1)  BY <1>5, FrameBase
    <3>7. 1..Least(cumAck', FlowSize) \subseteq arrived'  BY <1>1, <2>1, <3>5 DEF Least
    <3>8. cumAck' \in 0..(FlowSize + Mss)  BY <1>1, <3>5
    <3>9. received' \in Seq(1..FlowSize) /\ Len(received') = 0  BY <3>5
    <3>10. SinkFramed(b)'
      BY <1>3, <3>1, <3>5, <3>7, <3>8, <3>9 DEF SinkFramed, InFrame, BlockCame
    <3>11. QED  BY <1>3, <2>2, <3>5, <3>6, <3>10
  <2>3. CASE cumAck >= 1
    <3>1. cumAck' = cumAck /\ received' = received
      <4>1. p.seq # cumAck + 1 /\ p.seq <= cumAck /\ ~ (p.seq > cumAck + 1)
        BY <1>1, <1>4, <2>1, <2>3
      <4>2. QED  BY <1>3, <4>1
    <3>2. 1..Least(cumAck', FlowSize) \subseteq arrived'  BY <1>4, <2>1, <3>1
    <3>3. SinkFramed(b)'
      BY <1>2, <1>3, <2>1, <3>1, <3>2 DEF SinkFramed, InFrame, BlockCame
    <3>4. established \/ cumAck = 1  BY <1>4, <2>3
    <3>5. cumAck < FlowSize => InFrame(b, cumAck)
      BY <1>4, <1>5, <3>4, FrameBase
    <3>6. QED  BY <1>1, <1>3, <1>4, <3>1, <3>3, <3>4, <3>5
  <2>4. QED  BY <1>1, <1>4, <2>2, <2>3
<1>6. CASE established /\ DataPacket(b, p)
  <2>1. PICK q, n : q = p.seq - 1 /\ n = p.size  OBVIOUS
  <2>2. /\ q \in 0..(FlowSize - 1) /\ InFrame(b, q) /\ n \in 1..Mss
        /\ n = Mss \/ n = FlowSize - q + 1
        /\ p.seq = q + 1 /\ p.seq + p.size - 1 = q + n /\ p.size = n
    BY <1>1, <1>6, <2>1 DEF DataPacket
  <2>3. PICK more : more = arrived \cup (q + 1)..(q + n)  OBVIOUS
  <2>4. arrived' = more  BY <1>3, <2>2, <2>3
  <2>5. /\ cumAck' \in 0..(FlowSize + Mss) /\ cumAck' >= cumAck
        /\ cumAck' < FlowSize => InFrame(b, cumAck')
        /\ 1..Least(cumAck', FlowSize) \subseteq more
        /\ BlocksOK(b, received', more)
    <3>1. CASE p.seq = cumAck + 1
      <4>1. q = cumAck /\ 1..q \subseteq arrived
        BY <1>1, <1>4, <2>2, <3>1 DEF Least
      <4>2. PICK j : j = Joined(q + n, received, n)  OBVIOUS
      <4>3. /\ j.cum \in q..(FlowSize + Mss) /\ (j.cum < FlowSize => InFrame(b, j.cum))
            /\ q < j.cum /\ 1..Least(j.cum, FlowSize) \subseteq more
            /\ BlocksOK(b, j.blocks, more)
        <5>1. BlocksOK(b, received, arrived)  BY <1>4
        <5>2. q \in 0..(FlowSize - 1) /\ InFrame(b, q) /\ n \in 1..Mss
              /\ (n = Mss \/ n = FlowSize - q + 1)
          BY <2>2
        <5>3. 1..q \subseteq arrived  BY <4>1
        <5>4. Fills(b, q, n, arrived, received)
          BY ONLY b \in {0, 1}, <5>1, <5>2, <5>3, HoleFilled
        <5>5. QED  BY <2>3, <4>2, <5>4 DEF Fills
      <4>4. cumAck' = j.cum /\ received' = j.blocks
        <5>1. ~ (p.seq <= cumAck) /\ ~ (p.seq > cumAck + 1)  BY <1>1, <1>4, <3>1
        <5>2. QED  BY <1>3, <2>2, <3>1, <4>2, <5>1
      <4>5. QED  BY <1>1, <2>2, <4>1, <4>3, <4>4
    <3>2. CASE p.seq <= cumAck
      <4>1. cumAck' = cumAck /\ received' = received
        <5>1. p.seq # cumAck + 1 /\ ~ (p.seq > cumAck + 1)  BY <1>1, <1>4, <2>2, <3>2
        <5>2. QED  BY <1>3, <3>2, <5>1
      <4>2. BlocksOK(b, received, more)  BY <1>4, <2>3 DEF BlocksOK
      <4>3. QED  BY <1>1, <1>4, <1>6, <2>3, <4>1, <4>2
    <3>3. CASE p.seq > cumAck + 1
      <4>1. cumAck' = cumAck /\ received' = WithBlock(received, p.seq)
        <5>1. p.seq # cumAck + 1 /\ ~ (p.seq <= cumAck)  BY <1>1, <1>4, <2>2, <3>3
        <5>2. QED  BY <1>3, <3>3, <5>1
      <4>2. BlocksOK(b, received', more)
        <5>1. more = arrived \cup p.seq..(p.seq + p.size - 1)  BY <2>2, <2>3
        <5>2. QED  BY <1>4, <1>6, <4>1, <5>1, BlockKept
      <4>3. QED  BY <1>1, <1>4, <1>6, <2>3, <4>1, <4>2
    <3>4. QED  BY <1>1, <1>4, <2>2, <3>1, <3>2, <3>3
  <2>6. cumAck' \in Nat /\ (b = 1 => cumAck' >= 1)  BY <1>1, <1>4, <1>6, <2>5
  <2>7. SinkFramed(b)'
    BY <1>3, <1>6, <2>4, <2>5, <2>6 DEF SinkFramed, InFrame, BlockCame, BlocksOK
  <2>8. QED  BY <1>3, <1>6, <2>5, <2>6, <2>7
<1>7. QED  BY <1>2, <1>5, <1>6 DEF NetFramed

\* A packet that arrives keeps the invariant.
LEMMA ReceiveDataStep ==
  ASSUME NEW b \in {0, 1}, Framed(b), NEW p \in BagToSet(net), ReceiveData(p),
         UNCHANGED <<ecn, own>>
  PROVE  Framed(b)'
<1>1. p \in DOMAIN net  BY DEF BagToSet
<1>2. /\ RestTyped /\ NetFramed(b) /\ AcksFramed(b) /\ SinkFramed(b) /\ SourceFramed(b)
      /\ TimerWhileRunning /\ RecoveryCanEnd
  BY DEF Framed
<1>3. /\ established' = established /\ bypass' = bypass /\ highestSent' = highestSent
      /\ lastAcked' = lastAcked /\ cwnd' = cwnd /\ ssthresh' = ssthresh
      /\ dupacks' = dupacks /\ recoverq' = recoverq /\ inRecovery' = inRecovery
      /\ timer' = timer /\ rtxPending' = rtxPending /\ finished' = finished
      /\ faults' = faults /\ net' = net (-) One(p) /\ acks' = acks (+) One(cumAck')
  BY DEF ReceiveData, source
<1>4. /\ SinkFramed(b)' /\ cumAck' >= cumAck
      /\ cumAck' \in Nat /\ (cumAck' < FlowSize => InFrame(b, cumAck'))
      /\ established \/ cumAck' = 1
  BY <1>1, SinkStep
<1>5. cumAck \in Nat /\ lastAcked \in Nat
  BY <1>2, TCPAssumption DEF SinkFramed, SourceFramed
<1>6. CountsTyped'  BY <1>2 DEF RestTyped, CountsTyped, ecn, own
<1>7. RestTyped'  BY <1>2, <1>3, <1>6 DEF RestTyped
<1>8. NetFramed(b)'
  <2>1. IsABag(net') /\ DOMAIN net' \subseteq DOMAIN net  BY <1>2, <1>3, Removed DEF NetFramed
  <2>2. QED  BY <1>2, <1>3, <2>1 DEF NetFramed, DataPacket, InFrame
<1>9. AcksFramed(b)'
  <2>1. IsABag(acks') /\ DOMAIN acks' = DOMAIN acks \cup {cumAck'}
    BY <1>2, <1>3, Added DEF AcksFramed
  <2>2. ASSUME NEW a \in DOMAIN acks'
        PROVE  /\ a \in 0..cumAck' /\ (a < FlowSize => InFrame(b, a))
               /\ established' \/ a = 1
    <3>1. CASE a \in DOMAIN acks
      <4>1. a \in 0..cumAck /\ (a < FlowSize => InFrame(b, a)) /\ (established \/ a = 1)
        BY <1>2, <3>1 DEF AcksFramed
      <4>2. QED  BY <1>3, <1>4, <1>5, <4>1
    <3>2. CASE a = cumAck'  BY <1>3, <1>4, <3>2
    <3>3. QED  BY <2>1, <3>1, <3>2
  <2>3. QED  BY <2>1, <2>2 DEF AcksFramed, InFrame
<1>10. SourceFramed(b)'
  <2>1. highestSent # 0
    <3>1. net # EmptyBag  BY <1>1, NoElement
    <3>2. QED  BY <1>2, <3>1 DEF SourceFramed
  <2>2. lastAcked' <= cumAck'  BY <1>2, <1>3, <1>4, <1>5 DEF SourceFramed
  <2>3. QED  BY <1>2, <1>3, <2>1, <2>2 DEF SourceFramed, InFrame, WindowsOK
<1>11. TimerWhileRunning' /\ RecoveryCanEnd'
  BY <1>2, <1>3 DEF TimerWhileRunning, RecoveryCanEnd
<1>12. QED  BY <1>4, <1>7, <1>8, <1>9, <1>10, <1>11 DEF Framed

-----------------------------------------------------------------------------
(* The invariant, and what follows from it *)

\* A flow without a SYN has its data from byte 1 on, one with a SYN from 2 on.
LEMMA InitIInv == MCInit => IInv
<1> SUFFICES ASSUME MCInit  PROVE IInv  OBVIOUS
<1>1. PICK b \in {0, 1} : b = IF established THEN 0 ELSE 1  OBVIOUS
<1>2. /\ Mss \in Nat \ {0} /\ FlowSize \in Nat /\ FlowSize >= Mss
      /\ Top \in Nat /\ NoThreshold \in Nat /\ MaxFaults \in Nat
  BY TCPAssumption DEF Top
<1>3. /\ TCPInit /\ ownCwnd = 0 /\ lastSeqAI = 0
      /\ seen = [s \in Slices |-> 0] /\ marked = [s \in Slices |-> FALSE]
      /\ alfa = [s \in Slices |-> FALSE] /\ pastCwnd = [s \in Slices |-> 0]
  BY DEF MCInit, RateInit, ClosTCPInit, Init
<1>4. CountsTyped  BY <1>2, <1>3 DEF CountsTyped
<1>5. /\ established \in BOOLEAN /\ bypass \in BOOLEAN
      /\ highestSent = 0 /\ lastAcked = 0 /\ dupacks = 0 /\ recoverq = 0 /\ inRecovery = FALSE
      /\ timer = FALSE /\ rtxPending = FALSE /\ finished = FALSE
      /\ cumAck = 0 /\ received = <<>> /\ arrived = {}
      /\ net = EmptyBag /\ acks = EmptyBag /\ faults = 0
      /\ cwnd = [s \in Slices |-> 0] /\ ssthresh = [s \in Slices |-> 0]
  BY <1>3, TCPAssumption DEF TCPInit
<1>6. RestTyped
  <2>1. /\ cwnd \in [Slices -> 0..Top] /\ ssthresh \in [Slices -> 0..NoThreshold]
        /\ dupacks \in 0..4 /\ recoverq \in 0..(FlowSize + Mss) /\ faults \in 0..MaxFaults
    BY <1>2, <1>5
  <2>2. /\ inRecovery \in BOOLEAN /\ timer \in BOOLEAN /\ rtxPending \in BOOLEAN
        /\ finished \in BOOLEAN
    BY <1>5
  <2>3. QED  BY <1>4, <1>5, <2>1, <2>2 DEF RestTyped
<1>7. NetFramed(b) /\ AcksFramed(b)  BY <1>5, NoElement DEF NetFramed, AcksFramed
<1>8. established => InFrame(b, 0)  BY <1>1, FrameBase
<1>9. SinkFramed(b)
  <2>1. received \in Seq(1..FlowSize) /\ Len(received) = 0  BY <1>5
  <2>2. 1..Least(cumAck, FlowSize) = {}  BY <1>2, <1>5 DEF Least
  <2>3. QED  BY <1>1, <1>2, <1>5, <1>8, <2>1, <2>2 DEF SinkFramed
<1>10. SourceFramed(b)  BY <1>1, <1>2, <1>5, <1>8 DEF SourceFramed
<1>11. TimerWhileRunning /\ RecoveryCanEnd
  BY <1>5 DEF TimerWhileRunning, RecoveryCanEnd
<1>12. QED  BY <1>6, <1>7, <1>9, <1>10, <1>11 DEF IInv, Framed

\* Every step keeps it, with the same first byte of data.
LEMMA NextFramed ==
  ASSUME NEW b \in {0, 1}, Framed(b), MCNext
  PROVE  Framed(b)'
<1>1. ownCwnd \in 0..NoThreshold /\ lastSeqAI \in Nat
  BY DEF Framed, RestTyped, CountsTyped
<1>2. CASE StartsFlow
  <2>1. ASSUME Opera, NEW s \in Slices, StartFlow(s)  PROVE Framed(b)'
    BY <2>1, StartFlowStep DEF Opera
  <2>2. CASE Clos /\ ClosStartFlow
    BY <1>1, <2>2, ClosStartsStep DEF Clos, own
  <2>3. CASE HPCCStartFlow \/ BoltStartFlow
    <3>1. 0 \in 0..NoThreshold /\ BoltCwnd \in 0..NoThreshold
      BY TCPAssumption, RateAssumption
    <3>2. QED  BY <2>3, <3>1, RateStartsStep DEF HPCCStartFlow, BoltStartFlow
  <2>4. CASE ClosHPCCStartFlow
    BY <1>1, <2>4, ClosStartsStep DEF ClosHPCCStartFlow, own
  <2>5. CASE ClosBoltStartFlow
    <3>1. InitCwnd \in 0..NoThreshold  BY TCPAssumption
    <3>2. QED  BY <1>1, <2>5, <3>1, ClosStartsStep DEF ClosBoltStartFlow
  <2>6. QED  BY <1>2, <2>1, <2>2, <2>3, <2>4, <2>5 DEF StartsFlow
<1>3. CASE Timeouts
  <2>1. ASSUME Opera, NEW s \in Slices, Timeout(s)  PROVE Framed(b)'
    BY <2>1, DCTCPTimeoutStep DEF Opera
  <2>2. CASE Clos /\ ClosTimeout  BY <2>2, ClosTimeoutStep DEF Clos
  <2>3. CASE HPCCTimeout \/ BoltTimeout  BY <2>3, RateTimeoutStep
  <2>4. CASE ClosRateTimeout  BY <2>4, ClosTimeoutStep DEF ClosRateTimeout
  <2>5. QED  BY <1>3, <2>1, <2>2, <2>3, <2>4 DEF Timeouts
<1>4. CASE Timers
  <2>1. RtxTimerHook /\ UNCHANGED <<ecn, own>>
    BY <1>4 DEF Timers, Opera, Clos, ClosTimerHook
  <2>2. QED  BY <2>1, TimerHookStep
<1>5. CASE ReceivesAck
  <2>1. ASSUME Opera, NEW a \in BagToSet(acks), NEW w \in Slices, NEW s \in Slices,
               NEW e \in BOOLEAN, ReceiveAck(a, w, s, e)
        PROVE  Framed(b)'
    BY <2>1, ReceiveAckStep DEF Opera
  <2>2. ASSUME Clos, NEW a \in BagToSet(acks), NEW e \in BOOLEAN, ClosReceiveAck(a, e)
        PROVE  Framed(b)'
    BY <2>2, ClosReceiveAckStep DEF Clos
  <2>3. ASSUME NEW a \in BagToSet(acks), HPCCReceiveAck(a)  PROVE Framed(b)'
    BY <2>3, HPCCReceiveAckStep
  <2>4. ASSUME NEW a \in BagToSet(acks), NEW i \in BOOLEAN, BoltReceiveAck(a, i)
        PROVE  Framed(b)'
    BY <2>4, BoltReceiveAckStep
  <2>5. ASSUME NEW a \in BagToSet(acks), ClosHPCCReceiveAck(a)  PROVE Framed(b)'
    BY <2>5, ClosHPCCReceiveAckStep
  <2>6. ASSUME NEW a \in BagToSet(acks), NEW i \in BOOLEAN, ClosBoltReceiveAck(a, i)
        PROVE  Framed(b)'
    BY <2>6, ClosBoltReceiveAckStep
  <2>7. QED  BY <1>5, <2>1, <2>2, <2>3, <2>4, <2>5, <2>6 DEF ReceivesAck
<1>6. CASE ReceivesData
  <2>1. PICK p \in BagToSet(net) : ReceiveData(p) /\ UNCHANGED <<ecn, own>>
    BY <1>6 DEF ReceivesData, Opera, Clos, ClosReceiveData
  <2>2. QED  BY <2>1, ReceiveDataStep
<1>7. CASE Loses
  <2>1. Lose /\ UNCHANGED <<ecn, own>>  BY <1>7 DEF Loses, Opera, Clos, ClosLose
  <2>2. QED  BY <2>1, LoseStep
<1>8. CASE EarlyFeedback  BY <1>8, HandleSRCStep DEF EarlyFeedback
<1>9. CASE MCOver
  <2>1. UNCHANGED <<vars, own>>  BY <1>9 DEF MCOver, Over
  <2>2. QED  BY <1>1, <2>1, OwnStep DEF own
<1>10. QED  BY <1>2, <1>3, <1>4, <1>5, <1>6, <1>7, <1>8, <1>9 DEF MCNext

\* The induction step of the invariant.
LEMMA NextIInv == IInv /\ [MCNext]_mcVars => IInv'
<1> SUFFICES ASSUME IInv, [MCNext]_mcVars  PROVE IInv'  OBVIOUS
<1>1. PICK b \in {0, 1} : Framed(b)  BY DEF IInv
<1>2. Framed(b)'
  <2>1. CASE UNCHANGED mcVars
    <3>1. UNCHANGED vars /\ ownCwnd' = ownCwnd /\ lastSeqAI' = lastSeqAI
      BY <2>1 DEF mcVars, rateVars, own
    <3>2. ownCwnd \in 0..NoThreshold  BY <1>1 DEF Framed, RestTyped, CountsTyped
    <3>3. QED  BY <1>1, <3>1, <3>2, OwnStep
  <2>2. QED  BY <1>1, <2>1, NextFramed
<1>3. QED  BY <1>2 DEF IInv

\* Every packet, ack and block starts a whole number of packets after the
\* first byte of data, in every reachable state.
THEOREM TCPInvariance == MCFairSpec => []IInv
<1>1. MCFairSpec => MCInit /\ [][MCNext]_mcVars  BY PTL DEF MCFairSpec
<1>2. QED  BY <1>1, InitIInv, NextIInv, PTL

\* What the invariant says of the properties that the runs check.
LEMMA FramedFacts ==
  ASSUME NEW b \in {0, 1}, Framed(b)
  PROVE  Inv /\ RecoveryCanEnd /\ AckedArrived
<1>1. /\ Mss \in Nat \ {0} /\ FlowSize \in Nat /\ FlowSize >= Mss /\ Top = MaxCwnd + 3 * Mss
      /\ MaxCwnd \in Nat
  BY TCPAssumption DEF Top
<1>2. /\ RestTyped /\ NetFramed(b) /\ AcksFramed(b) /\ SinkFramed(b) /\ SourceFramed(b)
      /\ TimerWhileRunning /\ RecoveryCanEnd
  BY DEF Framed
<1>3. TypeOK
  <2>1. highestSent \in 0..(FlowSize + 2 * Mss) /\ lastAcked \in 0..FlowSize
        /\ recoverq \in 0..(FlowSize + 2 * Mss) /\ cumAck \in 0..(FlowSize + 2 * Mss)
    BY <1>1, <1>2 DEF SourceFramed, SinkFramed, RestTyped
  <2>2. received \in Seq(1..(FlowSize + Mss))
    <3>1. received \in Seq(1..FlowSize)  BY <1>2 DEF SinkFramed
    <3>2. 1..FlowSize \subseteq 1..(FlowSize + Mss)  BY <1>1
    <3>3. \A i \in 1..Len(received) : received[i] \in 1..(FlowSize + Mss)
      BY <3>1, <3>2, ElementOfSeq
    <3>4. received = [i \in 1..Len(received) |-> received[i]] /\ Len(received) \in Nat
      BY <3>1, LenProperties
    <3>5. PICK n \in Nat : n = Len(received)  BY <3>4
    <3>6. received \in [1..n -> 1..(FlowSize + Mss)]  BY <3>3, <3>4, <3>5
    <3>7. QED  BY <3>6, SeqDef
  <2>3. {established, bypass, inRecovery, timer, rtxPending, finished} \subseteq BOOLEAN
    BY <1>2 DEF RestTyped
  <2>4. cwnd \in [Slices -> 0..(MaxCwnd + 3 * Mss)]  BY <1>1, <1>2 DEF RestTyped
  <2>5. QED
    BY <1>2, <2>1, <2>2, <2>3, <2>4 DEF TypeOK, RestTyped, CountsTyped, NetFramed, AcksFramed
<1>4. RoomForAPacket
  <2>1. highestSent > 0 => WindowsOK(cwnd, ssthresh)  BY <1>2 DEF SourceFramed
  <2>2. QED  BY <1>1, <2>1 DEF RoomForAPacket, WindowsOK
<1>5. AckedArrived
  <2>1. \A a \in BagToSet(acks) : a <= cumAck
    <3>1. \A a \in DOMAIN acks : a \in 0..cumAck  BY <1>2 DEF AcksFramed
    <3>2. cumAck \in Nat  BY <1>1, <1>2 DEF SinkFramed
    <3>3. QED  BY <3>1, <3>2 DEF BagToSet
  <2>2. QED  BY <1>2, <2>1 DEF AckedArrived, SinkFramed, SourceFramed
<1>6. QED  BY <1>2, <1>3, <1>4, <1>5 DEF Inv

\* A flow of TCP, DCTCP, HPCC or Bolt that runs has its timer set or the event
\* of it scheduled, and every window has room for a packet, however it was cut,
\* deflated or computed: a timeout always sends one.
THEOREM TCPTimerAndWindows == MCFairSpec => []Inv
<1>1. IInv => Inv  BY FramedFacts DEF IInv
<1>2. QED  BY <1>1, TCPInvariance, PTL

\* A recovery under way has data outstanding whose ack ends it.
THEOREM TCPRecoveryCanEnd == MCFairSpec => []RecoveryCanEnd
<1>1. IInv => RecoveryCanEnd  BY FramedFacts DEF IInv
<1>2. QED  BY <1>1, TCPInvariance, PTL

\* What the source takes for acknowledged, and what the sink acknowledges, has
\* come, though the sink joins blocks by the size of another packet.
THEOREM TCPAckedArrived == MCFairSpec => []AckedArrived
<1>1. IInv => AckedArrived  BY FramedFacts DEF IInv
<1>2. QED  BY <1>1, TCPInvariance, PTL

-----------------------------------------------------------------------------
(* The promise of FlowTransfer *)

\* What a step may do to what has come and to whether the flow has finished.
Transfers ==
  /\ arrived \subseteq arrived'
  /\ \/ finished' = finished
     \/ ~finished /\ finished' = TRUE /\ 1..FlowSize \subseteq arrived'

\* An ack ends the flow only when it covers all of it.
LEMMA AckTransfers ==
  ASSUME NEW b \in {0, 1}, Framed(b), NEW a \in BagToSet(acks),
         \/ \E w, s, cw, ss : Acknowledged(a, w, s, cw, ss)
         \/ \E r : ClosAcknowledged(a, r)
  PROVE  Transfers
<1>1. arrived' = arrived  BY DEF Acknowledged, ClosAcknowledged, sink
<1>2. \/ finished' = finished
      \/ ~finished /\ finished' = AllAcked(a)
      \/ ~finished /\ finished' = (finished \/ AllAcked(a))
  <2>1. finished \in BOOLEAN  BY DEF Framed, RestTyped
  <2>2. ASSUME NEW w, NEW s, NEW cw, NEW ss, Acknowledged(a, w, s, cw, ss)
        PROVE  finished' = finished \/ (~finished /\ finished' = AllAcked(a))
    BY <2>2 DEF Acknowledged
  <2>3. ASSUME NEW r, ClosAcknowledged(a, r)
        PROVE  finished' = finished \/ (~finished /\ finished' = (finished \/ AllAcked(a)))
    <3>1. finished' = (finished \/ (~ (finished \/ a < lastAcked) /\ AllAcked(a)))
      BY <2>3 DEF ClosAcknowledged
    <3>2. AllAcked(a) \in BOOLEAN  BY DEF AllAcked
    <3>3. CASE finished \/ a < lastAcked  BY <2>1, <3>1, <3>3
    <3>4. CASE ~ (finished \/ a < lastAcked)  BY <2>1, <3>1, <3>2, <3>4
    <3>5. QED  BY <3>3, <3>4
  <2>4. QED  BY <2>2, <2>3
<1>3. finished \in BOOLEAN /\ AllAcked(a) \in BOOLEAN  BY DEF Framed, RestTyped, AllAcked
<1>4. AllAcked(a) => 1..FlowSize \subseteq arrived
  <2>1. FlowSize \in Nat  BY TCPAssumption
  <2>2. a \in 0..cumAck /\ cumAck \in Nat /\ 1..Least(cumAck, FlowSize) \subseteq arrived
    BY TCPAssumption DEF Framed, AcksFramed, SinkFramed, BagToSet
  <2>3. AllAcked(a) => Least(cumAck, FlowSize) = FlowSize  BY <2>1, <2>2 DEF AllAcked, Least
  <2>4. QED  BY <2>2, <2>3
<1>5. CASE AllAcked(a)
  BY <1>1, <1>2, <1>3, <1>4, <1>5 DEF Transfers
<1>6. CASE ~AllAcked(a)
  BY <1>1, <1>2, <1>3, <1>6 DEF Transfers
<1>7. QED  BY <1>5, <1>6

\* Every step transfers, finishes the flow or does neither.
LEMMA NextTransfers ==
  ASSUME NEW b \in {0, 1}, Framed(b), MCNext
  PROVE  Transfers
<1>1. ASSUME UNCHANGED <<arrived, finished>>  PROVE Transfers
  BY <1>1 DEF Transfers
<1>2. CASE StartsFlow
  <2>1. UNCHANGED <<arrived, finished>>
    BY <1>2 DEF StartsFlow, StartFlow, ClosStartFlow, HPCCStartFlow, BoltStartFlow, RateStarts,
                ClosHPCCStartFlow, ClosBoltStartFlow, sink
  <2>2. QED  BY <1>1, <2>1
<1>3. CASE Timeouts
  <2>1. UNCHANGED <<arrived, finished>>
    BY <1>3 DEF Timeouts, Timeout, HPCCTimeout, BoltTimeout, TimesOut, ClosTimeout,
                ClosRateTimeout, ClosTimesOut, sink
  <2>2. QED  BY <1>1, <2>1
<1>4. CASE Timers
  <2>1. RtxTimerHook  BY <1>4 DEF Timers, ClosTimerHook
  <2>2. QED  BY <1>1, <2>1 DEF RtxTimerHook, sink
<1>5. CASE ReceivesAck
  <2>1. PICK a \in BagToSet(acks) :
          \/ \E w, s, cw, ss : Acknowledged(a, w, s, cw, ss)
          \/ \E r : ClosAcknowledged(a, r)
    <3>1. ASSUME NEW a \in BagToSet(acks), NEW w, NEW s, NEW e, ReceiveAck(a, w, s, e)
          PROVE  \E v, t, cw, ss : Acknowledged(a, v, t, cw, ss)
      BY <3>1 DEF ReceiveAck
    <3>2. ASSUME NEW a \in BagToSet(acks), HPCCReceiveAck(a)
          PROVE  \E v, t, cw, ss : Acknowledged(a, v, t, cw, ss)
      BY <3>2 DEF HPCCReceiveAck
    <3>3. ASSUME NEW a \in BagToSet(acks), NEW i, BoltReceiveAck(a, i)
          PROVE  \E v, t, cw, ss : Acknowledged(a, v, t, cw, ss)
      BY <3>3 DEF BoltReceiveAck
    <3>4. ASSUME NEW a \in BagToSet(acks), NEW e,
                 \/ ClosReceiveAck(a, e) \/ ClosHPCCReceiveAck(a) \/ ClosBoltReceiveAck(a, e)
          PROVE  \E r : ClosAcknowledged(a, r)
      BY <3>4 DEF ClosReceiveAck, ClosHPCCReceiveAck, ClosBoltReceiveAck
    <3>5. QED  BY <1>5, <3>1, <3>2, <3>3, <3>4 DEF ReceivesAck
  <2>2. QED  BY <2>1, AckTransfers
<1>6. CASE ReceivesData
  <2>1. PICK p \in BagToSet(net) : ReceiveData(p)
    BY <1>6 DEF ReceivesData, ClosReceiveData
  <2>2. QED  BY <2>1 DEF ReceiveData, source, Transfers
<1>7. CASE Loses
  <2>1. Lose  BY <1>7 DEF Loses, ClosLose
  <2>2. QED  BY <1>1, <2>1 DEF Lose, source, sink
<1>8. CASE EarlyFeedback
  <2>1. UNCHANGED vars  BY <1>8 DEF EarlyFeedback, HandleSRC, ClosHandleSRC
  <2>2. QED  BY <1>1, <2>1 DEF vars, source, sink
<1>9. CASE MCOver
  BY <1>1, <1>9 DEF MCOver, Over, vars, source, sink
<1>10. QED  BY <1>2, <1>3, <1>4, <1>5, <1>6, <1>7, <1>8, <1>9 DEF MCNext

\* A flow of TCP, DCTCP, HPCC or Bolt implements the promise of a transport:
\* what has come stays, and the flow finishes only when all of it has.
THEOREM TCPImplementsFlowTransfer == MCFairSpec => ImplementsTransfer
<1>1. MCInit => Flow!Init
  <2> SUFFICES ASSUME MCInit  PROVE Flow!Init  OBVIOUS
  <2>1. arrived = {} /\ finished = FALSE
    BY DEF MCInit, RateInit, ClosTCPInit, Init, TCPInit
  <2>2. QED  BY <2>1 DEF Flow!Init
<1>2. IInv /\ [MCNext]_mcVars => [Flow!Deliver \/ Flow!GiveUp]_Flow!vars
  <2>1. ASSUME IInv, MCNext  PROVE Transfers
    BY <2>1, NextTransfers DEF IInv
  <2>2. ASSUME UNCHANGED mcVars  PROVE Transfers
    BY <2>2 DEF Transfers, mcVars, rateVars, vars, source, sink
  <2>3. ASSUME Transfers
        PROVE  [Flow!Deliver \/ Flow!GiveUp]_Flow!vars
    <3>1. /\ (arrived \cap 1..(FlowSize + 1))' \subseteq 1..(FlowSize + 1)
          /\ arrived \cap 1..(FlowSize + 1) \subseteq (arrived \cap 1..(FlowSize + 1))'
      BY <2>3 DEF Transfers
    <3>2. CASE finished' = finished
      BY <3>1, <3>2 DEF Flow!Deliver, Flow!vars
    <3>3. CASE ~finished /\ finished' = TRUE /\ 1..FlowSize \subseteq arrived'
      <4>1. 1..FlowSize \subseteq (arrived \cap 1..(FlowSize + 1))'
        BY <3>3, TCPAssumption
      <4>2. QED  BY <3>1, <3>3, <4>1 DEF Flow!Deliver, Flow!vars
    <3>4. QED  BY <2>3, <3>2, <3>3 DEF Transfers
  <2>4. QED  BY <2>1, <2>2, <2>3
<1>3. MCFairSpec => MCInit /\ [][MCNext]_mcVars  BY PTL DEF MCFairSpec
<1>4. ImplementsTransfer <=> Flow!Spec  BY DEF ImplementsTransfer
<1>5. QED  BY <1>1, <1>2, <1>3, <1>4, TCPInvariance, PTL DEF Flow!Spec

=============================================================================
