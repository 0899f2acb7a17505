---------------------------- MODULE QueueProofs -----------------------------
(***************************************************************************)
(* Theorems about the trimming queue and the queues of TCP flows, and      *)
(* about the network of queues of hop-by-hop backpressure, for every value *)
(* of their constants.                                                     *)
(***************************************************************************)
EXTENDS MCQueues, HbH, PacketListFacts, FiniteSetTheorems

-----------------------------------------------------------------------------
(* The inductive invariants *)

Smallest == Min(DataSizes)
Largest  == Max(DataSizes)

\* The packet in service is at the head of its queue, and timed.
Served ==
  /\ serv = "low" => low # <<>> /\ Head(low) = timed
  /\ serv = "high" => high > 0 /\ timed = Header

\* What a turn has given to the queue that is served, while the other waits:
\* _crt has counted every packet of it, and had not reached the end of its
\* share before the last one.
HeadersPass ==
  passed.queue = "high" /\ passed.count > 0 =>
    /\ low # <<>> /\ serv \in {"low", "high"}
    /\ passed.count <= Rounds(RatioHigh, Header) + 1
    /\ serv = "high" =>
         /\ passed.count <= Rounds(RatioHigh, Header)
         /\ crt >= passed.count * Header /\ crt < RatioHigh + RatioLow

DataPasses ==
  passed.queue = "low" /\ passed.count > 0 =>
    /\ high > 0 /\ serv \in {"low", "high"}
    /\ passed.count <= Rounds(RatioLow, Smallest) + 1
    /\ serv = "low" =>
         /\ passed.count <= Rounds(RatioLow, Smallest)
         /\ crt >= RatioHigh + passed.count * Smallest

TrimIInv == Inv /\ Served /\ HeadersPass /\ DataPasses

\* The packet in service is at the head of its level, and timed; without a
\* service nothing is left to time.
InService ==
  /\ servicing = "none" => timedFor = 0
  /\ servicing # "none" =>
       enqueued[servicing] # <<>> /\ Head(enqueued[servicing]).size = timedFor

\* Only an ECNQueue notes that it is over the threshold, and then it still is.
StillOver == over => kind \in {"ecn", "closecn"} /\ QueueSize(enqueued) > Threshold

\* Once data has passed an ack, the ack is served.
AckIsNext == overtaken = 0 \/ (overtaken = 1 /\ servicing = "hi")

SignalIInv == SignalInv /\ InService /\ StillOver /\ AckIsNext

IInv == TrimIInv /\ SignalIInv

-----------------------------------------------------------------------------
(* Numbers and lists *)

\* Sizes and shares are numbers, and the sizes of data have bounds.
LEMMA Sizes ==
  /\ Header \in Nat \ {0} /\ RatioHigh \in Nat \ {0} /\ RatioLow \in Nat \ {0}
  /\ MaxSize \in Nat /\ Header <= MaxSize /\ Header <= RatioLow
  /\ DataSizes \subseteq Nat
  /\ \A d \in DataSizes : d \in Nat \ {0} /\ d <= MaxSize /\ Smallest <= d /\ d <= Largest
  /\ Smallest \in DataSizes /\ Largest \in DataSizes /\ Header <= Largest
<1>1. /\ Header \in Nat \ {0} /\ RatioHigh \in Nat \ {0} /\ RatioLow \in Nat \ {0}
      /\ MaxSize \in Nat /\ Header <= MaxSize /\ Header <= RatioLow
  BY TrimAssumption, TurnAssumption
<1>2. \A d \in DataSizes : d \in Nat \ {0} /\ d <= MaxSize /\ Header <= d
  BY <1>1, TrimAssumption
<1>3. Smallest \in DataSizes /\ \A d \in DataSizes : Smallest <= d
  <2>1. DataSizes \in SUBSET Nat /\ DataSizes # {}  BY <1>2, TrimAssumption
  <2>2. \E x \in DataSizes : \A y \in DataSizes : x <= y  BY <2>1, LeastElement
  <2>3. QED  BY <2>2 DEF Smallest, Min
<1>4. Largest \in DataSizes /\ \A d \in DataSizes : d <= Largest
  <2> DEFINE Room == {MaxSize - d : d \in DataSizes}
  <2>1. Room \in SUBSET Nat /\ Room # {}
    <3>1. \A d \in DataSizes : MaxSize - d \in Nat  BY <1>1, <1>2
    <3>2. MaxSize - Smallest \in Room  BY <1>3
    <3>3. QED  BY <3>1, <3>2
  <2>2. PICK x \in Room : \A y \in Room : x <= y  BY <2>1, LeastElement
  <2>3. PICK d \in DataSizes : x = MaxSize - d  BY <2>2
  <2>4. ASSUME NEW e \in DataSizes  PROVE d >= e
    <3>1. MaxSize - d <= MaxSize - e  BY <2>2, <2>3
    <3>2. d \in Nat /\ e \in Nat  BY <1>2, <2>3
    <3>3. QED  BY <1>1, <3>1, <3>2
  <2>5. \E m \in DataSizes : \A y \in DataSizes : m >= y  BY <2>4
  <2>6. Largest \in DataSizes /\ \A y \in DataSizes : Largest >= y  BY <2>5 DEF Largest, Max
  <2>7. QED  BY <1>2, <2>6
<1>5. Header <= Largest  BY <1>2, <1>4
<1>6. QED  BY <1>1, <1>2, <1>3, <1>4, <1>5

\* If all but the last of c packets of b bytes left room in a share of a
\* bytes, there are no more of them than fill it.
LEMMA RoundsBound ==
  ASSUME NEW a \in Nat \ {0}, NEW b \in Nat \ {0}
  PROVE  /\ Rounds(a, b) \in Nat \ {0}
         /\ \A c \in Nat : c * b < a => c + 1 <= Rounds(a, b)
<1>1. PICK n \in Nat : n = a + b - 1 /\ a + b - 1 = n  OBVIOUS
<1>2. PICK q \in Nat, r \in 0..(b - 1) : q = n \div b /\ n = q * b + r
  BY Division
<1>3. Rounds(a, b) = q  BY <1>1, <1>2 DEF Rounds
<1>4. ASSUME NEW c \in Nat, c * b < a  PROVE c + 1 <= q
  <2>1. SUFFICES ASSUME q < c + 1  PROVE FALSE  BY <1>2
  <2>2. q * b <= c * b
    <3>1. CASE q < c  BY <3>1, MultiplesApart
    <3>2. CASE q = c
      <4>1. q * b \in Int  OBVIOUS
      <4>2. QED  BY <3>2, <4>1
    <3>3. QED  BY <2>1, <3>1, <3>2
  <2>3. PICK x \in Int, y \in Int : x = q * b /\ y = c * b  OBVIOUS
  <2>4. x <= y /\ y < a /\ n = x + r  BY <1>2, <1>4, <2>2, <2>3
  <2>5. QED  BY ONLY <1>1, <2>4, x \in Int, y \in Int, a \in Nat \ {0}, b \in Nat \ {0},
                     n \in Nat, r \in 0..(b - 1)
<1>5. 0 * b < a  OBVIOUS
<1>6. QED  BY <1>3, <1>4, <1>5

\* The data of a list is counted in bytes.
LEMMA DataTypes ==
  ASSUME NEW l \in Seq(DataSizes)
  PROVE  /\ l \in Seq(Nat) /\ l \in Seq(Int) /\ Bytes(l) \in Nat
         /\ l = <<>> => Bytes(l) = 0
         /\ l # <<>> => Head(l) \in DataSizes /\ Tail(l) \in Seq(DataSizes)
                        /\ Bytes(Tail(l)) <= Bytes(l)
<1>1. l \in Seq(Nat)
  <2>1. Len(l) \in Nat /\ l = [i \in 1..Len(l) |-> l[i]] /\ \A i \in 1..Len(l) : l[i] \in DataSizes
    BY LenProperties, ElementOfSeq
  <2>2. l \in [1..Len(l) -> Nat]  BY <2>1, Sizes
  <2>3. QED  BY <2>1, <2>2, SeqDef
<1>2. l \in Seq(Int) /\ Bytes(l) \in Nat  BY <1>1, SumNat DEF Bytes
<1>3. l = <<>> => Bytes(l) = 0  BY <1>2, SumTypes DEF Bytes
<1>4. ASSUME l # <<>>
      PROVE  Head(l) \in DataSizes /\ Tail(l) \in Seq(DataSizes) /\ Bytes(Tail(l)) <= Bytes(l)
  <2>1. Head(l) \in DataSizes /\ Tail(l) \in Seq(DataSizes)  BY <1>4, HeadTailProperties
  <2>2. Bytes(l) = Head(l) + Bytes(Tail(l)) /\ Tail(l) \in Seq(Int)
    BY <1>2, <1>4, SumHead DEF Bytes
  <2>3. Bytes(Tail(l)) \in Int /\ Head(l) \in Nat  BY <2>1, <2>2, SumTypes, Sizes DEF Bytes
  <2>4. QED  BY <2>1, <2>2, <2>3
<1>5. QED  BY <1>1, <1>2, <1>3, <1>4

\* What joins is counted.
LEMMA DataJoins ==
  ASSUME NEW l \in Seq(DataSizes), NEW size \in DataSizes
  PROVE  /\ Append(l, size) \in Seq(DataSizes) /\ Append(l, size) # <<>>
         /\ Bytes(Append(l, size)) = Bytes(l) + size
         /\ l # <<>> => Head(Append(l, size)) = Head(l)
<1>1. size \in Nat /\ l \in Seq(Int)  BY Sizes, DataTypes
<1>2. PICK a : a = Append(l, size)  OBVIOUS
<1>3. /\ a \in Seq(DataSizes) /\ Len(a) = Len(l) + 1 /\ Len(l) \in Nat
      /\ \A i \in 1..Len(l) : a[i] = l[i]
  BY <1>2, AppendProperties, LenProperties
<1>4. a # <<>>  BY <1>3, EmptySeq
<1>5. Bytes(a) = Bytes(l) + size  BY <1>1, <1>2, SumAppend DEF Bytes
<1>6. l # <<>> => Head(a) = Head(l)
  <2>1. SUFFICES ASSUME l # <<>>  PROVE Head(a) = Head(l)  OBVIOUS
  <2>2. Head(a) = a[1] /\ Head(l) = l[1] /\ Len(l) # 0
    BY <1>3, <1>4, <2>1, HeadTailProperties, EmptySeq
  <2>3. QED  BY <1>3, <2>2
<1>7. QED  BY <1>2, <1>3, <1>4, <1>5, <1>6

\* A list with a packet for which another has no room holds two at least; if
\* its last one is cut, it keeps its head and grows no longer.
LEMMA DataCut ==
  ASSUME low \in Seq(DataSizes), NEW size \in DataSizes,
         ~ Fits(size), MakesRoom(size)
  PROVE  /\ LastCut(size) \in Seq(DataSizes) /\ LastCut(size) # <<>> /\ low # <<>>
         /\ Bytes(LastCut(size)) <= Bytes(low)
         /\ Len(LastCut(size)) = Len(low) /\ Head(LastCut(size)) = Head(low)
<1>1. low # <<>>
  <2>1. low = <<>> => Bytes(low) = 0  BY DataTypes
  <2>2. QED  BY <2>1, Sizes DEF Fits
<1>2. PICK n \in Nat \ {0} : n = Len(low)  BY <1>1, EmptySeq, LenProperties
<1>3. PICK f : f = Front(low) /\ f = SubSeq(low, 1, n - 1)  BY <1>2 DEF Front
<1>4. f \in Seq(DataSizes) /\ Len(f) = n - 1 /\ \A i \in 1..(n - 1) : f[i] = low[i]
  <2>1. 1 \in 1..(n + 1) /\ n - 1 \in 0..n  BY <1>2
  <2>2. f \in Seq(DataSizes) /\ Len(f) = n - 1  BY <1>2, <1>3, SubSeqProperties
  <2>3. \A i \in 1..(n - 1) : f[i] = low[1 + i - 1]  BY <1>2, <1>3, SubSeqProperties
  <2>4. QED  BY <1>2, <2>2, <2>3
<1>5. PICK x \in DataSizes : x = Last(low) /\ x = low[n]
  <2>1. low[n] \in DataSizes  BY <1>2, ElementOfSeq
  <2>2. QED  BY <1>2, <2>1 DEF Last
<1>6. low = Append(f, x)
  <2>1. PICK a : a = Append(f, x)  OBVIOUS
  <2>2. /\ a \in Seq(DataSizes) /\ Len(a) = n /\ a[n] = x
        /\ \A i \in 1..(n - 1) : a[i] = f[i]
    BY <1>2, <1>4, <2>1, AppendProperties
  <2>3. \A i \in 1..n : low[i] = a[i]  BY <1>2, <1>4, <1>5, <2>2
  <2>4. QED  BY <1>2, <2>1, <2>2, <2>3, SeqEqual
<1>7. Bytes(low) = Bytes(f) + x /\ Bytes(f) \in Nat  BY <1>4, <1>6, DataJoins, DataTypes
<1>8. x >= size  BY <1>5 DEF MakesRoom
<1>9. f # <<>>
  <2>1. SUFFICES ASSUME f = <<>>  PROVE FALSE  OBVIOUS
  <2>2. Bytes(low) = x
    <3>1. Bytes(f) = 0  BY <1>4, <2>1, DataTypes
    <3>2. QED  BY <1>5, <1>7, <3>1, Sizes
  <2>3. x + size <= MaxSize  BY <1>5, RoomAssumption
  <2>4. QED  BY <2>2, <2>3 DEF Fits
<1>10. PICK a : a = LastCut(size) /\ a = Append(f, size)  BY <1>3 DEF LastCut
<1>11. /\ a \in Seq(DataSizes) /\ a # <<>> /\ Bytes(a) = Bytes(f) + size
       /\ Head(a) = Head(f) /\ Head(low) = Head(f)
  BY <1>4, <1>5, <1>6, <1>9, <1>10, DataJoins
<1>12. Len(a) = n  BY <1>2, <1>4, <1>10, AppendProperties
<1>13. Bytes(a) <= Bytes(low)  BY <1>5, <1>7, <1>8, <1>11, Sizes
<1>14. QED  BY <1>1, <1>2, <1>10, <1>11, <1>12, <1>13

-----------------------------------------------------------------------------
(* The trimming queue: the service *)

\* The service of lists l, h and r has begun.
Begun(l, h, r) ==
  /\ serv' \in {"low", "high", "rlb"} /\ timed' \in Nat
  /\ crt' \in 0..(RatioHigh + RatioLow + Largest)
  /\ serv' = "low" => l # <<>> /\ Head(l) = timed'
  /\ serv' = "high" => h > 0 /\ timed' = Header
  /\ serv' = "rlb" => l = <<>> /\ h = 0
  /\ ~ AllEmpty(l, h, r)

\* What is begun goes by what the turn has counted so far.
ByTurn(l, h) ==
  /\ l # <<>> /\ h > 0 /\ serv' = "high" => Turn < RatioHigh /\ crt' = Turn + Header
  /\ l # <<>> /\ h > 0 /\ serv' = "low" => Turn >= RatioHigh /\ crt' = Turn + Head(l)

TurnTypes == crt \in 0..(RatioHigh + RatioLow + Largest)

\* beginService serves one of the queues that hold packets.
LEMMA BeginServes ==
  ASSUME TurnTypes, NEW l \in Seq(DataSizes), NEW h \in Nat, NEW r, Begin(l, h, r)
  PROVE  Begun(l, h, r) /\ ByTurn(l, h)
<1>1. /\ Header \in Nat /\ RatioHigh \in Nat \ {0} /\ RatioLow \in Nat \ {0}
      /\ Largest \in Nat /\ Header <= Largest
  BY Sizes
<1>2. Turn \in 0..(RatioHigh + RatioLow - 1)  BY <1>1 DEF TurnTypes, Turn
<1>3. l # <<>> => Head(l) \in Nat /\ Head(l) <= Largest  BY DataTypes, Sizes
<1> USE DEF Begun, ByTurn, AllEmpty
<1>4. CASE l # <<>> /\ h > 0 /\ Turn < RatioHigh /\ serv' = "high" /\ timed' = Header /\ crt' = Turn + Header
  <2>1. crt' \in 0..(RatioHigh + RatioLow + Largest)  BY <1>1, <1>2, <1>4
  <2>2. QED  BY <1>1, <1>4, <2>1
<1>5. CASE l # <<>> /\ h > 0 /\ Turn >= RatioHigh /\ serv' = "low" /\ timed' = Head(l) /\ crt' = Turn + Head(l)
  <2>1. PICK d \in Nat : d = Head(l) /\ d <= Largest  BY <1>3, <1>5
  <2>2. crt' \in 0..(RatioHigh + RatioLow + Largest)  BY <1>1, <1>2, <1>5, <2>1
  <2>3. QED  BY <1>1, <1>3, <1>5, <2>2
<1>6. CASE l = <<>> /\ h > 0 /\ serv' = "high" /\ timed' = Header /\ crt' = crt
  BY <1>1, <1>6 DEF TurnTypes
<1>7. CASE l # <<>> /\ h = 0 /\ serv' = "low" /\ timed' = Head(l) /\ crt' = crt
  BY <1>1, <1>3, <1>7 DEF TurnTypes
<1>8. CASE l = <<>> /\ h = 0 /\ r # <<>> /\ serv' = "rlb" /\ timed' = 0 /\ crt' = crt
  BY <1>8 DEF TurnTypes
<1>9. QED  BY <1>4, <1>5, <1>6, <1>7, <1>8 DEF Begin, BeginService

\* After a packet has left, the next service begins if anything is left.
LEMMA ContinueServes ==
  ASSUME TurnTypes, NEW l \in Seq(DataSizes), NEW h \in Nat, NEW r, Continue(l, h, r)
  PROVE  /\ AllEmpty(l, h, r) => serv' = "none" /\ timed' = 0 /\ crt' = crt
         /\ ~ AllEmpty(l, h, r) => Begun(l, h, r) /\ ByTurn(l, h)
  BY BeginServes DEF Continue

\* A packet has come: no queue has lost one, the one in service is still at
\* the head, and a service has begun if there was none.
Arrived ==
  /\ low' \in Seq(DataSizes) /\ Bytes(low') <= MaxSize
  /\ high' \in Nat /\ HeaderBytes(high') <= MaxSize /\ high' >= high
  /\ rlb' \in Seq(Racks) /\ (rlb # <<>> => rlb' # <<>>)
  /\ low # <<>> => low' # <<>> /\ Head(low') = Head(low)
  /\ IF serv = "none" THEN Begin(low', high', rlb') ELSE UNCHANGED <<serv, crt, timed>>
  /\ UNCHANGED <<passed, nextToR, rlbSent, rlbReturned>>

\* An arrival that leaves the data in service, and behind it what it was, keeps
\* the invariant.
LEMMA ArrivalKeeps ==
  ASSUME TrimIInv, Arrived
  PROVE  TrimIInv'
<1>1. TypeOK /\ TrimTypeOK /\ WorkConserving /\ OnlyDirect /\ TurnTypes
  BY DEF TrimIInv, Inv, TypeOK, TrimTypeOK, TurnTypes, Largest
<1>2. CASE serv = "none"
  <2>1. PICK l \in Seq(DataSizes), h \in Nat, r \in Seq(Racks) :
          l = low' /\ h = high' /\ r = rlb'
    BY DEF Arrived
  <2>2. Begin(l, h, r)  BY <1>2, <2>1 DEF Arrived
  <2>3. Begun(l, h, r)  BY <1>1, <2>2, BeginServes
  <2>4. TrimTypeOK'  BY <1>1, <2>3 DEF Arrived, Begun, TrimTypeOK, Largest
  <2>5. WorkConserving'  BY <2>1, <2>3 DEF Begun, WorkConserving
  <2>6. Served'  BY <2>1, <2>3 DEF Begun, Served
  <2>7. HeadersPass' /\ DataPasses'
    <3>1. AllEmpty(low, high, rlb)  BY <1>1, <1>2 DEF WorkConserving
    <3>2. ~ (passed.queue \in {"high", "low"} /\ passed.count > 0)
      BY <3>1 DEF AllEmpty, TrimIInv, HeadersPass, DataPasses
    <3>3. passed' = passed  BY DEF Arrived
    <3>4. QED  BY <3>2, <3>3 DEF HeadersPass, DataPasses
  <2>8. TypeOK' /\ OnlyDirect'  BY <1>1, <2>4 DEF Arrived, TypeOK, OnlyDirect
  <2>9. QED  BY <2>4, <2>5, <2>6, <2>7, <2>8 DEF TrimIInv, Inv
<1>3. CASE serv # "none"
  <2>1. serv' = serv /\ crt' = crt /\ timed' = timed /\ passed' = passed
    BY <1>3 DEF Arrived
  <2>2. TrimTypeOK'  BY <1>1, <2>1 DEF Arrived, TrimTypeOK
  <2>3. high \in Nat /\ high' \in Nat /\ high' >= high  BY <1>1 DEF Arrived, TrimTypeOK
  <2>4. WorkConserving'
    <3>1. ~ AllEmpty(low, high, rlb)  BY <1>1, <1>3 DEF WorkConserving
    <3>2. ~ AllEmpty(low, high, rlb)'  BY <2>3, <3>1 DEF Arrived, AllEmpty
    <3>3. QED  BY <1>3, <2>1, <3>2 DEF WorkConserving
  <2>5. Served'  BY <2>1, <2>3 DEF Arrived, Served, TrimIInv
  <2>6. HeadersPass'  BY <2>1 DEF Arrived, HeadersPass, TrimIInv
  <2>7. DataPasses'
    <3>1. high > 0 => high' > 0  BY <2>3
    <3>2. QED  BY <2>1, <3>1 DEF DataPasses, TrimIInv
  <2>8. TypeOK' /\ OnlyDirect'  BY <1>1, <2>2 DEF Arrived, TypeOK, OnlyDirect
  <2>9. QED  BY <2>2, <2>4, <2>5, <2>6, <2>7, <2>8 DEF TrimIInv, Inv
<1>4. QED  BY <1>2, <1>3

-----------------------------------------------------------------------------
(* The trimming queue: its steps *)

\* One more header is within the buffer.
LEMMA HeaderFits ==
  ASSUME high \in Nat, HeaderBytes(high) <= MaxSize
  PROVE  /\ OneMoreHeader \in Nat /\ HeaderBytes(OneMoreHeader) <= MaxSize
         /\ OneMoreHeader >= high
         /\ high = 0 => FitsHeader(high)
<1>1. Header \in Nat /\ MaxSize \in Nat /\ Header <= MaxSize  BY Sizes
<1>2. HeaderBytes(high + 1) = HeaderBytes(high) + Header  BY <1>1 DEF HeaderBytes
<1>3. high = 0 => FitsHeader(high)  BY <1>1 DEF FitsHeader, HeaderBytes
<1>4. QED  BY <1>1, <1>2, <1>3 DEF OneMoreHeader, FitsHeader

\* A header that arrives, or what a trimming leaves, keeps the invariant.
LEMMA HeaderJoins ==
  ASSUME TrimIInv, HeaderArrives, UNCHANGED <<rlbVars, nextToR>>
  PROVE  TrimIInv'
<1>1. /\ low \in Seq(DataSizes) /\ Bytes(low) <= MaxSize /\ rlb \in Seq(Racks)
      /\ high \in Nat /\ HeaderBytes(high) <= MaxSize /\ WorkConserving
  BY DEF TrimIInv, Inv, TypeOK, TrimTypeOK
<1>2. high' = OneMoreHeader /\ low' = low /\ passed' = passed  BY DEF HeaderArrives
<1>3. /\ nextToR' = nextToR /\ rlb' = rlb
      /\ rlbSent' = rlbSent /\ rlbReturned' = rlbReturned
  BY DEF rlbVars
<1>4. IF serv = "none" THEN Begin(low', high', rlb') ELSE UNCHANGED <<serv, crt, timed>>
  <2>1. serv = "none" => FitsHeader(high)
    BY <1>1, HeaderFits DEF WorkConserving, AllEmpty
  <2>2. QED  BY <1>2, <2>1 DEF HeaderArrives, Begin
<1>5. /\ high' \in Nat /\ HeaderBytes(high') <= MaxSize /\ high' >= high
  BY <1>1, <1>2, HeaderFits
<1>6. Arrived  BY <1>1, <1>2, <1>3, <1>4, <1>5 DEF Arrived
<1>7. QED  BY <1>6, ArrivalKeeps

\* A data packet that arrives keeps the invariant: it joins the data, with the
\* last packet or itself trimmed if there is no room.
LEMMA DataJoinsQueue ==
  ASSUME TrimIInv, NEW size \in DataSizes, ReceiveData(size)
  PROVE  TrimIInv'
<1>1. /\ low \in Seq(DataSizes) /\ Bytes(low) <= MaxSize /\ rlb \in Seq(Racks)
      /\ high \in Nat /\ HeaderBytes(high) <= MaxSize
  BY DEF TrimIInv, Inv, TypeOK, TrimTypeOK
<1>2. /\ nextToR' = nextToR /\ rlb' = rlb
      /\ rlbSent' = rlbSent /\ rlbReturned' = rlbReturned
  BY DEF ReceiveData, rlbVars
<1>3. ASSUME Fits(size), low' = Append(low, size), high' = high, passed' = passed,
             IF serv = "none" THEN BeginService(low', high') ELSE UNCHANGED <<serv, crt, timed>>
      PROVE  TrimIInv'
  <2>1. /\ low' \in Seq(DataSizes) /\ Bytes(low') <= MaxSize
        /\ low # <<>> => low' # <<>> /\ Head(low') = Head(low)
    BY <1>1, <1>3, DataJoins DEF Fits
  <2>2. IF serv = "none" THEN Begin(low', high', rlb') ELSE UNCHANGED <<serv, crt, timed>>
    BY <1>3 DEF Begin
  <2>3. /\ high' \in Nat /\ HeaderBytes(high') <= MaxSize /\ high' >= high  BY <1>1, <1>3
  <2>4. Arrived  BY <1>1, <1>2, <1>3, <2>1, <2>2, <2>3 DEF Arrived
  <2>5. QED  BY <2>4, ArrivalKeeps
<1>4. ASSUME ~ Fits(size), MakesRoom(size), low' = LastCut(size), high' = OneMoreHeader,
             passed' = passed,
             IF serv = "none" THEN BeginService(low', high') ELSE UNCHANGED <<serv, crt, timed>>
      PROVE  TrimIInv'
  <2>1. /\ low' \in Seq(DataSizes) /\ low' # <<>> /\ Head(low') = Head(low)
        /\ Bytes(low') <= Bytes(low)
    BY <1>1, <1>4, DataCut
  <2>2. IF serv = "none" THEN Begin(low', high', rlb') ELSE UNCHANGED <<serv, crt, timed>>
    BY <1>4 DEF Begin
  <2>3. /\ high' \in Nat /\ HeaderBytes(high') <= MaxSize /\ high' >= high
    BY <1>1, <1>4, HeaderFits
  <2>4. Bytes(low') <= MaxSize
    <3>1. Bytes(low') \in Nat /\ Bytes(low) \in Nat /\ MaxSize \in Nat
      BY <1>1, <2>1, DataTypes, Sizes
    <3>2. QED  BY <1>1, <2>1, <3>1
  <2>5. Arrived  BY <1>1, <1>2, <1>4, <2>1, <2>2, <2>3, <2>4 DEF Arrived
  <2>6. QED  BY <2>5, ArrivalKeeps
<1>5. ASSUME HeaderArrives  PROVE TrimIInv'
  BY <1>5, HeaderJoins DEF ReceiveData
<1>6. QED  BY <1>3, <1>4, <1>5 DEF ReceiveData, DataArrives

\* An RLB packet that arrives keeps the invariant.
LEMMA RlbJoins ==
  ASSUME TrimIInv, NEW rack \in Racks, ReceiveRlb(rack)
  PROVE  TrimIInv'
<1>1. /\ low \in Seq(DataSizes) /\ Bytes(low) <= MaxSize /\ rlb \in Seq(Racks)
      /\ high \in Nat /\ HeaderBytes(high) <= MaxSize
  BY DEF TrimIInv, Inv, TypeOK, TrimTypeOK
<1>2. rlb' \in Seq(Racks) /\ rlb' # <<>>
  <2>1. PICK r : r = Append(rlb, rack)  OBVIOUS
  <2>2. r \in Seq(Racks) /\ Len(r) = Len(rlb) + 1 /\ Len(rlb) \in Nat
    BY <1>1, <2>1, AppendProperties, LenProperties
  <2>3. r # <<>>  BY <2>2, EmptySeq
  <2>4. QED  BY <2>1, <2>2, <2>3 DEF ReceiveRlb
<1>3. Arrived  BY <1>1, <1>2 DEF ReceiveRlb, Arrived
<1>4. QED  BY <1>3, ArrivalKeeps

\* What every departure keeps: types, services and direct links.
LEMMA DepartureKeeps ==
  ASSUME TrimIInv, NEW l \in Seq(DataSizes), NEW h \in Nat, NEW r \in Seq(Racks),
         low' = l, high' = h, rlb' = r, Bytes(l) <= MaxSize, HeaderBytes(h) <= MaxSize,
         Continue(l, h, r), nextToR' = nextToR,
         rlbSent' \subseteq {nextToR}, rlbReturned' \subseteq Racks \ {nextToR},
         passed' \in [queue : {"none", "low", "high"}, count : Nat]
  PROVE  Inv' /\ Served'
<1>1. TurnTypes /\ nextToR \in Racks
  BY DEF TrimIInv, Inv, TypeOK, TrimTypeOK, TurnTypes, Largest
<1>2. /\ AllEmpty(l, h, r) => serv' = "none" /\ timed' = 0 /\ crt' = crt
      /\ ~ AllEmpty(l, h, r) => Begun(l, h, r)
  BY <1>1, ContinueServes
<1>3. TrimTypeOK'
  <2>1. CASE AllEmpty(l, h, r)  BY <1>1, <1>2, <2>1 DEF TrimTypeOK, TurnTypes, Largest
  <2>2. CASE ~ AllEmpty(l, h, r)  BY <1>2, <2>2 DEF TrimTypeOK, Begun, Largest
  <2>3. QED  BY <2>1, <2>2
<1>4. WorkConserving'  BY <1>2 DEF WorkConserving, Begun
<1>5. Served'  BY <1>2 DEF Served, Begun
<1>6. OnlyDirect'  BY DEF OnlyDirect
<1>7. TypeOK'  BY <1>1, <1>3 DEF TypeOK
<1>8. QED  BY <1>3, <1>4, <1>5, <1>6, <1>7 DEF Inv

\* What a departure of NDP is, whichever queue it is from.
LEMMA NDPLeaves ==
  ASSUME TrimIInv, CompleteNDP
  PROVE  /\ Continue(low', high', rlb) /\ rlb' = rlb /\ nextToR' = nextToR
         /\ rlb \in Seq(Racks) /\ rlbSent' \subseteq {nextToR}
         /\ rlbReturned' \subseteq Racks \ {nextToR}
         /\ low \in Seq(DataSizes) /\ Bytes(low) <= MaxSize
         /\ high \in Nat /\ HeaderBytes(high) <= MaxSize
         /\ passed.count \in Nat /\ TurnTypes /\ Served
         /\ SendLow \/ SendHigh
<1>1. Continue(low', high', rlb) /\ UNCHANGED <<rlbVars, nextToR>> /\ (SendLow \/ SendHigh)
  BY DEF CompleteNDP
<1>2. rlb' = rlb /\ nextToR' = nextToR /\ rlbSent' = rlbSent /\ rlbReturned' = rlbReturned
  BY <1>1 DEF rlbVars
<1>3. /\ rlb \in Seq(Racks) /\ rlbSent \subseteq {nextToR} /\ rlbReturned \subseteq Racks
      /\ nextToR \notin rlbReturned
  BY DEF TrimIInv, Inv, TypeOK, OnlyDirect
<1>4. /\ low \in Seq(DataSizes) /\ Bytes(low) <= MaxSize
      /\ high \in Nat /\ HeaderBytes(high) <= MaxSize
      /\ passed.count \in Nat /\ TurnTypes /\ Served
  BY DEF TrimIInv, Inv, TypeOK, TrimTypeOK, TurnTypes, Largest
<1>5. QED  BY <1>1, <1>2, <1>3, <1>4

\* A header leaves: if data waits, it is one more of those that passed it.
LEMMA HeaderLeaves ==
  ASSUME TrimIInv, CompleteNDP, SendHigh
  PROVE  TrimIInv'
<1>1. PICK l \in Seq(DataSizes), h \in Nat, r \in Seq(Racks) :
        l = low /\ h = high - 1 /\ r = rlb /\ low' = l /\ high' = h /\ rlb' = r
  <2>1. high > 0 /\ high \in Nat  BY NDPLeaves DEF SendHigh, Served
  <2>2. QED  BY <2>1, NDPLeaves DEF SendHigh
<1>2. PICK n \in Nat :
        /\ passed' = [queue |-> "high", count |-> n]
        /\ n > 0 => low # <<>>
        /\ n = 0 \/ n = 1 \/ (passed.queue = "high" /\ n = passed.count + 1)
  <2>1. passed.count + 1 \in Nat  BY NDPLeaves
  <2>2. QED  BY <2>1 DEF SendHigh, Sent
<1>3. Continue(l, h, r)  BY <1>1, NDPLeaves
<1>4. Inv' /\ Served'
  <2>1. Bytes(l) <= MaxSize  BY <1>1, NDPLeaves
  <2>2. HeaderBytes(h) <= MaxSize
    <3>1. HeaderBytes(high) = HeaderBytes(h) + Header /\ HeaderBytes(h) \in Nat
      BY <1>1, NDPLeaves, Sizes DEF HeaderBytes
    <3>2. HeaderBytes(high) <= MaxSize  BY NDPLeaves
    <3>3. QED  BY <3>1, <3>2, Sizes
  <2>3. passed' \in [queue : {"none", "low", "high"}, count : Nat]  BY <1>2
  <2>4. QED  BY <1>1, <1>3, <2>1, <2>2, <2>3, NDPLeaves, DepartureKeeps
<1>5. passed'.queue = "high" /\ passed'.count = n  BY <1>2
<1>6. DataPasses'  BY <1>5 DEF DataPasses
<1>7. HeadersPass'
  <2>1. SUFFICES ASSUME n > 0
                 PROVE  /\ low' # <<>> /\ serv' \in {"low", "high"}
                        /\ n <= Rounds(RatioHigh, Header) + 1
                        /\ serv' = "high" =>
                             /\ n <= Rounds(RatioHigh, Header)
                             /\ crt' >= n * Header /\ crt' < RatioHigh + RatioLow
    BY <1>5 DEF HeadersPass
  <2>2. l # <<>> /\ low' # <<>>  BY <1>1, <1>2, <2>1
  <2>3. Begun(l, h, r) /\ ByTurn(l, h)
    BY <1>3, <2>2, ContinueServes, NDPLeaves DEF AllEmpty
  <2>4. serv' \in {"low", "high"}  BY <2>2, <2>3 DEF Begun
  <2>5. PICK x \in Nat : x = Rounds(RatioHigh, Header) /\ x > 0
    <3>1. RatioHigh \in Nat \ {0} /\ Header \in Nat \ {0}  BY Sizes
    <3>2. Rounds(RatioHigh, Header) \in Nat \ {0}  BY <3>1, RoundsBound
    <3>3. QED  BY <3>2
  \* As many as have passed before are counted by the turn.
  <2>6. n <= x + 1 /\ (n > 1 => crt >= (n - 1) * Header /\ crt < RatioHigh + RatioLow)
    <3>1. CASE n = 1  BY <2>5, <3>1
    <3>2. CASE passed.queue = "high" /\ n = passed.count + 1 /\ n > 1
      <4>1. serv = "high" /\ passed.count > 0 /\ passed.count = n - 1
        BY <3>2, NDPLeaves DEF SendHigh
      <4>2. /\ passed.count <= Rounds(RatioHigh, Header)
            /\ crt >= passed.count * Header /\ crt < RatioHigh + RatioLow
        BY <3>2, <4>1 DEF TrimIInv, HeadersPass
      <4>3. QED  BY <2>5, <4>1, <4>2
    <3>3. QED  BY <1>2, <2>1, <3>1, <3>2
  <2>7. ASSUME serv' = "high"
        PROVE  n <= x /\ crt' >= n * Header /\ crt' < RatioHigh + RatioLow
    <3>1. h > 0 /\ Turn < RatioHigh /\ crt' = Turn + Header
      BY <2>2, <2>3, <2>7 DEF Begun, ByTurn
    <3>2. PICK c \in Nat, t \in Nat : c = crt /\ t = Turn
      BY NDPLeaves, Sizes DEF TurnTypes, Turn
    <3>3. PICK m \in Nat : n = m + 1  BY <2>1
    <3>4. PICK y \in Nat, z \in Nat : y = m * Header /\ z = n * Header /\ z = y + Header
      BY <3>3, Sizes
    <3>5. t >= y
      <4>1. CASE m = 0
        <5>1. y = 0  BY <3>4, <4>1, Sizes
        <5>2. QED  BY <5>1
      <4>2. CASE m > 0
        <5>1. c >= y /\ c < RatioHigh + RatioLow  BY <2>6, <3>2, <3>3, <3>4, <4>2
        <5>2. t = c  BY <3>2, <5>1, Sizes DEF Turn
        <5>3. QED  BY <5>1, <5>2
      <4>3. QED  BY <4>1, <4>2
    <3>6. t < RatioHigh /\ crt' = t + Header  BY <3>1, <3>2
    <3>7. m * Header < RatioHigh
      <4>1. y < RatioHigh  BY ONLY <3>5, <3>6, y \in Nat, t \in Nat, Sizes
      <4>2. QED  BY <3>4, <4>1
    <3>8. n <= x  BY <2>5, <3>3, <3>7, RoundsBound, Sizes
    <3>9. crt' >= z /\ crt' < RatioHigh + RatioLow
      <4>1. PICK d \in Nat : d = crt' /\ d = t + Header  BY <3>6, Sizes
      <4>2. d >= z /\ d < RatioHigh + RatioLow
        BY ONLY <3>4, <3>5, <3>6, <4>1, y \in Nat, z \in Nat, t \in Nat, d \in Nat, Sizes
      <4>3. QED  BY <4>1, <4>2
    <3>10. QED  BY <3>4, <3>8, <3>9
  <2>8. QED  BY <2>2, <2>4, <2>5, <2>6, <2>7
<1>8. QED  BY <1>4, <1>6, <1>7 DEF TrimIInv

\* Data leaves: if headers wait, it is one more of those that passed them.
LEMMA DataLeaves ==
  ASSUME TrimIInv, CompleteNDP, SendLow
  PROVE  TrimIInv'
<1>1. PICK l \in Seq(DataSizes), h \in Nat, r \in Seq(Racks) :
        l = Tail(low) /\ h = high /\ r = rlb /\ low' = l /\ high' = h /\ rlb' = r
  <2>1. low # <<>> /\ low \in Seq(DataSizes)  BY NDPLeaves DEF SendLow, Served
  <2>2. Tail(low) \in Seq(DataSizes)  BY <2>1, DataTypes
  <2>3. QED  BY <2>2, NDPLeaves DEF SendLow
<1>2. PICK n \in Nat :
        /\ passed' = [queue |-> "low", count |-> n]
        /\ n > 0 => high > 0
        /\ n = 0 \/ n = 1 \/ (passed.queue = "low" /\ n = passed.count + 1)
  <2>1. passed.count + 1 \in Nat  BY NDPLeaves
  <2>2. QED  BY <2>1 DEF SendLow, Sent
<1>3. Continue(l, h, r)  BY <1>1, NDPLeaves
<1>4. Inv' /\ Served'
  <2>1. Bytes(l) <= MaxSize
    <3>1. low # <<>> /\ low \in Seq(DataSizes)  BY NDPLeaves DEF SendLow, Served
    <3>2. Bytes(l) <= Bytes(low) /\ Bytes(l) \in Nat /\ Bytes(low) \in Nat
      BY <1>1, <3>1, DataTypes
    <3>3. Bytes(low) <= MaxSize /\ MaxSize \in Nat  BY NDPLeaves, Sizes
    <3>4. QED  BY <3>2, <3>3
  <2>2. HeaderBytes(h) <= MaxSize  BY <1>1, NDPLeaves
  <2>3. passed' \in [queue : {"none", "low", "high"}, count : Nat]  BY <1>2
  <2>4. QED  BY <1>1, <1>3, <2>1, <2>2, <2>3, NDPLeaves, DepartureKeeps
<1>5. passed'.queue = "low" /\ passed'.count = n  BY <1>2
<1>6. HeadersPass'  BY <1>5 DEF HeadersPass
<1>7. DataPasses'
  <2>1. SUFFICES ASSUME n > 0
                 PROVE  /\ high' > 0 /\ serv' \in {"low", "high"}
                        /\ n <= Rounds(RatioLow, Smallest) + 1
                        /\ serv' = "low" =>
                             /\ n <= Rounds(RatioLow, Smallest)
                             /\ crt' >= RatioHigh + n * Smallest
    BY <1>5 DEF DataPasses
  <2>2. h > 0 /\ high' > 0  BY <1>1, <1>2, <2>1
  <2>3. Begun(l, h, r) /\ ByTurn(l, h)
    BY <1>3, <2>2, ContinueServes, NDPLeaves DEF AllEmpty
  <2>4. serv' \in {"low", "high"}  BY <2>2, <2>3 DEF Begun
  <2>5. PICK x \in Nat : x = Rounds(RatioLow, Smallest) /\ x > 0
    <3>1. RatioLow \in Nat \ {0} /\ Smallest \in Nat \ {0}  BY Sizes
    <3>2. Rounds(RatioLow, Smallest) \in Nat \ {0}  BY <3>1, RoundsBound
    <3>3. QED  BY <3>2
  \* As many as have passed before are counted by the turn.
  <2>6. n <= x + 1 /\ (n > 1 => crt >= RatioHigh + (n - 1) * Smallest)
    <3>1. CASE n = 1  BY <2>5, <3>1
    <3>2. CASE passed.queue = "low" /\ n = passed.count + 1 /\ n > 1
      <4>1. serv = "low" /\ passed.count > 0 /\ passed.count = n - 1
        BY <3>2, NDPLeaves DEF SendLow
      <4>2. /\ passed.count <= Rounds(RatioLow, Smallest)
            /\ crt >= RatioHigh + passed.count * Smallest
        BY <3>2, <4>1 DEF TrimIInv, DataPasses
      <4>3. QED  BY <2>5, <4>1, <4>2
    <3>3. QED  BY <1>2, <2>1, <3>1, <3>2
  <2>7. ASSUME serv' = "low"
        PROVE  n <= x /\ crt' >= RatioHigh + n * Smallest
    <3>1. l # <<>> /\ Turn >= RatioHigh /\ crt' = Turn + Head(l)
      BY <2>2, <2>3, <2>7 DEF Begun, ByTurn
    <3>2. PICK c \in Nat, t \in Nat : c = crt /\ t = Turn
      BY NDPLeaves, Sizes DEF TurnTypes, Turn
    <3>3. c < RatioHigh + RatioLow /\ t = c
      <4>1. t = 0 => ~ (t >= RatioHigh)  BY <3>2, Sizes
      <4>2. QED  BY <3>1, <3>2, <4>1, Sizes DEF Turn
    <3>4. PICK m \in Nat : n = m + 1  BY <2>1
    <3>5. PICK y \in Nat, z \in Nat, s \in Nat :
            s = Smallest /\ y = m * Smallest /\ z = n * Smallest /\ z = y + s
      BY <3>4, Sizes
    <3>6. c >= RatioHigh + y
      <4>1. CASE m = 0
        <5>1. y = 0  BY <3>5, <4>1, Sizes
        <5>2. QED  BY <3>1, <3>2, <3>3, <5>1, Sizes
      <4>2. CASE m > 0  BY <2>6, <3>2, <3>4, <3>5, <4>2
      <4>3. QED  BY <4>1, <4>2
    <3>7. PICK d \in Nat : d = Head(l) /\ s <= d /\ crt' = c + d
      BY <3>1, <3>2, <3>3, <3>5, DataTypes, Sizes
    <3>8. m * Smallest < RatioLow
      <4>1. y < RatioLow
        BY ONLY <3>3, <3>6, y \in Nat, c \in Nat, Sizes
      <4>2. QED  BY <3>5, <4>1
    <3>9. n <= x  BY <2>5, <3>4, <3>8, RoundsBound, Sizes
    <3>10. crt' >= RatioHigh + z
      <4>1. PICK e \in Nat : e = crt' /\ e = c + d  BY <3>7
      <4>2. e >= RatioHigh + z
        BY ONLY <3>5, <3>6, <3>7, <4>1, y \in Nat, z \in Nat, c \in Nat, d \in Nat, s \in Nat,
                e \in Nat, Sizes
      <4>3. QED  BY <4>1, <4>2
    <3>11. QED  BY <3>5, <3>9, <3>10
  <2>8. QED  BY <2>2, <2>4, <2>5, <2>6, <2>7
<1>8. QED  BY <1>4, <1>6, <1>7 DEF TrimIInv

\* Where the search for a packet to this rack ends.
LEMMA StaleEnds ==
  ASSUME rlb \in Seq(Racks)
  PROVE  /\ Stale \in 0..Len(rlb) /\ \A i \in 1..Stale : rlb[i] # nextToR
         /\ Stale < Len(rlb) => rlb[Stale + 1] = nextToR
<1> DEFINE Other == {i \in 1..Len(rlb) : rlb[i] # nextToR}
<1>1. Len(rlb) \in Nat  BY LenProperties
<1>2. PICK n \in 0..Len(rlb) : StopsAt(n, Len(rlb), Other)  BY <1>1, SearchEnds
<1>3. /\ \A i \in 1..n : rlb[i] # nextToR
      /\ n < Len(rlb) => rlb[n + 1] = nextToR
  BY <1>1, <1>2 DEF StopsAt
<1>4. QED  BY <1>3 DEF Stale

\* The end of the service of an RLB packet keeps the invariant, with the stale
\* packets before it given back to the module.
LEMMA RlbLeaves ==
  ASSUME TrimIInv, CompleteRlb
  PROVE  TrimIInv'
<1>1. /\ low \in Seq(DataSizes) /\ Bytes(low) <= MaxSize /\ rlb \in Seq(Racks)
      /\ high \in Nat /\ HeaderBytes(high) <= MaxSize /\ nextToR \in Racks
      /\ passed \in [queue : {"none", "low", "high"}, count : Nat]
  BY DEF TrimIInv, Inv, TypeOK, TrimTypeOK
<1>2. PICK n \in Nat, s \in Nat : n = Len(rlb) /\ s = Stale /\ s <= n
  BY <1>1, LenProperties, StaleEnds
<1>3. ASSUME NEW i \in 1..n  PROVE rlb[i] \in Racks  BY <1>1, <1>2, <1>3, ElementOfSeq
<1>4. PICK r \in Seq(Racks) : r = SubSeq(rlb, s + 2, n)
  <2>1. CASE s + 2 <= n + 1
    <3>1. s + 2 \in 1..(n + 1) /\ n \in (s + 2 - 1)..n  BY <2>1
    <3>2. SubSeq(rlb, s + 2, n) \in Seq(Racks)  BY <1>1, <1>2, <3>1, SubSeqProperties
    <3>3. QED  BY <3>2
  <2>2. CASE s = n
    <3>1. SubSeq(rlb, s + 2, n) = [i \in 1..(n - (s + 2) + 1) |-> rlb[i + (s + 2) - 1]]
      BY <1>1, <1>2, <2>2
    <3>2. 1..(n - (s + 2) + 1) = {}  BY <2>2
    <3>3. SubSeq(rlb, s + 2, n) = <<>>  BY <3>1, <3>2
    <3>4. QED  BY <3>3, EmptySeq
  <2>3. QED  BY <1>2, <2>1, <2>2
<1>5. PICK b : b = SubSeq(rlb, 1, s)  OBVIOUS
<1>6. rlbReturned' \subseteq Racks \ {nextToR}
  <2>1. 1 \in 1..(n + 1) /\ s \in 0..n  BY <1>2
  <2>2. /\ b \in Seq(Racks) /\ Len(b) = s
        /\ \A i \in 1..s : b[i] = rlb[1 + i - 1]
    BY <1>1, <1>2, <1>5, <2>1, SubSeqProperties
  <2>3. ASSUME NEW i \in 1..s  PROVE b[i] \in Racks \ {nextToR}
    <3>1. b[i] = rlb[i] /\ i \in 1..n  BY <1>2, <2>2
    <3>2. rlb[i] # nextToR  BY <1>1, <1>2, StaleEnds
    <3>3. QED  BY <1>3, <3>1, <3>2
  <2>4. DOMAIN b = 1..s  BY <2>2, LenProperties
  <2>5. ToSet(b) \subseteq Racks \ {nextToR}  BY <2>3, <2>4 DEF ToSet
  <2>6. QED  BY <1>2, <1>5, <2>5 DEF CompleteRlb
<1>7. rlbSent' \subseteq {nextToR}
  <2>1. DOMAIN rlb = 1..n  BY <1>1, <1>2, LenProperties
  <2>2. ASSUME s + 1 \in 1..n  PROVE rlb[s + 1] = nextToR
    BY <1>1, <1>2, <2>2, StaleEnds
  <2>3. QED  BY <1>2, <2>1, <2>2 DEF CompleteRlb
<1>8. PICK l \in Seq(DataSizes), h \in Nat : l = low /\ h = high  BY <1>1
<1>9. /\ low' = l /\ high' = h /\ rlb' = r /\ passed' = passed /\ nextToR' = nextToR
      /\ Continue(l, h, r) /\ serv = "rlb"
  BY <1>2, <1>4, <1>8 DEF CompleteRlb
<1>10. Inv' /\ Served'
  BY <1>1, <1>6, <1>7, <1>8, <1>9, DepartureKeeps
<1>11. HeadersPass' /\ DataPasses'
  <2>1. ~ (passed.queue \in {"low", "high"} /\ passed.count > 0)
    BY <1>9 DEF TrimIInv, HeadersPass, DataPasses
  <2>2. QED  BY <1>9, <2>1 DEF HeadersPass, DataPasses
<1>12. QED  BY <1>10, <1>11 DEF TrimIInv

\* The invariant is kept by every step of the trimming queue.
LEMMA TrimStep ==
  ASSUME TrimIInv, [Next]_vars
  PROVE  TrimIInv'
<1>1. ASSUME NEW size \in DataSizes, ReceiveData(size)  PROVE TrimIInv'
  BY <1>1, DataJoinsQueue
<1>2. ASSUME ReceiveHeader  PROVE TrimIInv'  BY <1>2, HeaderJoins DEF ReceiveHeader
<1>3. ASSUME NEW rack \in Racks, ReceiveRlb(rack)  PROVE TrimIInv'  BY <1>3, RlbJoins
<1>4. ASSUME CompleteNDP  PROVE TrimIInv'
  BY <1>4, NDPLeaves, HeaderLeaves, DataLeaves
<1>5. ASSUME CompleteRlb  PROVE TrimIInv'  BY <1>5, RlbLeaves
<1>6. ASSUME Reconfigure  PROVE TrimIInv'
  <2>1. /\ low' = low /\ high' = high /\ serv' = serv /\ crt' = crt /\ timed' = timed
        /\ passed' = passed /\ rlb' = rlb
    BY <1>6 DEF Reconfigure, trimVars
  <2>2. nextToR' \in Racks /\ rlbSent' = {} /\ rlbReturned' = {}  BY <1>6 DEF Reconfigure
  <2>3. TypeOK' /\ WorkConserving' /\ OnlyDirect'
    BY <2>1, <2>2
    DEF TrimIInv, Inv, TypeOK, TrimTypeOK, WorkConserving, OnlyDirect, AllEmpty
  <2>4. Served' /\ HeadersPass' /\ DataPasses'
    BY <2>1 DEF TrimIInv, Served, HeadersPass, DataPasses
  <2>5. QED  BY <2>3, <2>4 DEF TrimIInv, Inv
<1>7. ASSUME UNCHANGED vars  PROVE TrimIInv'
  <2>1. /\ low' = low /\ high' = high /\ serv' = serv /\ crt' = crt /\ timed' = timed
        /\ passed' = passed /\ rlb' = rlb /\ nextToR' = nextToR
        /\ rlbSent' = rlbSent /\ rlbReturned' = rlbReturned
    BY <1>7 DEF vars, trimVars
  <2>2. TypeOK' /\ WorkConserving' /\ OnlyDirect'
    BY <2>1
    DEF TrimIInv, Inv, TypeOK, TrimTypeOK, WorkConserving, OnlyDirect, AllEmpty
  <2>3. Served' /\ HeadersPass' /\ DataPasses'
    BY <2>1 DEF TrimIInv, Served, HeadersPass, DataPasses
  <2>4. QED  BY <2>2, <2>3 DEF TrimIInv, Inv
<1>8. QED
  BY <1>1, <1>2, <1>3, <1>4, <1>5, <1>6, <1>7 DEF Next

\* It holds at the start.
LEMMA TrimStart ==
  ASSUME Init
  PROVE  TrimIInv
<1>1. /\ low = <<>> /\ high = 0 /\ serv = "none" /\ crt = 0 /\ timed = 0
      /\ passed = [queue |-> "none", count |-> 0]
      /\ rlb = <<>> /\ nextToR \in Racks /\ rlbSent = {} /\ rlbReturned = {}
  BY DEF Init, TrimInit
<1>2. low \in Seq(DataSizes) /\ rlb \in Seq(Racks)  BY <1>1, EmptySeq
<1>3. Bytes(low) <= MaxSize
  <2>1. Bytes(low) = 0  BY <1>1, <1>2, DataTypes
  <2>2. QED  BY <2>1, Sizes
<1>4. HeaderBytes(high) <= MaxSize  BY <1>1, Sizes DEF HeaderBytes
<1>5. crt \in 0..(RatioHigh + RatioLow + Max(DataSizes))
  <2>1. Largest \in Nat /\ RatioHigh \in Nat /\ RatioLow \in Nat  BY Sizes
  <2>2. crt \in 0..(RatioHigh + RatioLow + Largest)  BY <1>1, <2>1
  <2>3. QED  BY <2>2 DEF Largest
<1>6. TypeOK  BY <1>1, <1>2, <1>3, <1>4, <1>5 DEF TypeOK, TrimTypeOK
<1>7. WorkConserving /\ OnlyDirect /\ Served /\ HeadersPass /\ DataPasses
  BY <1>1 DEF WorkConserving, AllEmpty, OnlyDirect, Served, HeadersPass, DataPasses
<1>8. QED  BY <1>6, <1>7 DEF TrimIInv, Inv

-----------------------------------------------------------------------------
(* The queues of TCP flows: packets and levels *)

\* Packets have sizes a link can carry.
LEMMA PacketSizesBounded ==
  /\ AckSize \in Nat \ {0} /\ Mtu \in Nat /\ Buffer \in Nat /\ Threshold \in Nat
  /\ MaxPru \in Nat /\ AckSize <= Mtu
  /\ \A p \in Packets : p.size \in Nat /\ p.size > 0 /\ p.size <= Mtu
  /\ Feedback \in Packets /\ Feedback.size = AckSize /\ Feedback.type = "ack"
<1>1. /\ AckSize \in Nat \ {0} /\ Mtu \in Nat /\ Buffer \in Nat /\ Threshold \in Nat
      /\ MaxPru \in Nat /\ PacketSizes \subseteq (AckSize + 1)..Mtu /\ PacketSizes # {}
  BY SignalAssumption
<1>2. AckSize <= Mtu
  <2>1. PICK s \in PacketSizes : s \in (AckSize + 1)..Mtu  BY <1>1
  <2>2. QED  BY <1>1, <2>1
<1>3. \A s \in PacketSizes : s \in Nat /\ s > 0 /\ s <= Mtu  BY <1>1
<1>4. \A p \in Packets : p.size = AckSize \/ p.size \in PacketSizes  BY DEF Packets
<1>5. Feedback \in Packets /\ Feedback.size = AckSize /\ Feedback.type = "ack"
  BY DEF Feedback, Packets
<1>6. ASSUME NEW p \in Packets  PROVE p.size \in Nat /\ p.size > 0 /\ p.size <= Mtu
  <2>1. CASE p.size = AckSize  BY <1>1, <1>2, <2>1
  <2>2. CASE p.size \in PacketSizes  BY <1>3, <2>2
  <2>3. QED  BY <1>4, <2>1, <2>2
<1>7. QED  BY <1>1, <1>2, <1>5, <1>6

\* Every packet has a level.
LEMMA Levelled ==
  ASSUME NEW p
  PROVE  /\ Level(p) \in Levels
         /\ kind \in Bolts => Level(p) = BoltLevel(p)
  BY DEF Level, Levels, BoltLevel, GetPriority

Queued == [Levels -> Seq(Packets)]

\* The bytes of a level and of all levels.
LEMMA LevelTypes ==
  ASSUME NEW q \in Queued
  PROVE  /\ \A l \in Levels :
              /\ q[l] \in Seq(Packets) /\ LevelBytes(q[l]) \in Nat
              /\ q[l] = <<>> => LevelBytes(q[l]) = 0
              /\ q[l] # <<>> => /\ Head(q[l]) \in Packets
                                /\ Head(q[l]).size <= LevelBytes(q[l])
                                /\ Head(q[l]).size <= QueueSize(q)
              /\ LevelBytes(q[l]) <= QueueSize(q)
         /\ QueueSize(q) \in Nat
         /\ QueueSize(q) = 0 <=> \A l \in Levels : q[l] = <<>>
<1>1. PICK T : T = Packets /\ \A p \in T : p.size \in Nat  BY PacketSizesBounded
<1>2. ASSUME NEW l \in Levels
      PROVE  /\ q[l] \in Seq(Packets) /\ LevelBytes(q[l]) \in Nat
             /\ q[l] = <<>> => LevelBytes(q[l]) = 0
             /\ q[l] # <<>> => /\ Head(q[l]) \in Packets
                               /\ Head(q[l]).size \in Nat /\ Head(q[l]).size > 0
                               /\ Head(q[l]).size <= LevelBytes(q[l])
  <2>1. PICK s \in Seq(T) : s = q[l]  BY <1>1 DEF Queued
  <2>2. BytesOf(s) \in Nat /\ (s = <<>> => BytesOf(s) = 0)  BY <1>1, BytesTypes
  <2>3. ASSUME s # <<>>
        PROVE  Head(s) \in T /\ Head(s).size \in Nat /\ Head(s).size <= BytesOf(s)
    BY <1>1, <2>2, <2>3, BytesHead
  <2>4. QED  BY <1>1, <2>1, <2>2, <2>3, PacketSizesBounded DEF LevelBytes
<1>3. "lo" \in Levels /\ "mid" \in Levels /\ "hi" \in Levels
      /\ \A l \in Levels : l = "lo" \/ l = "mid" \/ l = "hi"
  BY DEF Levels
<1>4. PICK a \in Nat, b \in Nat, c \in Nat :
        a = LevelBytes(q["lo"]) /\ b = LevelBytes(q["mid"]) /\ c = LevelBytes(q["hi"])
  BY <1>2, <1>3
<1>5. QueueSize(q) = a + b + c  BY <1>4 DEF QueueSize
<1>6. \A l \in Levels : LevelBytes(q[l]) <= QueueSize(q)
  <2>1. a <= a + b + c /\ b <= a + b + c /\ c <= a + b + c  OBVIOUS
  <2>2. QED  BY <1>3, <1>4, <1>5, <2>1
<1>7. ASSUME NEW l \in Levels, q[l] # <<>>
      PROVE  Head(q[l]).size <= QueueSize(q) /\ QueueSize(q) # 0
  <2>1. PICK x \in Nat, y \in Nat : x = Head(q[l]).size /\ y = LevelBytes(q[l]) /\ x <= y /\ x > 0
    BY <1>2, <1>7
  <2>2. PICK z \in Nat : z = QueueSize(q) /\ y <= z  BY <1>5, <1>6, <2>1
  <2>3. QED  BY <2>1, <2>2
<1>8. (\A l \in Levels : q[l] = <<>>) => QueueSize(q) = 0
  BY <1>2, <1>3, <1>4, <1>5
<1>9. QED  BY <1>2, <1>5, <1>6, <1>7, <1>8

\* A packet joins the end of its level.
LEMMA Joining ==
  ASSUME NEW q \in Queued, NEW p \in Packets
  PROVE  /\ Enqueue(q, p) \in Queued
         /\ QueueSize(Enqueue(q, p)) = QueueSize(q) + p.size
         /\ \A l \in Levels : q[l] # <<>> =>
              Enqueue(q, p)[l] # <<>> /\ Head(Enqueue(q, p)[l]) = Head(q[l])
         /\ \A l \in Levels \ {Level(p)} : Enqueue(q, p)[l] = q[l]
         /\ Enqueue(q, p)[Level(p)] = Append(q[Level(p)], p)
<1>1. PICK T : T = Packets /\ \A r \in T : r.size \in Nat  BY PacketSizesBounded
<1>2. PICK k \in Levels : k = Level(p)  BY Levelled
<1>3. PICK s \in Seq(T) : s = q[k]  BY <1>1, <1>2 DEF Queued
<1>4. PICK a : a = Append(s, p)  OBVIOUS
<1>5. a \in Seq(T) /\ a # <<>> /\ BytesOf(a) = BytesOf(s) + p.size /\ BytesOf(s) \in Nat
  BY <1>1, <1>3, <1>4, BytesAppend, BytesTypes
<1>6. s # <<>> => Head(a) = Head(s)
  <2>1. SUFFICES ASSUME s # <<>>  PROVE Head(a) = Head(s)  OBVIOUS
  <2>2. Len(s) \in Nat \ {0} /\ Head(s) = s[1] /\ Head(a) = a[1]
    BY <1>5, <2>1, HeadTailProperties, LenProperties, EmptySeq
  <2>3. \A i \in 1..Len(s) : a[i] = s[i]  BY <1>1, <1>3, <1>4, AppendProperties
  <2>4. QED  BY <2>2, <2>3
<1>7. PICK e : e = Enqueue(q, p) /\ e = [q EXCEPT ![k] = a]
  BY <1>2, <1>3, <1>4 DEF Enqueue
<1>8. e \in Queued /\ e[k] = a /\ \A l \in Levels \ {k} : e[l] = q[l]
  BY <1>1, <1>2, <1>5, <1>7 DEF Queued
<1>9. QueueSize(e) = QueueSize(q) + p.size
  <2>1. "lo" \in Levels /\ "mid" \in Levels /\ "hi" \in Levels
        /\ (k = "lo" \/ k = "mid" \/ k = "hi")
    BY <1>2 DEF Levels
  <2>2. PICK x \in Nat, y \in Nat, z \in Nat :
          x = LevelBytes(q["lo"]) /\ y = LevelBytes(q["mid"]) /\ z = LevelBytes(q["hi"])
    BY <2>1, LevelTypes
  <2>3. p.size \in Nat  BY PacketSizesBounded
  <2>4. LevelBytes(e[k]) = LevelBytes(q[k]) + p.size  BY <1>3, <1>5, <1>8 DEF LevelBytes
  <2>5. CASE k = "lo"
    <3>1. LevelBytes(e["lo"]) = x + p.size /\ e["mid"] = q["mid"] /\ e["hi"] = q["hi"]
      BY <1>8, <2>1, <2>2, <2>4, <2>5
    <3>2. QED  BY <2>2, <2>3, <3>1, SMTT(30) DEF QueueSize
  <2>6. CASE k = "mid"
    <3>1. LevelBytes(e["mid"]) = y + p.size /\ e["lo"] = q["lo"] /\ e["hi"] = q["hi"]
      BY <1>8, <2>1, <2>2, <2>4, <2>6
    <3>2. QED  BY <2>2, <2>3, <3>1, SMTT(30) DEF QueueSize
  <2>7. CASE k = "hi"
    <3>1. LevelBytes(e["hi"]) = z + p.size /\ e["lo"] = q["lo"] /\ e["mid"] = q["mid"]
      BY <1>8, <2>1, <2>2, <2>4, <2>7
    <3>2. QED  BY <2>2, <2>3, <3>1, SMTT(30) DEF QueueSize
  <2>8. QED  BY <2>1, <2>5, <2>6, <2>7
<1>10. ASSUME NEW l \in Levels, q[l] # <<>>  PROVE e[l] # <<>> /\ Head(e[l]) = Head(q[l])
  <2>1. CASE l = k  BY <1>3, <1>5, <1>6, <1>8, <1>10, <2>1
  <2>2. CASE l # k  BY <1>8, <1>10, <2>2
  <2>3. QED  BY <2>1, <2>2
<1>11. QED  BY <1>2, <1>3, <1>4, <1>7, <1>8, <1>9, <1>10

HeadGone(e, q, k) == e = [q EXCEPT ![k] = Tail(@)]

\* The head of a level leaves.
LEMMA Leaving ==
  ASSUME NEW q \in Queued, NEW k \in Levels, q[k] # <<>>, NEW e, HeadGone(e, q, k)
  PROVE  /\ e \in Queued /\ e[k] = Tail(q[k]) /\ \A l \in Levels \ {k} : e[l] = q[l]
         /\ QueueSize(e) = QueueSize(q) - Head(q[k]).size
         /\ Head(q[k]).size \in Nat /\ Head(q[k]).size <= QueueSize(q)
<1>1. PICK T : T = Packets /\ \A r \in T : r.size \in Nat  BY PacketSizesBounded
<1>2. PICK s \in Seq(T) : s = q[k] /\ s # <<>>  BY <1>1 DEF Queued
<1>3. PICK a : a = Tail(s)  OBVIOUS
<1>4. PICK n \in Nat : n = Head(s).size  BY <1>1, <1>2, BytesHead
<1>5. a \in Seq(T) /\ BytesOf(a) \in Nat /\ BytesOf(s) = n + BytesOf(a)
  BY <1>1, <1>2, <1>3, <1>4, BytesHead
<1>6. e = [q EXCEPT ![k] = a]  BY <1>2, <1>3 DEF HeadGone
<1>7. e \in Queued /\ e[k] = a /\ \A l \in Levels \ {k} : e[l] = q[l]
  BY <1>1, <1>5, <1>6 DEF Queued
<1>8. QueueSize(e) = QueueSize(q) - n
  <2>1. "lo" \in Levels /\ "mid" \in Levels /\ "hi" \in Levels
        /\ (k = "lo" \/ k = "mid" \/ k = "hi")
    BY DEF Levels
  <2>2. PICK x \in Nat, y \in Nat, z \in Nat :
          x = LevelBytes(e["lo"]) /\ y = LevelBytes(e["mid"]) /\ z = LevelBytes(e["hi"])
    BY <1>7, <2>1, LevelTypes
  <2>3. LevelBytes(q[k]) = LevelBytes(e[k]) + n
    <3>1. PICK b \in Nat : b = BytesOf(a) /\ BytesOf(s) = n + b  BY <1>5
    <3>2. LevelBytes(e[k]) = b /\ LevelBytes(q[k]) = n + b
      BY <1>2, <1>7, <3>1 DEF LevelBytes
    <3>3. QED  BY <3>2
  <2>4. CASE k = "lo"
    <3>1. /\ LevelBytes(q["lo"]) = x + n
          /\ LevelBytes(q["mid"]) = y /\ LevelBytes(q["hi"]) = z
      BY <1>7, <2>1, <2>2, <2>3, <2>4
    <3>2. QED  BY <2>2, <3>1, SMTT(30) DEF QueueSize
  <2>5. CASE k = "mid"
    <3>1. /\ LevelBytes(q["mid"]) = y + n
          /\ LevelBytes(q["lo"]) = x /\ LevelBytes(q["hi"]) = z
      BY <1>7, <2>1, <2>2, <2>3, <2>5
    <3>2. QED  BY <2>2, <3>1, SMTT(30) DEF QueueSize
  <2>6. CASE k = "hi"
    <3>1. /\ LevelBytes(q["hi"]) = z + n
          /\ LevelBytes(q["lo"]) = x /\ LevelBytes(q["mid"]) = y
      BY <1>7, <2>1, <2>2, <2>3, <2>6
    <3>2. QED  BY <2>2, <3>1 DEF QueueSize
  <2>7. QED  BY <2>1, <2>4, <2>5, <2>6
<1>9. n <= QueueSize(q)
  <2>1. Head(q[k]).size <= QueueSize(q)  BY LevelTypes
  <2>2. QED  BY <1>2, <1>4, <2>1
<1>10. QED  BY <1>2, <1>3, <1>4, <1>7, <1>8, <1>9

-----------------------------------------------------------------------------
(* The queues of TCP flows: their steps *)

\* The next service of q, if there is one: the packet timed is at the head
\* of its level, and acks come first.
LEMMA BeginNextServes ==
  ASSUME NEW q \in Queued, BeginNext(q)
  PROVE  /\ servicing' = "none" <=> QueueSize(q) = 0
         /\ servicing' = "none" => timedFor' = 0
         /\ servicing' # "none" => /\ servicing' \in Levels /\ q[servicing'] # <<>>
                                   /\ Head(q[servicing']).size = timedFor'
                                   /\ timedFor' <= QueueSize(q)
         /\ timedFor' \in 0..Mtu /\ left' = timedFor'
         /\ q["hi"] # <<>> => servicing' = "hi"
<1>1. CASE QueueSize(q) = 0
  <2>1. servicing' = "none" /\ timedFor' = 0 /\ left' = 0  BY <1>1 DEF BeginNext
  <2>2. q["hi"] = <<>>  BY <1>1, LevelTypes DEF Levels
  <2>3. QED  BY <1>1, <2>1, <2>2, PacketSizesBounded
<1>2. CASE QueueSize(q) # 0
  <2>1. PICK k \in Levels : k = NextLevel(q) /\ q[k] # <<>> /\ (q["hi"] # <<>> => k = "hi")
    <3>1. q["hi"] # <<>> \/ q["mid"] # <<>> \/ q["lo"] # <<>>
      BY <1>2, LevelTypes DEF Levels
    <3>2. QED  BY <3>1 DEF NextLevel, Levels
  <2>2. servicing' = k /\ timedFor' = Head(q[k]).size /\ left' = timedFor'
    BY <1>2, <2>1 DEF BeginNext
  <2>3. Head(q[k]) \in Packets /\ Head(q[k]).size <= QueueSize(q)  BY <2>1, LevelTypes
  <2>4. Head(q[k]).size \in Nat /\ Head(q[k]).size <= Mtu  BY <2>3, PacketSizesBounded
  <2>5. k # "none"  BY DEF Levels
  <2>6. timedFor' \in 0..Mtu  BY <2>2, <2>4, PacketSizesBounded
  <2>7. QED  BY <1>2, <2>1, <2>2, <2>3, <2>5, <2>6
<1>3. QED  BY <1>1, <1>2

\* The parts of the invariant that the steps use.
LEMMA SignalParts ==
  ASSUME SignalIInv
  PROVE  /\ kind \in Kinds /\ enqueued \in Queued /\ servicing \in Levels \cup {"none"}
         /\ timedFor \in 0..Mtu /\ left \in 0..timedFor
         /\ pru \in 0..MaxPru /\ sm \in Int /\ sm <= Mtu /\ since \in Nat
         /\ over \in BOOLEAN /\ marked \in BOOLEAN /\ overtaken \in Nat
         /\ QueueSize(enqueued) \in Nat
         /\ servicing = "none" => QueueSize(enqueued) = 0 /\ timedFor = 0
         /\ servicing # "none" => /\ servicing \in Levels /\ enqueued[servicing] # <<>>
                                  /\ Head(enqueued[servicing]).size = timedFor
         /\ timedFor <= QueueSize(enqueued)
<1>1. SignalTypeOK /\ Serves /\ InService  BY DEF SignalIInv, SignalInv
<1>2. /\ kind \in Kinds /\ enqueued \in Queued /\ servicing \in Levels \cup {"none"}
      /\ timedFor \in 0..Mtu /\ left \in 0..timedFor
      /\ pru \in 0..MaxPru /\ sm \in Int /\ sm <= Mtu /\ since \in Nat
      /\ over \in BOOLEAN /\ marked \in BOOLEAN /\ overtaken \in Nat
  BY <1>1 DEF SignalTypeOK, Queued
<1>3. QueueSize(enqueued) \in Nat  BY <1>2, LevelTypes
<1>4. servicing = "none" => QueueSize(enqueued) = 0 /\ timedFor = 0
  BY <1>1 DEF Serves, InService
<1>5. servicing # "none" => /\ servicing \in Levels /\ enqueued[servicing] # <<>>
                            /\ Head(enqueued[servicing]).size = timedFor
  BY <1>1, <1>2 DEF InService
<1>6. timedFor <= QueueSize(enqueued)
  <2>1. CASE servicing = "none"  BY <1>4, <2>1
  <2>2. CASE servicing # "none"
    <3>1. Head(enqueued[servicing]).size <= QueueSize(enqueued)
      BY <1>2, <1>5, <2>2, LevelTypes
    <3>2. QED  BY <1>5, <2>2, <3>1
  <2>3. QED  BY <2>1, <2>2
<1>7. QED  BY <1>2, <1>3, <1>4, <1>5, <1>6

\* Data is warned of as long as a warning stays with it: appended packets
\* are, if what is before them calls for it, ...
LEMMA WarnedAppend ==
  ASSUME NEW s \in Seq(Packets), NEW p \in Packets,
         \A i \in 1..Len(s) : LevelBytes(SubSeq(s, 1, i - 1)) > Threshold => s[i].early,
         LevelBytes(s) > Threshold => p.early,
         NEW a, a = Append(s, p)
  PROVE  \A i \in DOMAIN a : LevelBytes(SubSeq(a, 1, i - 1)) > Threshold => a[i].early
<1>1. PICK n \in Nat : n = Len(s)  BY LenProperties
<1>2. /\ a \in Seq(Packets) /\ Len(a) = n + 1 /\ a[n + 1] = p
      /\ \A i \in 1..n : a[i] = s[i]
  BY <1>1, AppendProperties
<1>3. DOMAIN a = 1..(n + 1)  BY <1>1, <1>2, LenProperties
<1>4. ASSUME NEW i \in 1..(n + 1)  PROVE SubSeq(a, 1, i - 1) = SubSeq(s, 1, i - 1)
  <2>1. /\ SubSeq(a, 1, i - 1) = [j \in 1..(i - 1) |-> a[j]]
        /\ SubSeq(s, 1, i - 1) = [j \in 1..(i - 1) |-> s[j]]
    BY <1>1, <1>2
  <2>2. \A j \in 1..(i - 1) : a[j] = s[j]  BY <1>1, <1>2
  <2>3. QED  BY <2>1, <2>2
<1>5. SubSeq(s, 1, n) = s
  <2>1. SubSeq(s, 1, n) = [j \in 1..n |-> s[j]]  BY <1>1
  <2>2. QED  BY <1>1, <2>1, LenProperties
<1>6. ASSUME NEW i \in 1..(n + 1), LevelBytes(SubSeq(a, 1, i - 1)) > Threshold
      PROVE  a[i].early
  <2>1. CASE i = n + 1
    <3>1. SubSeq(a, 1, i - 1) = s  BY <1>1, <1>4, <1>5, <2>1
    <3>2. QED  BY <1>2, <1>6, <2>1, <3>1
  <2>2. CASE i \in 1..n
    <3>1. LevelBytes(SubSeq(s, 1, i - 1)) > Threshold  BY <1>4, <1>6
    <3>2. s[i].early  BY <1>1, <2>2, <3>1
    <3>3. QED  BY <1>2, <2>2, <3>2
  <2>3. QED  BY <1>1, <2>1, <2>2
<1>7. QED  BY <1>3, <1>6

\* ... and less is before each packet when the head has left.
LEMMA WarnedTail ==
  ASSUME NEW s \in Seq(Packets), s # <<>>,
         \A i \in 1..Len(s) : LevelBytes(SubSeq(s, 1, i - 1)) > Threshold => s[i].early,
         NEW a, a = Tail(s)
  PROVE  \A i \in DOMAIN a : LevelBytes(SubSeq(a, 1, i - 1)) > Threshold => a[i].early
<1>1. PICK T : T = Packets /\ \A r \in T : r.size \in Nat  BY PacketSizesBounded
<1>2. PICK n \in Nat : n = Len(a) /\ n + 1 = Len(s)
  BY EmptySeq, LenProperties, HeadTailProperties
<1>3. /\ a \in Seq(T) /\ s \in Seq(T) /\ DOMAIN a = 1..n
      /\ \A i \in 1..n : a[i] = s[i + 1]
  BY <1>1, <1>2, HeadTailProperties, LenProperties
<1>4. ASSUME NEW i \in 1..n, LevelBytes(SubSeq(a, 1, i - 1)) > Threshold
      PROVE  a[i].early
  <2>1. PICK b, c : b = SubSeq(s, 1, i) /\ c = SubSeq(a, 1, i - 1)  OBVIOUS
  <2>2. b \in Seq(T) /\ Len(b) = i /\ b # <<>>
    <3>1. 1 \in 1..(n + 2) /\ i \in 0..(n + 1)  BY <1>2
    <3>2. b \in Seq(T) /\ Len(b) = i  BY <1>2, <1>3, <2>1, <3>1, SubSeqProperties
    <3>3. QED  BY <3>2, EmptySeq
  <2>3. c = Tail(b)
    <3>1. b = [j \in 1..i |-> s[j]] /\ c = [j \in 1..(i - 1) |-> a[j]]
      BY <1>2, <1>3, <2>1
    <3>2. Tail(b) = [j \in 1..(i - 1) |-> b[j + 1]]
      <4>1. Tail(b) \in Seq(T) /\ Len(Tail(b)) = i - 1 /\ \A j \in 1..(i - 1) : Tail(b)[j] = b[j + 1]
        BY <2>2, HeadTailProperties
      <4>2. Tail(b) = [j \in 1..Len(Tail(b)) |-> Tail(b)[j]]  BY <4>1, LenProperties
      <4>3. QED  BY <4>1, <4>2
    <3>3. \A j \in 1..(i - 1) : b[j + 1] = s[j + 1] /\ a[j] = s[j + 1]
      BY <1>2, <1>3, <3>1
    <3>4. QED  BY <3>1, <3>2, <3>3, ZenonT(30)
  <2>4. PICK x \in Nat, y \in Nat, h \in Nat :
          x = BytesOf(b) /\ y = BytesOf(c) /\ h = Head(b).size /\ x = h + y
    BY <1>1, <2>2, <2>3, BytesHead, BytesTypes
  <2>5. x > Threshold
    <3>1. y > Threshold /\ Threshold \in Nat
      BY <1>4, <2>1, <2>4, PacketSizesBounded DEF LevelBytes
    <3>2. QED  BY <2>4, <3>1
  <2>6. i + 1 \in 1..Len(s) /\ SubSeq(s, 1, (i + 1) - 1) = b  BY <1>2, <2>1
  <2>7. LevelBytes(SubSeq(s, 1, (i + 1) - 1)) > Threshold  BY <2>4, <2>5, <2>6 DEF LevelBytes
  <2>8. s[i + 1].early  BY <2>6, <2>7
  <2>9. QED  BY <1>3, <2>8
<1>5. QED  BY <1>3, <1>4

\* What a packet may join: the queue, or, in Opera's BoltQueue, the queue
\* with the feedback for that packet.
Before(q) ==
  \/ q = enqueued
  \/ kind = "bolt" /\ HasRoom(enqueued, Feedback) /\ q = Enqueue(enqueued, Feedback)

\* The queue a packet finds has the types of a queue, holds at most one ack
\* more, and its heads are those of the queue before.
LEMMA BeforeTypes ==
  ASSUME SignalIInv, NEW q, Before(q)
  PROVE  /\ q \in Queued
         /\ QueueSize(q) = QueueSize(enqueued) \/ (kind = "bolt" /\ QueueSize(q) = QueueSize(enqueued) + AckSize)
         /\ \A l \in Levels : enqueued[l] # <<>> => q[l] # <<>> /\ Head(q[l]) = Head(enqueued[l])
         /\ kind \in Bolts => q["lo"] = enqueued["lo"]
<1>1. enqueued \in Queued  BY SignalParts
<1>2. CASE q = enqueued  BY <1>1, <1>2
<1>3. CASE kind = "bolt" /\ q = Enqueue(enqueued, Feedback)
  <2>1. Feedback \in Packets /\ Feedback.size = AckSize  BY PacketSizesBounded
  <2>2. /\ q \in Queued /\ QueueSize(q) = QueueSize(enqueued) + AckSize
        /\ \A l \in Levels : enqueued[l] # <<>> => q[l] # <<>> /\ Head(q[l]) = Head(enqueued[l])
        /\ \A l \in Levels \ {Level(Feedback)} : q[l] = enqueued[l]
    BY <1>1, <1>3, <2>1, Joining
  <2>3. Level(Feedback) = "hi"
    BY <1>3, Levelled, PacketSizesBounded DEF Bolts, BoltLevel
  <2>4. q["lo"] = enqueued["lo"]  BY <2>2, <2>3 DEF Levels
  <2>5. QED  BY <1>3, <2>2, <2>4
<1>4. QED  BY <1>2, <1>3 DEF Before

\* The supply is not in debt by more than the backlog when a packet has come,
\* if it has paid for no more than the packet, or is not in debt at all.
NotOverdrawn(p) == sm' + since' + p.size >= sm + since \/ sm' + since' >= 0

\* An arrival keeps the invariant, if its supply and its warning are right.
LEMMA EntersKeeps ==
  ASSUME SignalIInv, NEW q, Before(q), NEW p \in Packets, HasRoom(enqueued, p), Enters(q, p),
         pru' \in 0..MaxPru, sm' \in Int, sm' <= Mtu, since' \in Nat,
         kind \in Bolts => NotOverdrawn(p),
         kind \in Bolts /\ p.type # "ack" /\ QueueSize(enqueued) > Threshold => p.early
  PROVE  SignalIInv'
<1>1. /\ enqueued' = Enqueue(q, p) /\ kind' = kind /\ marked' = marked /\ overtaken' = overtaken
      /\ over' = (over \/ (kind \in {"ecn", "closecn"} /\ QueueSize(enqueued') > Threshold))
      /\ IF servicing = "none" THEN BeginNext(enqueued') ELSE UNCHANGED <<servicing, timedFor, left>>
  BY DEF Enters
<1>2. PICK e \in Queued : e = enqueued' /\ e = Enqueue(q, p)  BY <1>1, BeforeTypes, Joining
<1>3. PICK n \in Nat, b \in Nat, z \in Nat, m \in Nat :
        n = QueueSize(enqueued) /\ b = QueueSize(q) /\ z = p.size /\ z > 0 /\ m = QueueSize(e)
  BY <1>2, SignalParts, BeforeTypes, LevelTypes, PacketSizesBounded
<1>4. m = b + z /\ (b = n \/ (kind = "bolt" /\ b = n + AckSize)) /\ n + z <= Buffer
  BY <1>2, <1>3, BeforeTypes, Joining DEF HasRoom
<1>5. m >= n + z  BY <1>3, <1>4, PacketSizesBounded
<1>6. /\ servicing = "none" => /\ servicing' # "none" /\ left' = timedFor'
      /\ servicing # "none" => servicing' = servicing /\ timedFor' = timedFor /\ left' = left
      /\ servicing' \in Levels /\ e[servicing'] # <<>>
      /\ Head(e[servicing']).size = timedFor'
      /\ timedFor' \in 0..Mtu /\ left' \in 0..timedFor' /\ timedFor' <= m
  <2>1. CASE servicing = "none"
    <3>1. BeginNext(e)  BY <1>1, <1>2, <2>1
    <3>2. m # 0  BY <1>3, <1>5
    <3>3. servicing' # "none" /\ left' = timedFor' /\ timedFor' \in 0..Mtu
      BY <1>3, <3>1, <3>2, BeginNextServes
    <3>4. /\ servicing' \in Levels /\ e[servicing'] # <<>>
          /\ Head(e[servicing']).size = timedFor' /\ timedFor' <= QueueSize(e)
      BY <3>1, <3>3, BeginNextServes
    <3>5. left' \in 0..timedFor'  BY <3>3
    <3>6. QED  BY <1>3, <2>1, <3>3, <3>4, <3>5
  <2>2. CASE servicing # "none"
    <3>1. servicing' = servicing /\ timedFor' = timedFor /\ left' = left  BY <1>1, <2>2
    <3>2. /\ servicing \in Levels /\ enqueued[servicing] # <<>>
          /\ Head(enqueued[servicing]).size = timedFor /\ timedFor <= n
          /\ timedFor \in 0..Mtu /\ left \in 0..timedFor
      BY <1>3, <2>2, SignalParts
    <3>3. q[servicing] # <<>> /\ Head(q[servicing]) = Head(enqueued[servicing])
      BY <3>2, BeforeTypes
    <3>4. e[servicing] # <<>> /\ Head(e[servicing]) = Head(q[servicing])
      BY <1>2, <3>2, <3>3, BeforeTypes, Joining
    <3>5. timedFor <= m
      <4>1. PICK x \in Nat : x = timedFor /\ x <= n  BY <3>2
      <4>2. QED  BY <1>3, <1>5, <4>1
    <3>6. QED  BY <2>2, <3>1, <3>2, <3>3, <3>4, <3>5
  <2>3. QED  BY <2>1, <2>2
<1>7. SignalTypeOK'
  BY <1>1, <1>2, <1>6, SignalParts DEF SignalTypeOK, Queued
<1>8. Serves'
  <2>1. servicing' # "none"  BY <1>6 DEF Levels
  <2>2. m # 0  BY <1>3, <1>5
  <2>3. QED  BY <1>2, <1>3, <2>1, <2>2 DEF Serves
<1>9. Overrun'
  <2>1. m <= Buffer + IF kind = "bolt" THEN AckSize ELSE 0
    BY <1>3, <1>4, PacketSizesBounded
  <2>2. QED  BY <1>1, <1>2, <1>3, <2>1 DEF Overrun
<1>10. Warned'
  <2>1. SUFFICES ASSUME kind \in Bolts
                 PROVE  \A i \in DOMAIN e["lo"] :
                          LevelBytes(SubSeq(e["lo"], 1, i - 1)) > Threshold => e["lo"][i].early
    BY <1>1, <1>2 DEF Warned
  <2>2. PICK s \in Seq(Packets) :
          s = enqueued["lo"] /\ s = q["lo"] /\ LevelBytes(s) \in Nat /\ LevelBytes(s) <= n
    BY <1>3, <2>1, SignalParts, BeforeTypes, LevelTypes DEF Levels
  <2>3. \A i \in 1..Len(s) : LevelBytes(SubSeq(s, 1, i - 1)) > Threshold => s[i].early
    <3>1. Warned  BY DEF SignalIInv, SignalInv
    <3>2. DOMAIN s = 1..Len(s)  BY <2>2, LenProperties
    <3>3. QED  BY <2>1, <2>2, <3>1, <3>2 DEF Warned
  <2>4. CASE Level(p) = "lo"
    <3>1. p.type # "ack"  BY <2>1, <2>4, Levelled DEF BoltLevel
    <3>2. LevelBytes(s) > Threshold => p.early
      BY <1>3, <2>1, <2>2, <3>1, PacketSizesBounded
    <3>3. e["lo"] = Append(s, p)
      <4>1. q \in Queued  BY BeforeTypes
      <4>2. Enqueue(q, p)[Level(p)] = Append(q[Level(p)], p)  BY <4>1, Joining
      <4>3. QED  BY <1>2, <2>2, <2>4, <4>2
    <3>4. QED  BY <2>2, <2>3, <3>2, <3>3, WarnedAppend
  <2>5. CASE Level(p) # "lo"
    <3>1. e["lo"] = s  BY <1>2, <2>2, <2>5, BeforeTypes, Joining DEF Levels
    <3>2. DOMAIN s = 1..Len(s)  BY <2>2, LenProperties
    <3>3. QED  BY <2>3, <3>1, <3>2
  <2>6. QED  BY <2>4, <2>5
<1>11. DebtIsBacklog'
  <2>1. SUFFICES ASSUME kind \in Bolts
                 PROVE  sm' + since' + m - (timedFor' - left') >= 0
    BY <1>1, <1>2, <1>3 DEF DebtIsBacklog
  <2>2. PICK t \in Nat, f \in Nat, u \in Nat, g \in Nat :
          t = timedFor /\ f = left /\ u = timedFor' /\ g = left' /\ f <= t /\ g <= u /\ u <= m
    BY <1>6, SignalParts
  <2>3. PICK a \in Int, c \in Nat, d \in Int, h \in Nat :
          a = sm /\ c = since /\ d = sm' /\ h = since'
    BY SignalParts
  <2>4. a + c + n - (t - f) >= 0
    BY <1>3, <2>1, <2>2, <2>3 DEF SignalIInv, SignalInv, DebtIsBacklog
  <2>5. (servicing = "none" /\ n = 0 /\ t = 0 /\ f = 0 /\ u = g) \/ (u = t /\ g = f)
    <3>1. CASE servicing = "none"
      <4>1. n = 0 /\ t = 0  BY <1>3, <2>2, <3>1, SignalParts
      <4>2. f = 0  BY <2>2, <4>1
      <4>3. QED  BY <1>6, <2>2, <3>1, <4>1, <4>2
    <3>2. CASE servicing # "none"  BY <1>6, <2>2, <3>2
    <3>3. QED  BY <3>1, <3>2
  <2>6. d + h + z >= a + c \/ d + h >= 0  BY <1>3, <2>1, <2>3 DEF NotOverdrawn
  <2>7. d + h + m - (u - g) >= 0
    <3>1. f <= t /\ g <= u /\ u <= m  BY <2>2
    <3>2. CASE n = 0 /\ t = 0 /\ f = 0 /\ u = g
      <4>1. d + h + m >= 0
        <5>1. CASE d + h + z >= a + c
          <6>1. a + c >= 0  BY <2>4, <3>2
          <6>2. QED  BY <1>3, <1>5, <2>3, <3>2, <5>1, <6>1
        <5>2. CASE d + h >= 0  BY ONLY <5>2, d \in Int, h \in Nat, m \in Nat
        <5>3. QED  BY <2>6, <5>1, <5>2
      <4>2. QED  BY <1>3, <2>2, <2>3, <3>2, <4>1
    <3>3. CASE u = t /\ g = f
      <4>1. CASE d + h + z >= a + c
        BY ONLY <1>5, <2>4, <3>3, <4>1, n \in Nat, z \in Nat, m \in Nat, t \in Nat,
                f \in Nat, u \in Nat, g \in Nat, a \in Int, c \in Nat, d \in Int, h \in Nat
      <4>2. CASE d + h >= 0
        BY ONLY <3>1, <4>2, m \in Nat, u \in Nat, g \in Nat, d \in Int, h \in Nat
      <4>3. QED  BY <2>6, <4>1, <4>2
    <3>4. QED  BY <2>5, <3>2, <3>3
  <2>8. QED  BY <2>2, <2>3, <2>7
<1>12. InService'
  <2>1. servicing' # "none"  BY <1>6 DEF Levels
  <2>2. QED  BY <1>2, <1>6, <2>1 DEF InService
<1>13. StillOver'
  <2>1. StillOver  BY DEF SignalIInv
  <2>2. n > Threshold => m > Threshold  BY <1>3, <1>5, PacketSizesBounded
  <2>3. QED  BY <1>1, <1>2, <1>3, <2>1, <2>2 DEF StillOver
<1>14. AckIsNext'
  <2>1. AckIsNext  BY DEF SignalIInv
  <2>2. servicing = "hi" => servicing' = "hi"  BY <1>6
  <2>3. QED  BY <1>1, <2>1, <2>2 DEF AckIsNext
<1>15. QED
  BY <1>7, <1>8, <1>9, <1>10, <1>11, <1>12, <1>13, <1>14 DEF SignalIInv, SignalInv

\* The supply less this packet, and no more than a packet.
LEMMA SupplyTypes ==
  ASSUME SignalIInv, NEW p \in Packets
  PROVE  /\ Supplied(p) \in Int /\ Supplied(p) <= Mtu
         /\ Supplied(p) = Mtu \/ Supplied(p) = sm + since - p.size
<1>1. PICK a \in Int : a = sm + since - p.size  BY SignalParts, PacketSizesBounded
<1>2. Mtu \in Int  BY PacketSizesBounded
<1>3. \E x \in {a, Mtu} : \A y \in {a, Mtu} : x <= y
  <2>1. CASE a <= Mtu  BY <1>1, <1>2, <2>1
  <2>2. CASE Mtu <= a  BY <1>1, <1>2, <2>2
  <2>3. QED  BY <1>1, <1>2, <2>1, <2>2
<1>4. Min({a, Mtu}) \in {a, Mtu} /\ Min({a, Mtu}) <= Mtu  BY <1>3 DEF Min
<1>5. Supplied(p) = Min({a, Mtu})  BY <1>1 DEF Supplied
<1>6. QED  BY <1>1, <1>2, <1>4, <1>5

\* Data pays for itself, and for an increase only out of a full supply.
LEMMA TokensPay ==
  ASSUME SignalIInv, NEW p \in Packets, NEW ends, NEW asks, Tokens(p, ends, asks)
  PROVE  /\ pru' \in 0..MaxPru /\ sm' \in Int /\ sm' <= Mtu /\ since' \in Nat
         /\ NotOverdrawn(p)
<1>1. PICK s \in Int, a \in Int, c \in Nat, z \in Nat :
        /\ s = Supplied(p) /\ a = sm /\ c = since /\ z = p.size /\ s <= Mtu
        /\ s = Mtu \/ s = a + c - z
  BY SignalParts, SupplyTypes, PacketSizesBounded
<1>2. since' = 0 /\ pru \in 0..MaxPru /\ MaxPru \in Nat /\ Mtu \in Nat
  BY SignalParts, PacketSizesBounded DEF Tokens
<1>3. /\ pru' \in 0..MaxPru
      /\ sm' = s \/ (s >= Mtu /\ sm' = s - Mtu)
  <2>1. CASE sm' = s /\ pru' = pru  BY <1>2, <2>1
  <2>2. CASE pru < MaxPru /\ pru' = pru + 1 /\ sm' = s  BY <1>2, <2>2
  <2>3. CASE Pays(s)
    <3>1. CASE pru > 0 /\ pru' = pru - 1 /\ sm' = s  BY <1>2, <3>1
    <3>2. CASE pru = 0 /\ s >= Mtu /\ sm' = s - Mtu /\ pru' = pru  BY <1>2, <3>2
    <3>3. CASE pru = 0 /\ s < Mtu /\ sm' = s /\ pru' = pru  BY <1>2, <3>3
    <3>4. QED  BY <2>3, <3>1, <3>2, <3>3 DEF Pays
  <2>4. QED  BY <1>1, <2>1, <2>2, <2>3 DEF Tokens
<1>4. sm' \in Int /\ sm' <= Mtu  BY <1>1, <1>2, <1>3
<1>5. NotOverdrawn(p)
  <2>1. PICK d \in Int : d = sm' /\ (d = s \/ (s >= Mtu /\ d = s - Mtu))  BY <1>3, <1>4
  <2>2. d + 0 + z >= a + c \/ d + 0 >= 0
    <3>1. CASE d = s /\ s = Mtu  BY <1>2, <3>1
    <3>2. CASE d = s /\ s = a + c - z  BY <3>2
    <3>3. CASE s >= Mtu /\ d = s - Mtu  BY <1>2, <3>3
    <3>4. QED  BY <1>1, <2>1, <3>1, <3>2, <3>3
  <2>3. QED  BY <1>1, <1>2, <2>1, <2>2 DEF NotOverdrawn
<1>6. QED  BY <1>2, <1>3, <1>4, <1>5

\* An arrival that leaves the tokens alone.
LEMMA PlainArrival ==
  ASSUME SignalIInv, NEW p \in Packets, HasRoom(enqueued, p), Enters(enqueued, p),
         UNCHANGED tokens, kind \in Bolts => p.type = "ack"
  PROVE  SignalIInv'
<1>1. pru' = pru /\ sm' = sm /\ since' = since  BY DEF tokens
<1>2. NotOverdrawn(p)
  <2>1. sm \in Int /\ since \in Nat /\ p.size \in Nat  BY SignalParts, PacketSizesBounded
  <2>2. QED  BY <1>1, <2>1 DEF NotOverdrawn
<1>3. Before(enqueued)  BY DEF Before
<1>4. QED  BY <1>1, <1>2, <1>3, SignalParts, EntersKeeps

\* Data that this queue has seen is the data that came, warned of if need be.
LEMMA SeenTypes ==
  ASSUME NEW p \in Packets
  PROVE  p.type # "ack" =>
           /\ Seen(p) \in Packets /\ Seen(p).size = p.size /\ Seen(p).type = p.type
           /\ QueueSize(enqueued) > Threshold => Seen(p).early
<1>1. SUFFICES ASSUME p.type # "ack"
               PROVE  /\ Seen(p) \in Packets /\ Seen(p).size = p.size /\ Seen(p).type = p.type
                      /\ QueueSize(enqueued) > Threshold => Seen(p).early
  OBVIOUS
<1>2. p \in [type : {"data", "again"}, size : PacketSizes, early : BOOLEAN]
  BY <1>1 DEF Packets
<1>3. PICK w \in BOOLEAN : w = (p.early \/ Warns(p))  BY <1>2
<1>4. PICK r : r = Seen(p) /\ r = [p EXCEPT !.early = w]  BY <1>3 DEF Seen
<1>5. /\ r \in [type : {"data", "again"}, size : PacketSizes, early : BOOLEAN]
      /\ r.size = p.size /\ r.type = p.type /\ r.early = w
  BY <1>2, <1>3, <1>4
<1>6. r \in Packets  BY <1>5 DEF Packets
<1>7. QueueSize(enqueued) > Threshold => w  BY <1>2, <1>3 DEF Warns
<1>8. QueueSize(enqueued) > Threshold => r.early  BY <1>5, <1>7
<1>9. QED  BY <1>4, <1>5, <1>6, <1>8

\* Whatever has come, the invariant holds.
LEMMA ArrivalStep ==
  ASSUME SignalIInv, NEW p \in Arrivals,
         \/ QueueReceives(p) \/ ClosQueueReceives(p)
         \/ ECNReceives(p) \/ ClosECNReceives(p)
         \/ INTReceives(p) \/ ClosINTReceives(p)
         \/ NICReceives(p)
         \/ \E ends, asks \in BOOLEAN : BoltReceives(p, ends, asks) \/ ClosBoltReceives(p, ends, asks)
  PROVE  SignalIInv'
<1>1. p \in Packets  BY DEF Arrivals
<1>2. \A k \in Bolts : k = "bolt" \/ k = "closbolt"  BY DEF Bolts
<1>3. ASSUME kind \notin Bolts, HasRoom(enqueued, p), Enters(enqueued, p), UNCHANGED tokens
      PROVE  SignalIInv'
  BY <1>1, <1>3, PlainArrival
<1>4. ASSUME p.type = "ack", HasRoom(enqueued, p), Enters(enqueued, p), UNCHANGED tokens
      PROVE  SignalIInv'
  BY <1>1, <1>4, PlainArrival
<1>5. ASSUME NEW ends, NEW asks, p.type # "ack", HasRoom(enqueued, p), Tokens(p, ends, asks),
             NEW q, Before(q), Enters(q, Seen(p))
      PROVE  SignalIInv'
  <2>2. PICK r \in Packets :
          /\ r = Seen(p) /\ r.size = p.size /\ r.type = p.type
          /\ QueueSize(enqueued) > Threshold => r.early
    BY <1>1, <1>5, SeenTypes
  <2>3. /\ pru' \in 0..MaxPru /\ sm' \in Int /\ sm' <= Mtu /\ since' \in Nat
        /\ NotOverdrawn(p)
    BY <1>1, <1>5, TokensPay
  <2>4. NotOverdrawn(r)  BY <2>2, <2>3 DEF NotOverdrawn
  <2>5. HasRoom(enqueued, r) /\ Enters(q, r)  BY <1>5, <2>2 DEF HasRoom
  <2>6. QED  BY <1>5, <2>2, <2>3, <2>4, <2>5, EntersKeeps
<1>6. ASSUME NEW ends, NEW asks, BoltReceives(p, ends, asks)  PROVE SignalIInv'
  <2>1. CASE p.type = "ack"  BY <1>4, <1>6, <2>1 DEF BoltReceives
  <2>2. CASE p.type # "ack"
    <3>1. PICK q \in IF Warns(p) THEN AfterFeedback(enqueued) ELSE {enqueued} : Enters(q, Seen(p))
      BY <1>6, <2>2 DEF BoltReceives
    <3>2. HasRoom(enqueued, p) /\ Tokens(p, ends, asks) /\ kind = "bolt"
      BY <1>6, <2>2 DEF BoltReceives
    <3>3. Before(q)  BY <3>1, <3>2 DEF Before, AfterFeedback
    <3>4. QED  BY <1>5, <2>2, <3>1, <3>2, <3>3
  <2>3. QED  BY <2>1, <2>2
<1>7. ASSUME NEW ends, NEW asks, ClosBoltReceives(p, ends, asks)  PROVE SignalIInv'
  <2>1. CASE p.type = "ack"  BY <1>4, <1>7, <2>1 DEF ClosBoltReceives
  <2>2. CASE p.type # "ack"
    <3>1. HasRoom(enqueued, p) /\ Tokens(p, ends, asks) /\ Enters(enqueued, Seen(p))
      BY <1>7, <2>2 DEF ClosBoltReceives
    <3>2. Before(enqueued)  BY DEF Before
    <3>3. QED  BY <1>5, <2>2, <3>1, <3>2
  <2>3. QED  BY <2>1, <2>2
<1>8. ASSUME QueueReceives(p)  PROVE SignalIInv'  BY <1>2, <1>3, <1>8 DEF QueueReceives
<1>9. ASSUME ClosQueueReceives(p)  PROVE SignalIInv'  BY <1>2, <1>3, <1>9 DEF ClosQueueReceives
<1>10. ASSUME ECNReceives(p)  PROVE SignalIInv'  BY <1>2, <1>3, <1>10 DEF ECNReceives
<1>11. ASSUME ClosECNReceives(p)  PROVE SignalIInv'  BY <1>2, <1>3, <1>11 DEF ClosECNReceives
<1>12. ASSUME INTReceives(p)  PROVE SignalIInv'  BY <1>2, <1>3, <1>12 DEF INTReceives
<1>13. ASSUME ClosINTReceives(p)  PROVE SignalIInv'  BY <1>2, <1>3, <1>13 DEF ClosINTReceives
<1>14. ASSUME NICReceives(p)  PROVE SignalIInv'  BY <1>2, <1>3, <1>14 DEF NICReceives
<1>15. QED
  BY <1>6, <1>7, <1>8, <1>9, <1>10, <1>11, <1>12, <1>13, <1>14

\* The packet in service leaves, and the invariant holds.
LEMMA LeavesKeeps ==
  ASSUME SignalIInv, NEW mark \in BOOLEAN, Leaves(servicing, mark)
  PROVE  SignalIInv'
<1>1. PICK k \in Levels : k = servicing /\ enqueued[k] # <<>> /\ Head(enqueued[k]).size = timedFor
  BY SignalParts DEF Leaves
<1>2. PICK e : e = enqueued' /\ e = [enqueued EXCEPT ![k] = Tail(@)]  BY <1>1 DEF Leaves
<1>3. /\ e \in Queued /\ e[k] = Tail(enqueued[k]) /\ \A l \in Levels \ {k} : e[l] = enqueued[l]
      /\ QueueSize(e) = QueueSize(enqueued) - timedFor
  <2>1. PICK q \in Queued : q = enqueued  BY SignalParts
  <2>2. q[k] # <<>> /\ Head(q[k]).size = timedFor /\ HeadGone(e, q, k)
    BY <1>1, <1>2, <2>1 DEF HeadGone
  <2>3. /\ e \in Queued /\ e[k] = Tail(q[k]) /\ \A l \in Levels \ {k} : e[l] = q[l]
        /\ QueueSize(e) = QueueSize(q) - Head(q[k]).size
    BY <2>2, Leaving
  <2>4. QED  BY <2>1, <2>2, <2>3
<1>4. PICK n \in Nat, m \in Nat, t \in Nat :
        n = QueueSize(enqueued) /\ m = QueueSize(e) /\ t = timedFor /\ m = n - t
  BY <1>3, SignalParts, LevelTypes
<1>5. BeginNext(e) /\ kind' = kind /\ pru' = pru /\ sm' = sm /\ since' = since /\ left = 0
  BY <1>1, <1>2 DEF Leaves, tokens
<1>6. /\ marked' = mark /\ over' = (kind \in {"ecn", "closecn"} /\ QueueSize(e) > Threshold)
      /\ overtaken' = IF kind \in Bolts \cup {"nic"} /\ k # "hi" /\ enqueued["hi"] # <<>>
                      THEN overtaken + 1 ELSE 0
  BY <1>1, <1>2 DEF Leaves
<1>7. /\ servicing' = "none" <=> QueueSize(e) = 0
      /\ servicing' = "none" => timedFor' = 0
      /\ servicing' # "none" => /\ servicing' \in Levels /\ e[servicing'] # <<>>
                                /\ Head(e[servicing']).size = timedFor'
      /\ timedFor' \in 0..Mtu /\ left' = timedFor'
      /\ e["hi"] # <<>> => servicing' = "hi"
  BY <1>3, <1>5, BeginNextServes
<1>8. SignalTypeOK'
  <2>1. left' \in 0..timedFor' /\ servicing' \in Levels \cup {"none"}  BY <1>7
  <2>2. overtaken' \in Nat  BY <1>6, SignalParts
  <2>3. marked' \in BOOLEAN /\ over' \in BOOLEAN  BY <1>6
  <2>4. QED  BY <1>2, <1>3, <1>5, <1>7, <2>1, <2>2, <2>3, SignalParts DEF SignalTypeOK, Queued
<1>9. Serves' /\ InService'  BY <1>2, <1>7 DEF Serves, InService
<1>10. Overrun'
  <2>1. n <= Buffer + IF kind = "bolt" THEN AckSize ELSE 0
    BY <1>4 DEF SignalIInv, SignalInv, Overrun
  <2>2. m <= Buffer + IF kind = "bolt" THEN AckSize ELSE 0
    BY <1>4, <2>1, PacketSizesBounded
  <2>3. QED  BY <1>2, <1>4, <1>5, <2>2 DEF Overrun
<1>11. Warned'
  <2>1. SUFFICES ASSUME kind \in Bolts
                 PROVE  \A i \in DOMAIN e["lo"] :
                          LevelBytes(SubSeq(e["lo"], 1, i - 1)) > Threshold => e["lo"][i].early
    BY <1>2, <1>5 DEF Warned
  <2>2. PICK s \in Seq(Packets) : s = enqueued["lo"]
    BY SignalParts, LevelTypes DEF Levels
  <2>3. \A i \in 1..Len(s) : LevelBytes(SubSeq(s, 1, i - 1)) > Threshold => s[i].early
    <3>1. Warned  BY DEF SignalIInv, SignalInv
    <3>2. DOMAIN s = 1..Len(s)  BY <2>2, LenProperties
    <3>3. QED  BY <2>1, <2>2, <3>1, <3>2 DEF Warned
  <2>4. CASE k = "lo"
    <3>1. s # <<>> /\ e["lo"] = Tail(s)  BY <1>1, <1>3, <2>2, <2>4
    <3>2. QED  BY <2>2, <2>3, <3>1, WarnedTail
  <2>5. CASE k # "lo"
    <3>1. e["lo"] = s  BY <1>3, <2>2, <2>5 DEF Levels
    <3>2. DOMAIN s = 1..Len(s)  BY <2>2, LenProperties
    <3>3. QED  BY <2>3, <3>1, <3>2
  <2>6. QED  BY <2>4, <2>5
<1>12. DebtIsBacklog'
  <2>1. SUFFICES ASSUME kind \in Bolts
                 PROVE  sm' + since' + m - (timedFor' - left') >= 0
    BY <1>2, <1>4, <1>5 DEF DebtIsBacklog
  <2>2. PICK a \in Int, c \in Nat : a = sm /\ c = since  BY SignalParts
  <2>3. a + c + n - (t - 0) >= 0
    BY <1>4, <1>5, <2>1, <2>2 DEF SignalIInv, SignalInv, DebtIsBacklog
  <2>4. PICK u \in Nat : u = timedFor' /\ u = left'  BY <1>7
  <2>5. a + c + m - (u - u) >= 0  BY <1>4, <2>2, <2>3, <2>4
  <2>6. QED  BY <1>5, <2>2, <2>4, <2>5
<1>13. StillOver'  BY <1>2, <1>5, <1>6 DEF StillOver
<1>14. AckIsNext'
  <2>1. CASE kind \in Bolts \cup {"nic"} /\ k # "hi" /\ enqueued["hi"] # <<>>
    <3>1. overtaken = 0  BY <1>1, <2>1 DEF SignalIInv, AckIsNext
    <3>2. e["hi"] # <<>>  BY <1>3, <2>1 DEF Levels
    <3>3. QED  BY <1>6, <1>7, <2>1, <3>1, <3>2 DEF AckIsNext
  <2>2. CASE ~ (kind \in Bolts \cup {"nic"} /\ k # "hi" /\ enqueued["hi"] # <<>>)
    BY <1>6, <2>2 DEF AckIsNext
  <2>3. QED  BY <2>1, <2>2
<1>15. QED
  BY <1>8, <1>9, <1>10, <1>11, <1>12, <1>13, <1>14 DEF SignalIInv, SignalInv

\* The time of a byte passes: what the supply gains, the service has sent.
LEMMA TickKeeps ==
  ASSUME SignalIInv, Tick
  PROVE  SignalIInv'
<1>1. /\ kind' = kind /\ enqueued' = enqueued /\ servicing' = servicing /\ timedFor' = timedFor
      /\ pru' = pru /\ sm' = sm /\ over' = over /\ marked' = marked /\ overtaken' = overtaken
      /\ servicing = "none" \/ left > 0
      /\ left' = IF servicing = "none" THEN 0 ELSE left - 1
      /\ since' = IF kind \in Bolts /\ since < SinceBound THEN since + 1 ELSE since
  BY DEF Tick
<1>2. left' \in 0..timedFor /\ since' \in Nat  BY <1>1, SignalParts
<1>3. SignalTypeOK'  BY <1>1, <1>2, SignalParts DEF SignalTypeOK, Queued
<1>4. Serves' /\ Overrun' /\ Warned' /\ InService' /\ StillOver' /\ AckIsNext'
  BY <1>1
  DEF SignalIInv, SignalInv, Serves, Overrun, Warned, InService, StillOver, AckIsNext
<1>5. DebtIsBacklog'
  <2>1. SUFFICES ASSUME kind \in Bolts
                 PROVE  sm + since' + QueueSize(enqueued) - (timedFor - left') >= 0
    BY <1>1 DEF DebtIsBacklog
  <2>2. PICK n \in Nat, t \in Nat, f \in Nat, g \in Nat, a \in Int, c \in Nat, h \in Nat :
          /\ n = QueueSize(enqueued) /\ t = timedFor /\ f = left /\ g = left' /\ a = sm
          /\ c = since /\ h = since' /\ f <= t /\ t <= n
    BY <1>2, SignalParts, SMTT(30)
  <2>3. a + c + n - (t - f) >= 0
    BY <2>1, <2>2 DEF SignalIInv, SignalInv, DebtIsBacklog
  <2>4. (t = 0 /\ f = 0 /\ g = 0) \/ g = f - 1
    <3>1. CASE servicing = "none"
      <4>1. t = 0  BY <2>2, <3>1, SignalParts
      <4>2. f = 0 /\ g = 0  BY <1>1, <2>2, <3>1, <4>1
      <4>3. QED  BY <4>1, <4>2
    <3>2. CASE servicing # "none"  BY <1>1, <2>2, <3>2
    <3>3. QED  BY <3>1, <3>2
  <2>5. h = c + 1 \/ (h = c /\ c >= 2 * Mtu - a)
    <3>1. SinceBound \in Int /\ SinceBound = 2 * Mtu - a
      BY <2>2, PacketSizesBounded DEF SinceBound
    <3>2. QED  BY <1>1, <2>1, <2>2, <3>1
  <2>6. a + h + n - (t - g) >= 0
    <3>1. CASE h = c + 1 /\ g = f - 1
      BY ONLY <2>3, <3>1, n \in Nat, t \in Nat, f \in Nat, g \in Nat, a \in Int, c \in Nat, h \in Nat
    <3>2. CASE h = c + 1 /\ t = 0 /\ f = 0 /\ g = 0
      BY ONLY <2>3, <3>2, n \in Nat, t \in Nat, f \in Nat, g \in Nat, a \in Int, c \in Nat, h \in Nat
    <3>3. CASE h = c /\ c >= 2 * Mtu - a
      <4>1. t <= n /\ Mtu \in Nat  BY <2>2, PacketSizesBounded
      <4>2. QED
        BY ONLY <3>3, <4>1, n \in Nat, t \in Nat, g \in Nat, a \in Int, c \in Nat, h \in Nat
    <3>4. QED  BY <2>4, <2>5, <3>1, <3>2, <3>3
  <2>7. QED  BY <2>2, <2>6
<1>6. QED  BY <1>3, <1>4, <1>5 DEF SignalIInv, SignalInv

\* The invariant is kept by every step of these queues.
LEMMA SignalStep ==
  ASSUME SignalIInv, [SignalNext]_signalVars
  PROVE  SignalIInv'
<1>1. ASSUME NEW p \in Arrivals,
             \/ QueueReceives(p) \/ ClosQueueReceives(p)
             \/ ECNReceives(p) \/ ClosECNReceives(p)
             \/ INTReceives(p) \/ ClosINTReceives(p)
             \/ NICReceives(p)
             \/ \E ends, asks \in BOOLEAN : BoltReceives(p, ends, asks) \/ ClosBoltReceives(p, ends, asks)
      PROVE  SignalIInv'
  BY <1>1, ArrivalStep
<1>2. ASSUME \/ QueueCompletes \/ ClosQueueCompletes \/ ECNCompletes \/ ClosECNCompletes
             \/ INTCompletes \/ ClosINTCompletes \/ BoltCompletes \/ ClosBoltCompletes \/ NICCompletes
      PROVE  SignalIInv'
  <2>1. Mark \in BOOLEAN  BY DEF Mark
  <2>2. Leaves(servicing, FALSE) \/ Leaves(servicing, Mark)
    BY <1>2
    DEF QueueCompletes, ClosQueueCompletes, ECNCompletes, ClosECNCompletes, INTCompletes,
        ClosINTCompletes, BoltCompletes, ClosBoltCompletes, NICCompletes
  <2>3. QED  BY <2>1, <2>2, LeavesKeeps
<1>3. ASSUME Tick  PROVE SignalIInv'  BY <1>3, TickKeeps
<1>4. ASSUME UNCHANGED signalVars  PROVE SignalIInv'
  <2>1. /\ kind' = kind /\ enqueued' = enqueued /\ servicing' = servicing /\ timedFor' = timedFor
        /\ left' = left /\ pru' = pru /\ sm' = sm /\ since' = since /\ over' = over
        /\ marked' = marked /\ overtaken' = overtaken
    BY <1>4 DEF signalVars
  <2>2. QED
    BY <2>1
    DEF SignalIInv, SignalInv, SignalTypeOK, Serves, Overrun, Warned, DebtIsBacklog, InService,
        StillOver, AckIsNext
<1>5. QED  BY <1>1, <1>2, <1>3, <1>4 DEF SignalNext

\* It holds at the start.
LEMMA SignalStart ==
  ASSUME SignalInit
  PROVE  SignalIInv
<1>1. /\ kind \in Kinds /\ servicing = "none" /\ timedFor = 0 /\ left = 0
      /\ pru = 0 /\ sm = 0 /\ since = 0 /\ over = FALSE /\ marked = FALSE /\ overtaken = 0
  BY DEF SignalInit
<1>2. PICK none : none = <<>>  OBVIOUS
<1>3. none \in Seq(Packets)  BY <1>2, EmptySeq
<1>4. PICK e : e = enqueued /\ e = [l \in Levels |-> none]  BY <1>2 DEF SignalInit
<1>5. e \in Queued /\ \A l \in Levels : e[l] = none  BY <1>3, <1>4 DEF Queued
<1>6. QueueSize(e) = 0  BY <1>2, <1>5, LevelTypes
<1>7. SignalTypeOK
  <2>1. 0 \in 0..Mtu /\ 0 \in 0..0 /\ 0 \in 0..MaxPru /\ 0 <= Mtu  BY PacketSizesBounded
  <2>2. enqueued \in [Levels -> Seq(Packets)]  BY <1>4, <1>5 DEF Queued
  <2>3. {over, marked} \subseteq BOOLEAN  BY <1>1
  <2>4. timedFor \in 0..Mtu /\ left \in 0..timedFor /\ pru \in 0..MaxPru
    BY <1>1, <2>1
  <2>5. sm \in Int /\ sm <= Mtu /\ since \in Nat /\ overtaken \in Nat  BY <1>1, <2>1
  <2>6. QED  BY <1>1, <2>2, <2>3, <2>4, <2>5 DEF SignalTypeOK
<1>8. Serves /\ Overrun /\ DebtIsBacklog /\ InService /\ StillOver /\ AckIsNext
  BY <1>1, <1>4, <1>6, PacketSizesBounded
  DEF Serves, Overrun, DebtIsBacklog, InService, StillOver, AckIsNext
<1>9. Warned
  <2>1. enqueued["lo"] = none  BY <1>4, <1>5 DEF Levels
  <2>2. DOMAIN none = {}  BY <1>2
  <2>3. QED  BY <2>1, <2>2 DEF Warned
<1>10. QED  BY <1>7, <1>8, <1>9 DEF SignalIInv, SignalInv

-----------------------------------------------------------------------------
(* The theorems *)

\* The inductive invariant of whichever queue it is.
THEOREM QueueInvariance == MCSpec => []IInv
<1>1. MCInit => IInv
  BY TrimStart, SignalStart DEF MCInit, IInv
<1>2. IInv /\ [MCNext]_mcVars => IInv'
  <2>1. SUFFICES ASSUME IInv, [MCNext]_mcVars  PROVE IInv'  OBVIOUS
  <2>2. [Next]_vars /\ [SignalNext]_signalVars  BY <2>1 DEF MCNext, mcVars
  <2>3. TrimIInv' /\ SignalIInv'  BY <2>1, <2>2, TrimStep, SignalStep DEF IInv
  <2>4. QED  BY <2>3 DEF IInv
<1>3. QED  BY <1>1, <1>2, PTL DEF MCSpec

\* The trimming queue keeps its counts within its buffers, is served whenever
\* a packet waits and sends no RLB packet on a wrong link; the queues of TCP
\* flows overrun their buffer by one ack of early feedback at most, warn every
\* source of congestion, and grant increases only out of unused capacity.
THEOREM QueuesSound == MCSpec => []EachInv
<1>1. IInv => EachInv  BY DEF IInv, TrimIInv, SignalIInv, EachInv
<1>2. QED  BY <1>1, QueueInvariance, PTL

\* While headers and data both wait, neither is passed by more packets of the
\* other than fit in a turn of _crt, and one; an ack waits for one packet.
THEOREM NoQueueStarves == MCSpec => []EachNoStarvation
<1>1. IInv => EachNoStarvation
  <2>1. SUFFICES ASSUME IInv  PROVE NoStarvation /\ AckWaitsForOne  BY DEF EachNoStarvation
  <2>2. HeadersPass /\ DataPasses /\ AckIsNext /\ passed.count \in Nat
    BY <2>1 DEF IInv, TrimIInv, SignalIInv, Inv, TypeOK, TrimTypeOK
  <2>3. AckWaitsForOne  BY <2>2 DEF AckIsNext, AckWaitsForOne
  <2>4. /\ RatioHigh \in Nat \ {0} /\ Header \in Nat \ {0}
        /\ RatioLow \in Nat \ {0} /\ Smallest \in Nat \ {0}
    BY Sizes
  <2>5. PICK x \in Nat, y \in Nat :
          x = Rounds(RatioHigh, Header) + 1 /\ y = Rounds(RatioLow, Smallest) + 1
    <3>1. Rounds(RatioHigh, Header) \in Nat \ {0}  BY <2>4, RoundsBound
    <3>2. Rounds(RatioLow, Smallest) \in Nat \ {0}  BY <2>4, RoundsBound
    <3>3. QED  BY <3>1, <3>2
  <2>6. passed.queue = "high" => passed.count <= x  BY <2>2, <2>5 DEF HeadersPass
  <2>7. passed.queue = "low" => passed.count <= y  BY <2>2, <2>5 DEF DataPasses
  <2>8. NoStarvation  BY <2>5, <2>6, <2>7 DEF NoStarvation, Smallest
  <2>9. QED  BY <2>3, <2>8
<1>2. QED  BY <1>1, QueueInvariance, PTL

\* What joins a queue when p comes.
Comes(p, r) == r = p \/ (p.type # "ack" /\ r = Seen(p))

\* An arrival takes nothing out of any level.
LEMMA ArrivalGrows ==
  ASSUME SignalIInv, NEW p \in Arrivals,
         \/ QueueReceives(p) \/ ClosQueueReceives(p)
         \/ ECNReceives(p) \/ ClosECNReceives(p)
         \/ INTReceives(p) \/ ClosINTReceives(p)
         \/ NICReceives(p)
         \/ \E ends, asks \in BOOLEAN : BoltReceives(p, ends, asks) \/ ClosBoltReceives(p, ends, asks),
         NEW l \in Levels
  PROVE  Len(enqueued'[l]) >= Len(enqueued[l])
<1>1. PICK q, r : Before(q) /\ Comes(p, r) /\ enqueued' = Enqueue(q, r)
  <2>1. ASSUME NEW r, Comes(p, r), Enters(enqueued, r)
        PROVE  Before(enqueued) /\ Comes(p, r) /\ enqueued' = Enqueue(enqueued, r)
    BY <2>1 DEF Before, Enters
  <2>2. ASSUME NEW ends, NEW asks, BoltReceives(p, ends, asks)
        PROVE  \E q, r : Before(q) /\ Comes(p, r) /\ enqueued' = Enqueue(q, r)
    <3>1. CASE p.type = "ack"  BY <2>1, <2>2, <3>1 DEF BoltReceives, Comes
    <3>2. CASE p.type # "ack"
      <4>1. PICK q \in IF Warns(p) THEN AfterFeedback(enqueued) ELSE {enqueued} : Enters(q, Seen(p))
        BY <2>2, <3>2 DEF BoltReceives
      <4>2. Before(q)  BY <2>2, <4>1 DEF Before, AfterFeedback, BoltReceives
      <4>3. enqueued' = Enqueue(q, Seen(p))  BY <4>1 DEF Enters
      <4>4. Comes(p, Seen(p))  BY <3>2 DEF Comes
      <4>5. QED  BY <4>2, <4>3, <4>4
    <3>3. QED  BY <3>1, <3>2
  <2>3. ASSUME NEW ends, NEW asks, ClosBoltReceives(p, ends, asks)
        PROVE  \E q, r : Before(q) /\ Comes(p, r) /\ enqueued' = Enqueue(q, r)
    <3>1. Enters(enqueued, p) \/ (p.type # "ack" /\ Enters(enqueued, Seen(p)))
      BY <2>3 DEF ClosBoltReceives
    <3>2. QED  BY <2>1, <3>1 DEF Comes
  <2>4. CASE Enters(enqueued, p)  BY <2>1, <2>4 DEF Comes
  <2>5. QED
    BY <2>2, <2>3, <2>4
    DEF QueueReceives, ClosQueueReceives, ECNReceives, ClosECNReceives, INTReceives,
        ClosINTReceives, NICReceives
<1>2. r \in Packets  BY <1>1, SeenTypes DEF Arrivals, Comes
<1>3. PICK e \in Queued : e = enqueued' /\ e = Enqueue(q, r)
  BY <1>1, <1>2, BeforeTypes, Joining
<1>4. ASSUME NEW k \in Levels, NEW a \in Queued, NEW t \in Packets
      PROVE  Len(Enqueue(a, t)[k]) >= Len(a[k])
  <2>1. PICK s \in Seq(Packets) : s = a[k]  BY LevelTypes
  <2>2. Len(s) \in Nat  BY LenProperties
  <2>3. CASE k = Level(t)
    <3>1. Enqueue(a, t)[k] = Append(s, t)  BY <2>1, <2>3, Joining
    <3>2. QED  BY <2>1, <2>2, <3>1, AppendProperties
  <2>4. CASE k # Level(t)
    <3>1. Enqueue(a, t)[k] = s  BY <2>1, <2>4, Joining
    <3>2. QED  BY <2>1, <2>2, <3>1
  <2>5. QED  BY <2>3, <2>4
<1>5. PICK x \in Nat, y \in Nat, z \in Nat :
        x = Len(enqueued[l]) /\ y = Len(q[l]) /\ z = Len(e[l])
  BY <1>1, SignalParts, BeforeTypes, LevelTypes, LenProperties
<1>6. y >= x
  <2>1. q = enqueued \/ q = Enqueue(enqueued, Feedback)  BY <1>1 DEF Before
  <2>2. Len(Enqueue(enqueued, Feedback)[l]) >= Len(enqueued[l])
    BY <1>4, SignalParts, PacketSizesBounded
  <2>3. QED  BY <1>5, <2>1, <2>2
<1>7. z >= y  BY <1>1, <1>2, <1>3, <1>4, <1>5, BeforeTypes
<1>8. QED  BY <1>3, <1>5, <1>6, <1>7

\* A packet leaves after the time its own size takes, whatever was added, cut
\* or fed back since its service began; the first packet to leave an ECNQueue
\* that was over its threshold is marked.
THEOREM QueuesServeAsTimed == MCSpec => EachServedAsTimed
<1> DEFINE A == /\ serv = "low" /\ Len(low') < Len(low) => Head(low) = timed
                /\ serv = "high" /\ high' < high => Header = timed
           B == \A l \in Levels :
                  Len(enqueued'[l]) < Len(enqueued[l]) =>
                    left = 0 /\ Head(enqueued[l]).size = timedFor /\ (over => marked')
<1>1. IInv => A  BY DEF IInv, TrimIInv, Served
<1>2. IInv /\ [SignalNext]_signalVars => [B]_signalVars
  <2>1. SUFFICES ASSUME SignalIInv, SignalNext, NEW l \in Levels,
                        Len(enqueued'[l]) < Len(enqueued[l])
                 PROVE  left = 0 /\ Head(enqueued[l]).size = timedFor /\ (over => marked')
    BY DEF IInv
  <2>2. PICK x \in Nat : x = Len(enqueued[l])
    BY <2>1, SignalParts, LevelTypes, LenProperties
  <2>3. ASSUME NEW mark, Leaves(servicing, mark), over => mark
        PROVE  left = 0 /\ Head(enqueued[l]).size = timedFor /\ (over => marked')
    <3>1. left = 0 /\ servicing # "none" /\ marked' = mark  BY <2>3 DEF Leaves
    <3>2. l = servicing
      <4>1. SUFFICES ASSUME l # servicing  PROVE enqueued'[l] = enqueued[l]
        BY <2>1, <2>2
      <4>2. enqueued' = [enqueued EXCEPT ![servicing] = Tail(@)]  BY <2>3 DEF Leaves
      <4>3. DOMAIN enqueued = Levels  BY <2>1, SignalParts DEF Queued
      <4>4. QED  BY <4>1, <4>2, <4>3
    <3>3. Head(enqueued[servicing]).size = timedFor  BY <2>1, <3>1, SignalParts
    <3>4. QED  BY <2>3, <3>1, <3>2, <3>3
  <2>4. ASSUME NEW p \in Arrivals,
               \/ QueueReceives(p) \/ ClosQueueReceives(p)
               \/ ECNReceives(p) \/ ClosECNReceives(p)
               \/ INTReceives(p) \/ ClosINTReceives(p)
               \/ NICReceives(p)
               \/ \E ends, asks \in BOOLEAN :
                    BoltReceives(p, ends, asks) \/ ClosBoltReceives(p, ends, asks)
        PROVE  FALSE
    <3>1. Len(enqueued'[l]) >= Len(enqueued[l])  BY <2>1, <2>4, ArrivalGrows
    <3>2. PICK y : y = Len(enqueued'[l])  OBVIOUS
    <3>3. y < x /\ y >= x  BY <2>1, <2>2, <3>1, <3>2
    <3>4. y \in Int  BY <2>1, <2>4, ArrivalStep, SignalParts, LevelTypes, LenProperties, <3>2
    <3>5. QED  BY <2>2, <3>3, <3>4
  <2>5. ASSUME \/ QueueCompletes \/ ClosQueueCompletes \/ INTCompletes \/ ClosINTCompletes
               \/ BoltCompletes \/ ClosBoltCompletes \/ NICCompletes
        PROVE  Leaves(servicing, FALSE) /\ ~ over
    <3>1. Leaves(servicing, FALSE) /\ kind \notin {"ecn", "closecn"}
      BY <2>5
      DEF QueueCompletes, ClosQueueCompletes, INTCompletes, ClosINTCompletes, BoltCompletes,
          ClosBoltCompletes, NICCompletes
    <3>2. QED  BY <2>1, <3>1 DEF SignalIInv, StillOver
  <2>6. ASSUME ECNCompletes \/ ClosECNCompletes
        PROVE  Leaves(servicing, Mark) /\ (over => Mark)
    BY <2>1, <2>6 DEF ECNCompletes, ClosECNCompletes, SignalIInv, StillOver, Mark
  <2>7. ASSUME Tick  PROVE FALSE
    <3>1. Len(enqueued'[l]) = x  BY <2>2, <2>7 DEF Tick
    <3>2. QED  BY <2>1, <2>2, <3>1
  <2>8. QED  BY <2>1, <2>3, <2>4, <2>5, <2>6, <2>7 DEF SignalNext
<1>3. IInv /\ [MCNext]_mcVars => [A]_trimVars /\ [B]_signalVars
  <2>1. [MCNext]_mcVars => [SignalNext]_signalVars  BY DEF MCNext, mcVars
  <2>2. QED  BY <1>1, <1>2, <2>1
<1> HIDE DEF A, B
<1>4. MCSpec => [][A]_trimVars /\ [][B]_signalVars
  BY <1>3, QueueInvariance, PTL DEF MCSpec
<1>5. QED  BY <1>4 DEF EachServedAsTimed, ServedAsTimed, LeavesAsTimed, A, B

-----------------------------------------------------------------------------
(* Hop-by-hop backpressure: where every packet is *)

\* The packets of all flows, and the records they are carried in.
Ids == {k \in Flows \X Nat : k[2] \in 1..FlowPackets[k[1]]}
Id(p) == <<p.flow, p.n>>
PortsOut == Port \cup {"down"}
ToRQueues == {x \in Queues : ~IsNic(x)}
HbHPackets == [flow : Flows, n : Nat, slice : Slices, hop : Nat \cup {-1}]
Entries == [pkt : HbHPackets, to : Queues, old : BOOLEAN]
OnLink == [pkt : HbHPackets, to : Queues, old : BOOLEAN, from : Queues]

HeldLists == [Queues -> Seq(HbHPackets)]
Services == [Queues -> Seq(Entries)]
BackLists == [Flows -> Seq(HbHPackets)]
QueueRecords ==
  [held : HeldLists, serving : Services,
   toDst : [Queues -> [ToR -> Int]], toPort : [Queues -> [PortsOut -> Int]],
   waiting : [Queues -> Seq(Queues)], nic : [Flows -> Int], sent : [Flows -> Nat],
   flight : [Flows -> Int], rtx : BackLists, pipe : Seq(OnLink)]

Nowhere == <<>>

\* Where a packet is: tag says in what, at which queue; in and to are the queues
\* that count it, as a packet they have or expect; item is what is stored there.
Place ==
  [tag : {"new", "held", "serving", "pipe", "back", "got"}, at : Queues,
   in : Queues \cup {Nowhere}, to : Queues \cup {Nowhere}, pkt : HbHPackets,
   item : HbHPackets \cup Entries \cup OnLink]

\* The link of y leads to rack u, or has led there until the slice changed.
LinkTo(y, u, old, z) ==
  IF IsNic(y) THEN u = y[1]
  ELSE IF old THEN Peer[z][y[1]][y[2]] \in {u, NoToR} ELSE Peer[z][y[1]][y[2]] = u

\* A packet that leaves a queue is expected by the one its route names.
Bound(c, z) ==
  IF IsDown(c.at) THEN c.to = Nowhere
  ELSE /\ c.to = c.item.to /\ c.item.to \in ToRQueues
       /\ c.item.to[2] = PortAt(c.pkt, c.pkt.hop + 1)
       /\ LinkTo(c.at, c.item.to[1], c.item.old, z)

\* A link down carries only what belongs to its rack (Queue::sendFromQueue).
ToItsRack(k, c) == IsDown(c.at) => c.at = Down(DstOf[k[1]])

\* Place c suits packet k while slice z runs.
PlaceOK(k, c, z) ==
  /\ Id(c.pkt) = k
  /\ c.tag \in {"new", "pipe", "back", "got"} => c.in = Nowhere
  /\ c.tag \in {"new", "held", "back", "got"} => c.to = Nowhere
  /\ c.tag \in {"held", "back"} => c.item = c.pkt
  /\ c.tag \in {"held", "serving"} =>
       c.in = c.at /\ (IsNic(c.at) => c.at = Nic(SrcOf[k[1]]))
  /\ c.tag \in {"serving", "pipe"} => c.item.pkt = c.pkt /\ Bound(c, z)
  /\ c.tag = "serving" => c.item \in Entries
  /\ c.tag = "pipe" => c.item \in OnLink /\ c.item.from = c.at /\ ToItsRack(k, c)

Placement(loc, z) == loc \in [Ids -> Place] /\ \A k \in Ids : PlaceOK(k, loc[k], z)

\* s holds what the places of the packets K say, each once.
Lists(s, loc, K) ==
  /\ \A i \in 1..Len(s) : \E k \in K : loc[k].item = s[i]
  /\ \A k \in K : \E i \in 1..Len(s) : loc[k].item = s[i]
  /\ \A i, j \in 1..Len(s) : s[i] = s[j] => i = j

HeldAt(loc, x) == {k \in Ids : loc[k].tag = "held" /\ loc[k].at = x}
ServingAt(loc, x) == {k \in Ids : loc[k].tag = "serving" /\ loc[k].at = x}
OnLinks(loc) == {k \in Ids : loc[k].tag = "pipe"}
BackOf(loc, f) == {k \in Ids : loc[k].tag = "back" /\ k[1] = f}

HeldOK(held, loc) == \A x \in Queues : Lists(held[x], loc, HeldAt(loc, x))
ServingOK(serving, loc) ==
  \A x \in Queues :
    \/ serving[x] = <<>> /\ ServingAt(loc, x) = {}
    \/ \E k \in Ids : serving[x] = <<loc[k].item>> /\ ServingAt(loc, x) = {k}
PipeOK(pipe, loc) == Lists(pipe, loc, OnLinks(loc))
BackOK(rtx, loc) == \A f \in Flows : Lists(rtx[f], loc, BackOf(loc, f))
SentOK(sent, loc) == \A k \in Ids : loc[k].tag = "new" <=> k[2] > sent[k[1]]
GotOK(g, loc) == \A k \in Ids : loc[k].tag = "got" <=> k[2] \in g[k[1]]

\* The packets that a counter stands for.
DstIn(loc, x, t) == {k \in Ids : loc[k].in = x /\ DstOf[k[1]] = t}
DstTo(loc, x, t) == {k \in Ids : loc[k].to = x /\ DstOf[k[1]] = t}
InFor(c, x, n) == c.in = x /\ PortAt(c.pkt, c.pkt.hop + 1) = n
ToFor(c, x, n) == c.to = x /\ PortAt(c.pkt, c.pkt.hop + 2) = n
PortIn(loc, x, n) == {k \in Ids : InFor(loc[k], x, n)}
PortTo(loc, x, n) == {k \in Ids : ToFor(loc[k], x, n)}
NicOf(loc, f) == {k \in Ids : k[1] = f /\ loc[k].in = Nic(SrcOf[f])}
Flights == {"held", "serving", "pipe"}
Flying(loc, f) == {k \in Ids : k[1] = f /\ loc[k].tag \in Flights}

DstOK(toDst, loc) ==
  \A x \in ToRQueues, t \in ToR :
    toDst[x][t] = Cardinality(DstIn(loc, x, t)) + Cardinality(DstTo(loc, x, t))
PortOK(toPort, loc) ==
  \A x \in Uplinks, n \in PortsOut :
    toPort[x][n] = Cardinality(PortIn(loc, x, n)) + Cardinality(PortTo(loc, x, n))
NicOK(nic, loc) == \A f \in Flows : nic[f] = Cardinality(NicOf(loc, f))
FlightOK(flight, loc) == \A f \in Flows : flight[f] = Cardinality(Flying(loc, f))

Ledger(S, loc, g, z) ==
  /\ Placement(loc, z)
  /\ HeldOK(S.held, loc) /\ ServingOK(S.serving, loc) /\ PipeOK(S.pipe, loc)
  /\ BackOK(S.rtx, loc) /\ SentOK(S.sent, loc) /\ GotOK(g, loc)
  /\ DstOK(S.toDst, loc) /\ PortOK(S.toPort, loc)
  /\ NicOK(S.nic, loc) /\ FlightOK(S.flight, loc)

\* Who waits for whom: never a downlink, and a NIC only for its own rack.
MayWait(x, y) == ~IsDown(y) /\ (IsNic(y) => y[1] = x[1])
WaitingOK(waiting) ==
  \A x \in Queues :
    IsInjective(waiting[x]) /\ \A i \in 1..Len(waiting[x]) : MayWait(x, waiting[x][i])

\* The counters that nothing uses stay zero, the others are within their limits.
Unused(toDst, toPort) ==
  \A x \in Queues :
    /\ IsNic(x) => \A t \in ToR : toDst[x][t] = 0
    /\ x \notin Uplinks => \A n \in PortsOut : toPort[x][n] = 0
Limits(toDst, toPort) ==
  \A x \in Uplinks :
    (\A t \in ToR : toDst[x][t] <= D + 1) /\ \A n \in PortsOut : toPort[x][n] <= P + 1
Windows(nic, sent, flight) ==
  \A f \in Flows : /\ nic[f] <= MaxNicPackets /\ flight[f] <= MaxInflight
                   /\ sent[f] <= FlowPackets[f]

Sound(S) ==
  /\ S \in QueueRecords /\ WaitingOK(S.waiting)
  /\ Unused(S.toDst, S.toPort) /\ Limits(S.toDst, S.toPort)
  /\ Windows(S.nic, S.sent, S.flight)

Good(S, g, z) == Sound(S) /\ \E loc : Ledger(S, loc, g, z)

-----------------------------------------------------------------------------
(* Queues and ways *)

\* A queue is an uplink, a NIC or a downlink, of a rack.
LEMMA QueueFacts ==
  ASSUME NEW x \in Queues
  PROVE  /\ x = <<x[1], x[2]>> /\ x[1] \in ToR
         /\ x \in Uplinks <=> ~IsNic(x) /\ ~IsDown(x)
         /\ x \in Uplinks => x[2] \in Port
         /\ IsNic(x) => x = Nic(x[1]) /\ ~IsDown(x)
         /\ IsDown(x) => x = Down(x[1])
<1>1. "nic" \notin Port /\ "down" \notin Port  BY HbHAssumption
<1>2. CASE x \in Uplinks
  <2>1. PICK t \in ToR, p \in Port : x = <<t, p>>  BY <1>2 DEF Uplinks
  <2>2. x[1] = t /\ x[2] = p  BY <2>1
  <2>3. QED  BY <1>1, <1>2, <2>1, <2>2 DEF IsNic, IsDown
<1>3. CASE \E t \in ToR : x = Nic(t)
  <2>1. PICK t \in ToR : x = <<t, "nic">>  BY <1>3 DEF Nic
  <2>2. x[1] = t /\ x[2] = "nic"  BY <2>1
  <2>3. x \notin Uplinks  BY <1>1, <2>2 DEF Uplinks
  <2>4. QED  BY <1>1, <2>1, <2>2, <2>3 DEF IsNic, IsDown, Nic
<1>4. CASE \E t \in ToR : x = Down(t)
  <2>1. PICK t \in ToR : x = <<t, "down">>  BY <1>4 DEF Down
  <2>2. x[1] = t /\ x[2] = "down"  BY <2>1
  <2>3. x \notin Uplinks  BY <1>1, <2>2 DEF Uplinks
  <2>4. QED  BY <1>1, <2>1, <2>2, <2>3 DEF IsNic, IsDown, Down
<1>5. QED  BY <1>2, <1>3, <1>4 DEF Queues

\* Nowhere is no queue.
LEMMA NowhereIsNoQueue == Nowhere \notin Queues
<1>1. ASSUME NEW x \in Queues  PROVE x # <<>>
  <2>1. x = <<x[1], x[2]>>  BY QueueFacts
  <2>2. <<x[1], x[2]>> # <<>>  OBVIOUS
  <2>3. QED  BY <2>1, <2>2
<1>2. QED  BY <1>1 DEF Nowhere

\* A rack and a port of it make a queue of the rack.
LEMMA QueueOf ==
  ASSUME NEW t \in ToR, NEW n \in PortsOut
  PROVE  <<t, n>> \in ToRQueues /\ <<t, n>>[1] = t /\ <<t, n>>[2] = n
<1>1. "nic" \notin Port  BY HbHAssumption
<1>2. <<t, n>> \in Queues
  <2>1. CASE n \in Port  BY <2>1 DEF Queues, Uplinks
  <2>2. CASE n = "down"
    <3>1. <<t, n>> = Down(t)  BY <2>2 DEF Down
    <3>2. QED  BY <3>1 DEF Queues
  <2>3. QED  BY <2>1, <2>2 DEF PortsOut
<1>3. n # "nic"  BY <1>1 DEF PortsOut
<1>4. QED  BY <1>2, <1>3 DEF ToRQueues, IsNic

\* The NIC of a flow's source is one of the queues, and none of the ToRs'.
LEMMA NicIsQueue ==
  ASSUME NEW t \in ToR
  PROVE  Nic(t) \in Queues /\ IsNic(Nic(t)) /\ Nic(t)[1] = t
  BY DEF Queues, Nic, IsNic

\* The port by which a packet leaves is one.
LEMMA PortAtType ==
  ASSUME NEW p \in HbHPackets, NEW h \in Nat
  PROVE  PortAt(p, h) \in PortsOut
<1> DEFINE r == Route[p.slice][SrcOf[p.flow]][DstOf[p.flow]]
<1>1. p.slice \in Slices /\ p.flow \in Flows  BY DEF HbHPackets
<1>2. SrcOf[p.flow] \in ToR /\ DstOf[p.flow] \in ToR  BY <1>1, HbHAssumption
<1>3. r \in Seq(Port)  BY <1>1, <1>2, HbHAssumption
<1> HIDE DEF r
<1>4. Len(r) \in Nat  BY <1>3, LenProperties
<1>5. ASSUME ~(h > Len(r) - 1)  PROVE r[h + 1] \in Port
  <2>1. h + 1 \in 1..Len(r)  BY <1>4, <1>5
  <2>2. QED  BY <1>3, <2>1, ElementOfSeq
<1>6. PortAt(p, h) = IF h > Len(r) - 1 THEN "down" ELSE r[h + 1]  BY DEF PortAt, r
<1>7. QED  BY <1>5, <1>6 DEF PortsOut

\* The packets of all flows are finitely many.
LEMMA IdsFinite == IsFiniteSet(Ids)
<1> DEFINE Of == [f \in Flows |-> {f} \X (1..FlowPackets[f])]
           Sets == {Of[f] : f \in Flows}
<1>1. IsFiniteSet(Flows) /\ \A f \in Flows : FlowPackets[f] \in Nat  BY HbHAssumption
<1>2. Of \in Surjection(Flows, Sets)  BY DEF Surjection
<1>3. IsFiniteSet(Sets)
  <2> HIDE DEF Of, Sets
  <2>1. QED  BY <1>1, <1>2, FS_Surjection
<1>4. ASSUME NEW T \in Sets  PROVE IsFiniteSet(T)
  <2>1. PICK f \in Flows : T = {f} \X (1..FlowPackets[f])  OBVIOUS
  <2>2. IsFiniteSet({f})  BY FS_Singleton
  <2>3. IsFiniteSet(1..FlowPackets[f])
    <3>1. 1 \in Int /\ FlowPackets[f] \in Int  BY <1>1
    <3>2. QED  BY <3>1, FS_Interval
  <2>4. QED  BY <2>1, <2>2, <2>3, FS_Product
<1>5. IsFiniteSet(UNION Sets)
  <2> HIDE DEF Sets
  <2>1. QED  BY <1>3, <1>4, FS_UNION
<1>6. Ids \subseteq UNION Sets
  <2>1. ASSUME NEW k \in Ids  PROVE k \in UNION Sets
    <3>1. k[1] \in Flows /\ k = <<k[1], k[2]>> /\ k[2] \in 1..FlowPackets[k[1]]  BY DEF Ids
    <3>2. k \in Of[k[1]]  BY <3>1
    <3>3. QED  BY <3>1, <3>2
  <2>2. QED  BY <2>1
<1>7. QED  BY <1>5, <1>6, FS_Subset

-----------------------------------------------------------------------------
(* Sequences without one element, or with one more *)

\* What is left of a sequence without its element i.
LEMMA RemoveAtFacts ==
  ASSUME NEW T, NEW s \in Seq(T), NEW i \in 1..Len(s)
  PROVE  /\ Len(s) \in Nat /\ RemoveAt(s, i) \in Seq(T)
         /\ Len(RemoveAt(s, i)) = Len(s) - 1
         /\ \A j \in 1..(Len(s) - 1) :
              RemoveAt(s, i)[j] = IF j < i THEN s[j] ELSE s[j + 1]
<1>1. Len(s) \in Nat /\ \A j \in 1..Len(s) : s[j] \in T  BY LenProperties, ElementOfSeq
<1>2. PICK a : a = SubSeq(s, 1, i - 1)  OBVIOUS
<1>3. PICK b : b = SubSeq(s, i + 1, Len(s))  OBVIOUS
<1>4. /\ a \in Seq(T) /\ Len(a) = i - 1
      /\ \A j \in 1..(i - 1) : a[j] = s[j]
  <2>1. 1 \in Int /\ i - 1 \in Int /\ \A j \in 1..(i - 1) : s[j] \in T  BY <1>1
  <2>2. /\ SubSeq(s, 1, i - 1) \in Seq(T)
        /\ Len(SubSeq(s, 1, i - 1)) = IF 1 <= i - 1 THEN i - 1 - 1 + 1 ELSE 0
        /\ \A j \in 1..(i - 1 - 1 + 1) : SubSeq(s, 1, i - 1)[j] = s[1 + j - 1]
    BY <2>1, SubSeqProperties
  <2>3. QED  BY <1>2, <2>1, <2>2
<1>5. /\ b \in Seq(T) /\ Len(b) = Len(s) - i
      /\ \A j \in 1..(Len(s) - i) : b[j] = s[i + j]
  <2>1. i + 1 \in Int /\ Len(s) \in Int /\ \A j \in (i + 1)..Len(s) : s[j] \in T  BY <1>1
  <2>2. /\ SubSeq(s, i + 1, Len(s)) \in Seq(T)
        /\ Len(SubSeq(s, i + 1, Len(s))) = IF i + 1 <= Len(s) THEN Len(s) - (i + 1) + 1 ELSE 0
        /\ \A j \in 1..(Len(s) - (i + 1) + 1) :
             SubSeq(s, i + 1, Len(s))[j] = s[i + 1 + j - 1]
    BY <2>1, SubSeqProperties
  <2>3. ASSUME NEW j \in 1..(Len(s) - i)  PROVE b[j] = s[i + j]
    <3>1. j \in 1..(Len(s) - (i + 1) + 1) /\ i + 1 + j - 1 = i + j  BY <1>1
    <3>2. QED  BY <1>3, <2>2, <3>1
  <2>4. QED  BY <1>1, <1>3, <2>2, <2>3
<1>6. PICK r : r = a \o b  OBVIOUS
<1>7. /\ r \in Seq(T) /\ Len(r) = Len(a) + Len(b)
      /\ \A j \in 1..(Len(a) + Len(b)) : r[j] = IF j <= Len(a) THEN a[j] ELSE b[j - Len(a)]
  BY <1>4, <1>5, <1>6, ConcatProperties
<1>8. ASSUME NEW j \in 1..(Len(s) - 1)  PROVE r[j] = IF j < i THEN s[j] ELSE s[j + 1]
  <2>1. r[j] = IF j <= i - 1 THEN a[j] ELSE b[j - (i - 1)]
    <3>1. j \in 1..(Len(a) + Len(b))  BY <1>1, <1>4, <1>5
    <3>2. QED  BY <1>4, <1>7, <3>1
  <2>2. CASE j < i
    <3>1. j \in 1..(i - 1)  BY <2>2
    <3>2. QED  BY <1>4, <2>1, <2>2, <3>1
  <2>3. CASE ~(j < i)
    <3>1. j - (i - 1) \in 1..(Len(s) - i) /\ i + (j - (i - 1)) = j + 1  BY <1>1, <2>3
    <3>2. b[j - (i - 1)] = s[j + 1]  BY <1>5, <3>1
    <3>3. QED  BY <2>1, <2>3, <3>2
  <2>4. QED  BY <2>2, <2>3
<1>9. RemoveAt(s, i) = r  BY <1>2, <1>3, <1>6 DEF RemoveAt
<1>10. QED  BY <1>1, <1>4, <1>5, <1>7, <1>8, <1>9

\* The tail of a sequence is what is left without its first element.
LEMMA TailIsRemoved ==
  ASSUME NEW T, NEW s \in Seq(T), s # <<>>
  PROVE  /\ 1 \in 1..Len(s) /\ Head(s) = s[1] /\ Head(s) \in T
         /\ Tail(s) = RemoveAt(s, 1)
<1>1. /\ Len(s) \in Nat \ {0} /\ Tail(s) \in Seq(T) /\ Len(Tail(s)) = Len(s) - 1
      /\ \A i \in 1..Len(Tail(s)) : Tail(s)[i] = s[i + 1]
      /\ Head(s) \in T /\ Head(s) = s[1]
  BY EmptySeq, HeadTailProperties
<1>2. 1 \in 1..Len(s)  BY <1>1
<1>3. PICK r : r = RemoveAt(s, 1)  OBVIOUS
<1>4. /\ r \in Seq(T) /\ Len(r) = Len(s) - 1
      /\ \A j \in 1..(Len(s) - 1) : r[j] = IF j < 1 THEN s[j] ELSE s[j + 1]
  BY <1>2, <1>3, RemoveAtFacts
<1>5. \A j \in 1..Len(r) : r[j] = Tail(s)[j]  BY <1>1, <1>4
<1>6. r = Tail(s)  BY <1>1, <1>4, <1>5, SeqEqual
<1>7. QED  BY <1>1, <1>2, <1>3, <1>6

\* A list of packets whose places stay the same.
LEMMA ListsKept ==
  ASSUME NEW s, NEW loc, NEW loc2, NEW K, Lists(s, loc, K), \A a \in K : loc2[a] = loc[a]
  PROVE  Lists(s, loc2, K)
<1>1. ASSUME NEW i \in 1..Len(s)  PROVE \E a \in K : loc2[a].item = s[i]
  <2>1. PICK a \in K : loc[a].item = s[i]  BY DEF Lists
  <2>2. QED  BY <2>1
<1>2. ASSUME NEW a \in K  PROVE \E i \in 1..Len(s) : loc2[a].item = s[i]
  <2>1. PICK i \in 1..Len(s) : loc[a].item = s[i]  BY DEF Lists
  <2>2. QED  BY <2>1
<1>3. QED  BY <1>1, <1>2 DEF Lists

\* A list of packets without one of them.
LEMMA ListsWithout ==
  ASSUME NEW T, NEW s \in Seq(T), NEW i \in 1..Len(s), NEW loc, NEW loc2, NEW K, NEW k \in K,
         Lists(s, loc, K), loc[k].item = s[i],
         \A a \in K : loc[a].item = loc[k].item => a = k,
         \A a \in K \ {k} : loc2[a] = loc[a]
  PROVE  Lists(RemoveAt(s, i), loc2, K \ {k})
<1>1. PICK r : r = RemoveAt(s, i)  OBVIOUS
<1>2. /\ Len(s) \in Nat /\ Len(r) = Len(s) - 1
      /\ \A j \in 1..(Len(s) - 1) : r[j] = IF j < i THEN s[j] ELSE s[j + 1]
  BY <1>1, RemoveAtFacts
<1>3. ASSUME NEW j \in 1..Len(r)
      PROVE  \E m \in (1..Len(s)) \ {i} : r[j] = s[m] /\ m = IF j < i THEN j ELSE j + 1
  <2>1. CASE j < i
    <3>1. j \in (1..Len(s)) \ {i} /\ r[j] = s[j]  BY <1>2, <2>1
    <3>2. QED  BY <2>1, <3>1
  <2>2. CASE ~(j < i)
    <3>1. j + 1 \in (1..Len(s)) \ {i} /\ r[j] = s[j + 1]  BY <1>2, <2>2
    <3>2. QED  BY <2>2, <3>1
  <2>3. QED  BY <2>1, <2>2
<1>4. ASSUME NEW j \in 1..Len(r)  PROVE \E a \in K \ {k} : loc2[a].item = r[j]
  <2>1. PICK m \in (1..Len(s)) \ {i} : r[j] = s[m]  BY <1>3
  <2>2. PICK a \in K : loc[a].item = s[m]  BY <2>1 DEF Lists
  <2>3. a # k
    <3>1. s[m] # s[i]  BY <2>1 DEF Lists
    <3>2. QED  BY <2>2, <3>1
  <2>4. QED  BY <2>1, <2>2, <2>3
<1>5. ASSUME NEW a \in K \ {k}  PROVE \E j \in 1..Len(r) : loc2[a].item = r[j]
  <2>1. PICK m \in 1..Len(s) : loc[a].item = s[m]  BY DEF Lists
  <2>2. m # i  BY <2>1
  <2>3. CASE m < i
    <3>1. m \in 1..Len(r) /\ r[m] = s[m]  BY <1>2, <2>3
    <3>2. QED  BY <2>1, <3>1
  <2>4. CASE m > i
    <3>1. m - 1 \in 1..Len(r) /\ r[m - 1] = s[m]  BY <1>2, <2>4
    <3>2. QED  BY <2>1, <3>1
  <2>5. QED  BY <1>2, <2>2, <2>3, <2>4
<1>6. ASSUME NEW j \in 1..Len(r), NEW h \in 1..Len(r), r[j] = r[h]  PROVE j = h
  <2>1. PICK m \in (1..Len(s)) \ {i} : r[j] = s[m] /\ m = IF j < i THEN j ELSE j + 1
    BY <1>3
  <2>2. PICK n \in (1..Len(s)) \ {i} : r[h] = s[n] /\ n = IF h < i THEN h ELSE h + 1
    BY <1>3
  <2>3. m = n
    <3>1. m \in 1..Len(s) /\ n \in 1..Len(s) /\ s[m] = s[n]  BY <1>6, <2>1, <2>2
    <3>2. QED  BY <3>1 DEF Lists
  <2>4. j \in Int /\ h \in Int /\ i \in Int  BY <1>2
  <2>5. QED  BY <2>1, <2>2, <2>3, <2>4
<1>7. QED  BY <1>1, <1>4, <1>5, <1>6 DEF Lists

\* A list of packets with one more at its end.
LEMMA ListsWith ==
  ASSUME NEW T, NEW s \in Seq(T), NEW e \in T, NEW loc, NEW loc2, NEW K, NEW k,
         Lists(s, loc, K), loc2[k].item = e,
         \A a \in K : loc2[a] = loc[a] /\ loc[a].item # e
  PROVE  Lists(Append(s, e), loc2, K \cup {k})
<1>1. PICK r : r = Append(s, e)  OBVIOUS
<1>2. /\ Len(s) \in Nat /\ Len(r) = Len(s) + 1
      /\ \A j \in 1..Len(s) : r[j] = s[j]
      /\ r[Len(s) + 1] = e
  BY <1>1, AppendProperties, LenProperties
<1>3. ASSUME NEW j \in 1..Len(r)  PROVE j \in 1..Len(s) \/ j = Len(s) + 1
  BY <1>2
<1>4. \A j \in 1..Len(s) : s[j] # e
  <2>1. ASSUME NEW j \in 1..Len(s)  PROVE s[j] # e
    <3>1. PICK a \in K : loc[a].item = s[j]  BY DEF Lists
    <3>2. QED  BY <3>1
  <2>2. QED  BY <2>1
<1>5. ASSUME NEW j \in 1..Len(r)  PROVE \E a \in K \cup {k} : loc2[a].item = r[j]
  <2>1. CASE j \in 1..Len(s)
    <3>1. PICK a \in K : loc[a].item = s[j]  BY <2>1 DEF Lists
    <3>2. QED  BY <1>2, <2>1, <3>1
  <2>2. CASE j = Len(s) + 1  BY <1>2, <2>2
  <2>3. QED  BY <1>3, <2>1, <2>2
<1>6. ASSUME NEW a \in K \cup {k}  PROVE \E j \in 1..Len(r) : loc2[a].item = r[j]
  <2>1. CASE a \in K
    <3>1. PICK j \in 1..Len(s) : loc[a].item = s[j]  BY <2>1 DEF Lists
    <3>2. j \in 1..Len(r) /\ loc2[a].item = r[j]  BY <1>2, <2>1, <3>1
    <3>3. QED  BY <3>2
  <2>2. CASE a = k
    <3>1. Len(s) + 1 \in 1..Len(r)  BY <1>2
    <3>2. QED  BY <1>2, <2>2, <3>1
  <2>3. QED  BY <2>1, <2>2
<1>7. ASSUME NEW j \in 1..Len(r), NEW h \in 1..Len(r), r[j] = r[h]  PROVE j = h
  <2>1. CASE j \in 1..Len(s) /\ h \in 1..Len(s)
    <3>1. s[j] = s[h]  BY <1>2, <1>7, <2>1
    <3>2. QED  BY <2>1, <3>1 DEF Lists
  <2>2. CASE j \in 1..Len(s) /\ h = Len(s) + 1  BY <1>2, <1>4, <1>7, <2>2
  <2>3. CASE j = Len(s) + 1 /\ h \in 1..Len(s)  BY <1>2, <1>4, <1>7, <2>3
  <2>4. QED  BY <1>3, <2>1, <2>2, <2>3
<1>8. Lists(r, loc2, K \cup {k})  BY <1>5, <1>6, <1>7 DEF Lists
<1>9. QED  BY <1>1, <1>8

-----------------------------------------------------------------------------
(* One packet changes its place *)

\* The places loc become loc2: packet k, and no other, goes to c.
Moved(loc, loc2, k, c, z) ==
  /\ Placement(loc, z) /\ k \in Ids /\ c \in Place /\ PlaceOK(k, c, z)
  /\ loc2 = [loc EXCEPT ![k] = c]

Carried == {"held", "serving", "pipe", "back"}

\* Every packet is where it should be, after the move too.
LEMMA MovedPlaces ==
  ASSUME NEW loc, NEW loc2, NEW k, NEW c, NEW z, Moved(loc, loc2, k, c, z)
  PROVE  /\ Placement(loc2, z) /\ k \in Ids /\ loc2[k] = c
         /\ \A a \in Ids : a # k => loc2[a] = loc[a]
         /\ \A a \in Ids : PlaceOK(a, loc[a], z) /\ PlaceOK(a, loc2[a], z)
<1>1. /\ loc \in [Ids -> Place] /\ k \in Ids /\ c \in Place /\ PlaceOK(k, c, z)
      /\ loc2 = [loc EXCEPT ![k] = c] /\ \A a \in Ids : PlaceOK(a, loc[a], z)
  BY DEF Moved, Placement
<1>2. loc2 \in [Ids -> Place] /\ loc2[k] = c  BY <1>1
<1>3. ASSUME NEW a \in Ids, a # k  PROVE loc2[a] = loc[a]  BY <1>1, <1>3
<1>4. ASSUME NEW a \in Ids  PROVE PlaceOK(a, loc2[a], z)  BY <1>1, <1>2, <1>3
<1>5. QED  BY <1>1, <1>2, <1>3, <1>4 DEF Placement

\* What is stored in a place tells the packet.
LEMMA ItemsDiffer ==
  ASSUME NEW a, NEW b, NEW c, NEW d, NEW z, PlaceOK(a, c, z), PlaceOK(b, d, z),
         c.tag = d.tag, c.tag \in Carried, c.item = d.item
  PROVE  a = b
  BY DEF PlaceOK, Carried

\* The queues' lists, when the packet comes from elsewhere and goes elsewhere.
LEMMA HeldSame ==
  ASSUME NEW loc, NEW loc2, NEW k, NEW c, NEW z, Moved(loc, loc2, k, c, z),
         NEW held, HeldOK(held, loc), loc[k].tag # "held", c.tag # "held"
  PROVE  HeldOK(held, loc2)
<1>1. ASSUME NEW x \in Queues  PROVE Lists(held[x], loc2, HeldAt(loc2, x))
  <2>1. HeldAt(loc2, x) = HeldAt(loc, x)  BY MovedPlaces DEF HeldAt
  <2>2. \A a \in HeldAt(loc, x) : loc2[a] = loc[a]  BY MovedPlaces DEF HeldAt
  <2>3. Lists(held[x], loc, HeldAt(loc, x))  BY DEF HeldOK
  <2>4. QED  BY <2>1, <2>2, <2>3, ListsKept
<1>2. QED  BY <1>1 DEF HeldOK

\* A packet leaves the list of its queue.
LEMMA HeldTakes ==
  ASSUME NEW loc, NEW loc2, NEW k, NEW c, NEW z, Moved(loc, loc2, k, c, z),
         NEW held \in HeldLists, HeldOK(held, loc), NEW y \in Queues,
         NEW i \in 1..Len(held[y]), loc[k].tag = "held", loc[k].at = y, c.tag # "held",
         loc[k].item = held[y][i]
  PROVE  HeldOK([held EXCEPT ![y] = RemoveAt(held[y], i)], loc2)
<1> DEFINE held2 == [held EXCEPT ![y] = RemoveAt(held[y], i)]
<1>1. ASSUME NEW x \in Queues  PROVE Lists(held2[x], loc2, HeldAt(loc2, x))
  <2>1. Lists(held[x], loc, HeldAt(loc, x))  BY DEF HeldOK
  <2>2. CASE x = y
    <3>1. HeldAt(loc2, x) = HeldAt(loc, x) \ {k} /\ k \in HeldAt(loc, x)
      BY <2>2, MovedPlaces DEF HeldAt
    <3>2. \A a \in HeldAt(loc, x) \ {k} : loc2[a] = loc[a]  BY MovedPlaces DEF HeldAt
    <3>3. ASSUME NEW a \in HeldAt(loc, x), loc[a].item = loc[k].item  PROVE a = k
      <4>1. a \in Ids /\ loc[a].tag = loc[k].tag /\ loc[a].tag \in Carried
        BY DEF HeldAt, Carried
      <4>2. QED  BY <3>3, <4>1, MovedPlaces, ItemsDiffer
    <3>4. held[y] \in Seq(HbHPackets) /\ held2[x] = RemoveAt(held[y], i)
      BY <2>2 DEF HeldLists
    <3> HIDE DEF held2
    <3>5. QED  BY <2>1, <2>2, <3>1, <3>2, <3>3, <3>4, ListsWithout
  <2>3. CASE x # y
    <3>1. HeldAt(loc2, x) = HeldAt(loc, x)  BY <2>3, MovedPlaces DEF HeldAt
    <3>2. \A a \in HeldAt(loc, x) : loc2[a] = loc[a]  BY <2>3, MovedPlaces DEF HeldAt
    <3>3. held2[x] = held[x]  BY <2>3
    <3>4. QED  BY <2>1, <3>1, <3>2, <3>3, ListsKept
  <2>4. QED  BY <2>2, <2>3
<1>2. QED  BY <1>1 DEF HeldOK

\* A packet comes to the end of the list of a queue.
LEMMA HeldGets ==
  ASSUME NEW loc, NEW loc2, NEW k, NEW c, NEW z, Moved(loc, loc2, k, c, z),
         NEW held \in HeldLists, HeldOK(held, loc), NEW y \in Queues,
         NEW p \in HbHPackets, loc[k].tag # "held", c.tag = "held", c.at = y, c.item = p
  PROVE  HeldOK([held EXCEPT ![y] = Append(held[y], p)], loc2)
<1> DEFINE held2 == [held EXCEPT ![y] = Append(held[y], p)]
<1>1. ASSUME NEW x \in Queues  PROVE Lists(held2[x], loc2, HeldAt(loc2, x))
  <2>1. Lists(held[x], loc, HeldAt(loc, x))  BY DEF HeldOK
  <2>2. CASE x = y
    <3>1. HeldAt(loc2, x) = HeldAt(loc, x) \cup {k}
      BY <2>2, MovedPlaces DEF HeldAt
    <3>2. ASSUME NEW a \in HeldAt(loc, x)  PROVE loc2[a] = loc[a] /\ loc[a].item # p
      <4>1. a \in Ids /\ loc[a].tag = c.tag /\ loc[a].tag \in Carried /\ a # k
        BY DEF HeldAt, Carried
      <4>2. PlaceOK(a, loc[a], z) /\ PlaceOK(k, c, z) /\ loc2[a] = loc[a]
        BY <4>1, MovedPlaces
      <4>3. QED  BY <4>1, <4>2, ItemsDiffer
    <3>3. held[y] \in Seq(HbHPackets) /\ held2[x] = Append(held[y], p)
      BY <2>2 DEF HeldLists
    <3>4. loc2[k].item = p  BY MovedPlaces
    <3> HIDE DEF held2
    <3>5. PICK l \in Seq(HbHPackets) : l = held[y]  BY <3>3
    <3>6. Lists(l, loc, HeldAt(loc, x))  BY <2>1, <2>2, <3>5
    <3>7. Lists(Append(l, p), loc2, HeldAt(loc, x) \cup {k})
      BY <3>2, <3>4, <3>6, ListsWith
    <3>8. QED  BY <3>1, <3>3, <3>5, <3>7
  <2>3. CASE x # y
    <3>1. HeldAt(loc2, x) = HeldAt(loc, x)  BY <2>3, MovedPlaces DEF HeldAt
    <3>2. \A a \in HeldAt(loc, x) : loc2[a] = loc[a]  BY <2>3, MovedPlaces DEF HeldAt
    <3>3. held2[x] = held[x]  BY <2>3
    <3>4. QED  BY <2>1, <3>1, <3>2, <3>3, ListsKept
  <2>4. QED  BY <2>2, <2>3
<1>2. QED  BY <1>1 DEF HeldOK

\* The links, when the packet comes from elsewhere and goes elsewhere.
LEMMA PipeSame ==
  ASSUME NEW loc, NEW loc2, NEW k, NEW c, NEW z, Moved(loc, loc2, k, c, z),
         NEW pipe, PipeOK(pipe, loc), loc[k].tag # "pipe", c.tag # "pipe"
  PROVE  PipeOK(pipe, loc2)
<1>1. OnLinks(loc2) = OnLinks(loc)  BY MovedPlaces DEF OnLinks
<1>2. \A a \in OnLinks(loc) : loc2[a] = loc[a]  BY MovedPlaces DEF OnLinks
<1>3. QED  BY <1>1, <1>2, ListsKept DEF PipeOK

\* A packet leaves its link.
LEMMA PipeTakes ==
  ASSUME NEW loc, NEW loc2, NEW k, NEW c, NEW z, Moved(loc, loc2, k, c, z),
         NEW pipe \in Seq(OnLink), PipeOK(pipe, loc), NEW i \in 1..Len(pipe),
         loc[k].tag = "pipe", c.tag # "pipe", loc[k].item = pipe[i]
  PROVE  PipeOK(RemoveAt(pipe, i), loc2)
<1>1. OnLinks(loc2) = OnLinks(loc) \ {k} /\ k \in OnLinks(loc)
  BY MovedPlaces DEF OnLinks
<1>2. \A a \in OnLinks(loc) \ {k} : loc2[a] = loc[a]  BY MovedPlaces DEF OnLinks
<1>3. ASSUME NEW a \in OnLinks(loc), loc[a].item = loc[k].item  PROVE a = k
  <2>1. a \in Ids /\ loc[a].tag = loc[k].tag /\ loc[a].tag \in Carried
    BY DEF OnLinks, Carried
  <2>2. QED  BY <1>3, <2>1, MovedPlaces, ItemsDiffer
<1>4. Lists(RemoveAt(pipe, i), loc2, OnLinks(loc) \ {k})
  BY <1>1, <1>2, <1>3, ListsWithout DEF PipeOK
<1>5. QED  BY <1>1, <1>4 DEF PipeOK

\* A packet is put on a link.
LEMMA PipeGets ==
  ASSUME NEW loc, NEW loc2, NEW k, NEW c, NEW z, Moved(loc, loc2, k, c, z),
         NEW pipe \in Seq(OnLink), PipeOK(pipe, loc), NEW e \in OnLink,
         loc[k].tag # "pipe", c.tag = "pipe", c.item = e
  PROVE  PipeOK(Append(pipe, e), loc2)
<1>1. OnLinks(loc2) = OnLinks(loc) \cup {k} /\ loc2[k].item = e
  BY MovedPlaces DEF OnLinks
<1>2. ASSUME NEW a \in OnLinks(loc)  PROVE loc2[a] = loc[a] /\ loc[a].item # e
  <2>1. a \in Ids /\ loc[a].tag = c.tag /\ loc[a].tag \in Carried /\ a # k
    BY DEF OnLinks, Carried
  <2>2. PlaceOK(a, loc[a], z) /\ PlaceOK(k, c, z) /\ loc2[a] = loc[a]
    BY <2>1, MovedPlaces
  <2>3. QED  BY <2>1, <2>2, ItemsDiffer
<1>3. Lists(Append(pipe, e), loc2, OnLinks(loc) \cup {k})
  BY <1>1, <1>2, ListsWith DEF PipeOK
<1>4. QED  BY <1>1, <1>3 DEF PipeOK

\* What is to be sent again, when the packet comes from elsewhere and goes elsewhere.
LEMMA BackSame ==
  ASSUME NEW loc, NEW loc2, NEW k, NEW c, NEW z, Moved(loc, loc2, k, c, z),
         NEW rtx, BackOK(rtx, loc), loc[k].tag # "back", c.tag # "back"
  PROVE  BackOK(rtx, loc2)
<1>1. ASSUME NEW f \in Flows  PROVE Lists(rtx[f], loc2, BackOf(loc2, f))
  <2>1. BackOf(loc2, f) = BackOf(loc, f)  BY MovedPlaces DEF BackOf
  <2>2. \A a \in BackOf(loc, f) : loc2[a] = loc[a]  BY MovedPlaces DEF BackOf
  <2>3. Lists(rtx[f], loc, BackOf(loc, f))  BY DEF BackOK
  <2>4. QED  BY <2>1, <2>2, <2>3, ListsKept
<1>2. QED  BY <1>1 DEF BackOK

\* The first packet of what a source has to send again leaves it.
LEMMA BackTakes ==
  ASSUME NEW loc, NEW loc2, NEW k, NEW c, NEW z, Moved(loc, loc2, k, c, z),
         NEW rtx \in BackLists, BackOK(rtx, loc), NEW f \in Flows,
         rtx[f] # <<>>, loc[k].tag = "back", k[1] = f, c.tag # "back",
         loc[k].item = Head(rtx[f])
  PROVE  BackOK([rtx EXCEPT ![f] = Tail(rtx[f])], loc2)
<1> DEFINE rtx2 == [rtx EXCEPT ![f] = Tail(rtx[f])]
<1>1. ASSUME NEW h \in Flows  PROVE Lists(rtx2[h], loc2, BackOf(loc2, h))
  <2>1. Lists(rtx[h], loc, BackOf(loc, h))  BY DEF BackOK
  <2>2. CASE h = f
    <3>1. BackOf(loc2, h) = BackOf(loc, h) \ {k} /\ k \in BackOf(loc, h)
      BY <2>2, MovedPlaces DEF BackOf
    <3>2. \A a \in BackOf(loc, h) \ {k} : loc2[a] = loc[a]  BY MovedPlaces DEF BackOf
    <3>3. ASSUME NEW a \in BackOf(loc, h), loc[a].item = loc[k].item  PROVE a = k
      <4>1. a \in Ids /\ loc[a].tag = loc[k].tag /\ loc[a].tag \in Carried
        BY DEF BackOf, Carried
      <4>2. QED  BY <3>3, <4>1, MovedPlaces, ItemsDiffer
    <3>4. rtx[f] \in Seq(HbHPackets) /\ rtx2[h] = Tail(rtx[f])  BY <2>2 DEF BackLists
    <3>5. 1 \in 1..Len(rtx[f]) /\ Head(rtx[f]) = rtx[f][1] /\ Tail(rtx[f]) = RemoveAt(rtx[f], 1)
      BY <3>4, TailIsRemoved
    <3> HIDE DEF rtx2
    <3>6. loc[k].item = rtx[f][1] /\ Lists(rtx[f], loc, BackOf(loc, h))  BY <2>1, <2>2, <3>5
    <3>7. Lists(RemoveAt(rtx[f], 1), loc2, BackOf(loc, h) \ {k})
      BY <3>1, <3>2, <3>3, <3>4, <3>5, <3>6, ListsWithout
    <3>8. QED  BY <3>1, <3>4, <3>5, <3>7
  <2>3. CASE h # f
    <3>1. BackOf(loc2, h) = BackOf(loc, h)  BY <2>3, MovedPlaces DEF BackOf
    <3>2. \A a \in BackOf(loc, h) : loc2[a] = loc[a]  BY <2>3, MovedPlaces DEF BackOf
    <3>3. rtx2[h] = rtx[h]  BY <2>3
    <3>4. QED  BY <2>1, <3>1, <3>2, <3>3, ListsKept
  <2>4. QED  BY <2>2, <2>3
<1>2. QED  BY <1>1 DEF BackOK

\* A packet comes back to its source.
LEMMA BackGets ==
  ASSUME NEW loc, NEW loc2, NEW k, NEW c, NEW z, Moved(loc, loc2, k, c, z),
         NEW rtx \in BackLists, BackOK(rtx, loc), NEW f \in Flows,
         NEW p \in HbHPackets, loc[k].tag # "back", k[1] = f, c.tag = "back", c.item = p
  PROVE  BackOK([rtx EXCEPT ![f] = Append(rtx[f], p)], loc2)
<1> DEFINE rtx2 == [rtx EXCEPT ![f] = Append(rtx[f], p)]
<1>1. ASSUME NEW h \in Flows  PROVE Lists(rtx2[h], loc2, BackOf(loc2, h))
  <2>1. Lists(rtx[h], loc, BackOf(loc, h))  BY DEF BackOK
  <2>2. CASE h = f
    <3>1. BackOf(loc2, h) = BackOf(loc, h) \cup {k}  BY <2>2, MovedPlaces DEF BackOf
    <3>2. ASSUME NEW a \in BackOf(loc, h)  PROVE loc2[a] = loc[a] /\ loc[a].item # p
      <4>1. a \in Ids /\ loc[a].tag = c.tag /\ loc[a].tag \in Carried /\ a # k
        BY DEF BackOf, Carried
      <4>2. PlaceOK(a, loc[a], z) /\ PlaceOK(k, c, z) /\ loc2[a] = loc[a]
        BY <4>1, MovedPlaces
      <4>3. QED  BY <4>1, <4>2, ItemsDiffer
    <3>3. rtx[f] \in Seq(HbHPackets) /\ rtx2[h] = Append(rtx[f], p)  BY <2>2 DEF BackLists
    <3>4. loc2[k].item = p  BY MovedPlaces
    <3> HIDE DEF rtx2
    <3>5. PICK l \in Seq(HbHPackets) : l = rtx[f]  BY <3>3
    <3>6. Lists(l, loc, BackOf(loc, h))  BY <2>1, <2>2, <3>5
    <3>7. Lists(Append(l, p), loc2, BackOf(loc, h) \cup {k})
      BY <3>2, <3>4, <3>6, ListsWith
    <3>8. QED  BY <3>1, <3>3, <3>5, <3>7
  <2>3. CASE h # f
    <3>1. BackOf(loc2, h) = BackOf(loc, h)  BY <2>3, MovedPlaces DEF BackOf
    <3>2. \A a \in BackOf(loc, h) : loc2[a] = loc[a]  BY <2>3, MovedPlaces DEF BackOf
    <3>3. rtx2[h] = rtx[h]  BY <2>3
    <3>4. QED  BY <2>1, <3>1, <3>2, <3>3, ListsKept
  <2>4. QED  BY <2>2, <2>3
<1>2. QED  BY <1>1 DEF BackOK

\* What is in service, when the packet comes from elsewhere and goes elsewhere.
LEMMA ServingSame ==
  ASSUME NEW loc, NEW loc2, NEW k, NEW c, NEW z, Moved(loc, loc2, k, c, z),
         NEW serving, ServingOK(serving, loc), loc[k].tag # "serving", c.tag # "serving"
  PROVE  ServingOK(serving, loc2)
<1>1. ASSUME NEW x \in Queues
      PROVE  \/ serving[x] = <<>> /\ ServingAt(loc2, x) = {}
             \/ \E a \in Ids : serving[x] = <<loc2[a].item>> /\ ServingAt(loc2, x) = {a}
  <2>1. ServingAt(loc2, x) = ServingAt(loc, x)  BY MovedPlaces DEF ServingAt
  <2>2. CASE serving[x] = <<>> /\ ServingAt(loc, x) = {}  BY <2>1, <2>2
  <2>3. ASSUME NEW a \in Ids, serving[x] = <<loc[a].item>>, ServingAt(loc, x) = {a}
        PROVE  serving[x] = <<loc2[a].item>> /\ ServingAt(loc2, x) = {a}
    <3>1. a # k  BY <2>3 DEF ServingAt
    <3>2. QED  BY <2>1, <2>3, <3>1, MovedPlaces
  <2>4. QED  BY <2>2, <2>3 DEF ServingOK
<1>2. QED  BY <1>1 DEF ServingOK

\* The service of a packet ends.
LEMMA ServingTakes ==
  ASSUME NEW loc, NEW loc2, NEW k, NEW c, NEW z, Moved(loc, loc2, k, c, z),
         NEW serving \in Services, ServingOK(serving, loc), NEW y \in Queues,
         loc[k].tag = "serving", loc[k].at = y, c.tag # "serving"
  PROVE  ServingOK([serving EXCEPT ![y] = <<>>], loc2)
<1> DEFINE serving2 == [serving EXCEPT ![y] = <<>>]
<1>1. ASSUME NEW x \in Queues
      PROVE  \/ serving2[x] = <<>> /\ ServingAt(loc2, x) = {}
             \/ \E a \in Ids : serving2[x] = <<loc2[a].item>> /\ ServingAt(loc2, x) = {a}
  <2>1. CASE x = y
    <3>1. k \in ServingAt(loc, x)  BY <2>1, MovedPlaces DEF ServingAt
    <3>2. ServingAt(loc, x) = {k}  BY <3>1 DEF ServingOK
    <3>3. ServingAt(loc2, x) = {}  BY <3>2, MovedPlaces DEF ServingAt
    <3>4. serving2[x] = <<>>  BY <2>1 DEF Services
    <3>5. QED  BY <3>3, <3>4
  <2>2. CASE x # y
    <3>1. ServingAt(loc2, x) = ServingAt(loc, x) /\ serving2[x] = serving[x]
      BY <2>2, MovedPlaces DEF ServingAt
    <3>2. CASE serving[x] = <<>> /\ ServingAt(loc, x) = {}  BY <3>1, <3>2
    <3>3. ASSUME NEW a \in Ids, serving[x] = <<loc[a].item>>, ServingAt(loc, x) = {a}
          PROVE  serving2[x] = <<loc2[a].item>> /\ ServingAt(loc2, x) = {a}
      <4>1. a # k  BY <2>2, <3>3 DEF ServingAt
      <4>2. loc2[a] = loc[a]  BY <4>1, MovedPlaces
      <4>3. QED  BY <3>1, <3>3, <4>2
    <3>4. QED  BY <3>2, <3>3 DEF ServingOK
  <2>3. QED  BY <2>1, <2>2
<1>2. QED  BY <1>1 DEF ServingOK

\* A packet goes into service at a queue that serves none.
LEMMA ServingGets ==
  ASSUME NEW loc, NEW loc2, NEW k, NEW c, NEW z, Moved(loc, loc2, k, c, z),
         NEW serving \in Services, ServingOK(serving, loc), NEW y \in Queues,
         NEW e, serving[y] = <<>>, loc[k].tag # "serving", c.tag = "serving", c.at = y, c.item = e
  PROVE  ServingOK([serving EXCEPT ![y] = <<e>>], loc2)
<1> DEFINE serving2 == [serving EXCEPT ![y] = <<e>>]
<1>1. ASSUME NEW x \in Queues
      PROVE  \/ serving2[x] = <<>> /\ ServingAt(loc2, x) = {}
             \/ \E a \in Ids : serving2[x] = <<loc2[a].item>> /\ ServingAt(loc2, x) = {a}
  <2>1. CASE x = y
    <3>1. ServingAt(loc, x) = {}
      <4>1. ASSUME NEW a \in Ids  PROVE serving[x] # <<loc[a].item>>
        <5>1. serving[x] = <<>>  BY <2>1
        <5>2. QED  BY <5>1
      <4>2. QED  BY <4>1 DEF ServingOK
    <3>2. ServingAt(loc2, x) = {k} /\ k \in Ids  BY <2>1, <3>1, MovedPlaces DEF ServingAt
    <3>3. serving2[x] = <<loc2[k].item>>  BY <2>1, MovedPlaces DEF Services
    <3> HIDE DEF serving2
    <3>4. QED  BY <3>2, <3>3
  <2>2. CASE x # y
    <3>1. ServingAt(loc2, x) = ServingAt(loc, x) /\ serving2[x] = serving[x]
      BY <2>2, MovedPlaces DEF ServingAt
    <3>2. CASE serving[x] = <<>> /\ ServingAt(loc, x) = {}  BY <3>1, <3>2
    <3>3. ASSUME NEW a \in Ids, serving[x] = <<loc[a].item>>, ServingAt(loc, x) = {a}
          PROVE  serving2[x] = <<loc2[a].item>> /\ ServingAt(loc2, x) = {a}
      <4>1. a # k  BY <3>3 DEF ServingAt
      <4>2. QED  BY <3>1, <3>3, <4>1, MovedPlaces
    <3>4. QED  BY <3>2, <3>3 DEF ServingOK
  <2>3. QED  BY <2>1, <2>2
<1>2. QED  BY <1>1 DEF ServingOK

\* The numbers sent, when the packet was sent already.
LEMMA SentSame ==
  ASSUME NEW loc, NEW loc2, NEW k, NEW c, NEW z, Moved(loc, loc2, k, c, z),
         NEW sent, SentOK(sent, loc), loc[k].tag # "new", c.tag # "new"
  PROVE  SentOK(sent, loc2)
<1>1. ASSUME NEW a \in Ids  PROVE loc2[a].tag = "new" <=> a[2] > sent[a[1]]
  BY MovedPlaces DEF SentOK
<1>2. QED  BY <1>1 DEF SentOK

\* The next packet of a flow is sent.
LEMMA SentGets ==
  ASSUME NEW loc, NEW loc2, NEW k, NEW c, NEW z, Moved(loc, loc2, k, c, z),
         NEW sent \in [Flows -> Nat], SentOK(sent, loc), NEW f \in Flows,
         k = <<f, sent[f] + 1>>, c.tag # "new"
  PROVE  SentOK([sent EXCEPT ![f] = sent[f] + 1], loc2)
<1> DEFINE sent2 == [sent EXCEPT ![f] = sent[f] + 1]
<1>1. ASSUME NEW a \in Ids  PROVE loc2[a].tag = "new" <=> a[2] > sent2[a[1]]
  <2>1. a[1] \in Flows /\ a[2] \in Nat /\ a = <<a[1], a[2]>>  BY DEF Ids
  <2>2. loc[a].tag = "new" <=> a[2] > sent[a[1]]  BY DEF SentOK
  <2>3. CASE a = k
    <3>1. a[2] = sent[f] + 1 /\ a[1] = f  BY <2>3
    <3>2. sent2[f] = sent[f] + 1  OBVIOUS
    <3>3. ~(a[2] > sent2[a[1]])  BY <2>1, <3>1, <3>2
    <3>4. loc2[a].tag # "new"  BY <2>3, MovedPlaces
    <3>5. QED  BY <3>3, <3>4
  <2>4. CASE a # k
    <3>1. loc2[a] = loc[a]  BY <2>4, MovedPlaces
    <3>2. CASE a[1] = f
      <4>1. a[2] # sent[f] + 1  BY <2>1, <2>4, <3>2
      <4>2. sent2[a[1]] = sent[a[1]] + 1 /\ sent[a[1]] \in Nat  BY <3>2
      <4>3. a[2] > sent[a[1]] <=> a[2] > sent[a[1]] + 1  BY <2>1, <3>2, <4>1, <4>2
      <4>4. QED  BY <2>2, <3>1, <4>2, <4>3
    <3>3. CASE a[1] # f
      <4>1. sent2[a[1]] = sent[a[1]]  BY <2>1, <3>3
      <4>2. QED  BY <2>2, <3>1, <4>1
    <3>4. QED  BY <3>2, <3>3
  <2>5. QED  BY <2>3, <2>4
<1>2. QED  BY <1>1 DEF SentOK

\* The numbers at the sinks, when the packet does not come to its sink.
LEMMA GotSame ==
  ASSUME NEW loc, NEW loc2, NEW k, NEW c, NEW z, Moved(loc, loc2, k, c, z),
         NEW g, GotOK(g, loc), loc[k].tag # "got", c.tag # "got"
  PROVE  GotOK(g, loc2)
<1>1. ASSUME NEW a \in Ids  PROVE loc2[a].tag = "got" <=> a[2] \in g[a[1]]
  BY MovedPlaces DEF GotOK
<1>2. QED  BY <1>1 DEF GotOK

\* A packet comes to its sink.
LEMMA GotGets ==
  ASSUME NEW loc, NEW loc2, NEW k, NEW c, NEW z, Moved(loc, loc2, k, c, z),
         NEW g, DOMAIN g = Flows, GotOK(g, loc), loc[k].tag # "got", c.tag = "got"
  PROVE  GotOK([g EXCEPT ![k[1]] = g[k[1]] \cup {k[2]}], loc2)
<1> DEFINE g2 == [g EXCEPT ![k[1]] = g[k[1]] \cup {k[2]}]
<1>1. ASSUME NEW a \in Ids  PROVE loc2[a].tag = "got" <=> a[2] \in g2[a[1]]
  <2>1. a[1] \in Flows /\ a = <<a[1], a[2]>> /\ k \in Ids /\ k[1] \in Flows /\ k = <<k[1], k[2]>>
    BY MovedPlaces DEF Ids
  <2>2. loc[a].tag = "got" <=> a[2] \in g[a[1]]  BY DEF GotOK
  <2>3. g2[a[1]] = IF a[1] = k[1] THEN g[a[1]] \cup {k[2]} ELSE g[a[1]]  BY <2>1
  <2>4. CASE a = k
    <3>1. a[2] \in g2[a[1]]  BY <2>3, <2>4
    <3>2. QED  BY <2>4, <3>1, MovedPlaces
  <2>5. CASE a # k
    <3>1. a[1] = k[1] => a[2] # k[2]  BY <2>1, <2>5
    <3>2. a[2] \in g2[a[1]] <=> a[2] \in g[a[1]]  BY <2>3, <3>1
    <3>3. QED  BY <2>2, <2>5, <3>2, MovedPlaces
  <2>6. QED  BY <2>4, <2>5
<1>2. QED  BY <1>1 DEF GotOK

-----------------------------------------------------------------------------
(* The counters, when one packet changes its place *)

One(b) == IF b THEN 1 ELSE 0

\* Sets that differ in one packet at most differ by one at most in size.
LEMMA Recount ==
  ASSUME NEW A \in SUBSET Ids, NEW B \in SUBSET Ids, NEW k \in Ids, A \ {k} = B \ {k}
  PROVE  /\ Cardinality(A) \in Nat /\ Cardinality(B) \in Nat
         /\ Cardinality(B) = Cardinality(A) + One(k \in B) - One(k \in A)
<1>1. ASSUME NEW C \in SUBSET Ids
      PROVE  /\ Cardinality(C) \in Nat /\ Cardinality(C \ {k}) \in Nat
             /\ Cardinality(C) = Cardinality(C \ {k}) + One(k \in C)
  <2>1. IsFiniteSet(C)  BY IdsFinite, FS_Subset
  <2>2. IsFiniteSet(C \ {k})  BY <2>1, FS_Subset
  <2>3. Cardinality(C) \in Nat /\ Cardinality(C \ {k}) \in Nat
    BY <2>1, <2>2, FS_CardinalityType
  <2>4. Cardinality(C \ {k}) = IF k \in C THEN Cardinality(C) - 1 ELSE Cardinality(C)
    BY <2>1, FS_RemoveElement
  <2>5. QED  BY <2>3, <2>4 DEF One
<1>2. PICK n \in Nat : n = Cardinality(A \ {k})  BY <1>1
<1>3. Cardinality(A) = n + One(k \in A) /\ Cardinality(B) = n + One(k \in B)
  BY <1>1, <1>2
<1>4. QED  BY <1>1, <1>2, <1>3 DEF One

\* The counters for the racks.
LEMMA DstMoved ==
  ASSUME NEW loc, NEW loc2, NEW k, NEW c, NEW z, Moved(loc, loc2, k, c, z),
         NEW toDst, DstOK(toDst, loc), NEW toDst2,
         \A x \in ToRQueues, t \in ToR :
           toDst2[x][t] = toDst[x][t] +
             IF DstOf[k[1]] = t THEN One(c.in = x) + One(c.to = x)
                                     - One(loc[k].in = x) - One(loc[k].to = x)
             ELSE 0
  PROVE  DstOK(toDst2, loc2)
<1>1. ASSUME NEW x \in ToRQueues, NEW t \in ToR
      PROVE  toDst2[x][t] = Cardinality(DstIn(loc2, x, t)) + Cardinality(DstTo(loc2, x, t))
  <2>1. k \in Ids /\ loc2[k] = c  BY MovedPlaces
  <2>2. DstIn(loc, x, t) \ {k} = DstIn(loc2, x, t) \ {k}  BY MovedPlaces DEF DstIn
  <2>3. DstTo(loc, x, t) \ {k} = DstTo(loc2, x, t) \ {k}  BY MovedPlaces DEF DstTo
  <2>4. /\ DstIn(loc, x, t) \in SUBSET Ids /\ DstIn(loc2, x, t) \in SUBSET Ids
        /\ DstTo(loc, x, t) \in SUBSET Ids /\ DstTo(loc2, x, t) \in SUBSET Ids
    BY DEF DstIn, DstTo
  <2>5. /\ Cardinality(DstIn(loc, x, t)) \in Nat /\ Cardinality(DstIn(loc2, x, t)) \in Nat
        /\ Cardinality(DstIn(loc2, x, t)) = Cardinality(DstIn(loc, x, t))
             + One(k \in DstIn(loc2, x, t)) - One(k \in DstIn(loc, x, t))
    BY <2>1, <2>2, <2>4, Recount
  <2>6. /\ Cardinality(DstTo(loc, x, t)) \in Nat /\ Cardinality(DstTo(loc2, x, t)) \in Nat
        /\ Cardinality(DstTo(loc2, x, t)) = Cardinality(DstTo(loc, x, t))
             + One(k \in DstTo(loc2, x, t)) - One(k \in DstTo(loc, x, t))
    BY <2>1, <2>3, <2>4, Recount
  <2>7. /\ k \in DstIn(loc, x, t) <=> loc[k].in = x /\ DstOf[k[1]] = t
        /\ k \in DstIn(loc2, x, t) <=> c.in = x /\ DstOf[k[1]] = t
        /\ k \in DstTo(loc, x, t) <=> loc[k].to = x /\ DstOf[k[1]] = t
        /\ k \in DstTo(loc2, x, t) <=> c.to = x /\ DstOf[k[1]] = t
    BY <2>1 DEF DstIn, DstTo
  <2>8. toDst[x][t] = Cardinality(DstIn(loc, x, t)) + Cardinality(DstTo(loc, x, t))
    BY DEF DstOK
  <2>9. toDst2[x][t] = toDst[x][t] +
          IF DstOf[k[1]] = t THEN One(c.in = x) + One(c.to = x)
                                  - One(loc[k].in = x) - One(loc[k].to = x)
          ELSE 0
    OBVIOUS
  <2>10. QED  BY <2>5, <2>6, <2>7, <2>8, <2>9 DEF One
<1>2. QED  BY <1>1 DEF DstOK

\* The counters for the ports.
LEMMA PortMoved ==
  ASSUME NEW loc, NEW loc2, NEW k, NEW c, NEW z, Moved(loc, loc2, k, c, z),
         NEW toPort, PortOK(toPort, loc), NEW toPort2,
         \A x \in Uplinks, n \in PortsOut :
           toPort2[x][n] = toPort[x][n] + One(InFor(c, x, n)) + One(ToFor(c, x, n))
                           - One(InFor(loc[k], x, n)) - One(ToFor(loc[k], x, n))
  PROVE  PortOK(toPort2, loc2)
<1>1. ASSUME NEW x \in Uplinks, NEW n \in PortsOut
      PROVE  toPort2[x][n] = Cardinality(PortIn(loc2, x, n)) + Cardinality(PortTo(loc2, x, n))
  <2>1. k \in Ids /\ loc2[k] = c  BY MovedPlaces
  <2>2. PortIn(loc, x, n) \ {k} = PortIn(loc2, x, n) \ {k}  BY MovedPlaces DEF PortIn
  <2>3. PortTo(loc, x, n) \ {k} = PortTo(loc2, x, n) \ {k}  BY MovedPlaces DEF PortTo
  <2>4. /\ PortIn(loc, x, n) \in SUBSET Ids /\ PortIn(loc2, x, n) \in SUBSET Ids
        /\ PortTo(loc, x, n) \in SUBSET Ids /\ PortTo(loc2, x, n) \in SUBSET Ids
    BY DEF PortIn, PortTo
  <2>5. /\ Cardinality(PortIn(loc, x, n)) \in Nat /\ Cardinality(PortIn(loc2, x, n)) \in Nat
        /\ Cardinality(PortIn(loc2, x, n)) = Cardinality(PortIn(loc, x, n))
             + One(k \in PortIn(loc2, x, n)) - One(k \in PortIn(loc, x, n))
    BY <2>1, <2>2, <2>4, Recount
  <2>6. /\ Cardinality(PortTo(loc, x, n)) \in Nat /\ Cardinality(PortTo(loc2, x, n)) \in Nat
        /\ Cardinality(PortTo(loc2, x, n)) = Cardinality(PortTo(loc, x, n))
             + One(k \in PortTo(loc2, x, n)) - One(k \in PortTo(loc, x, n))
    BY <2>1, <2>3, <2>4, Recount
  <2>7. /\ k \in PortIn(loc, x, n) <=> InFor(loc[k], x, n)
        /\ k \in PortIn(loc2, x, n) <=> InFor(c, x, n)
        /\ k \in PortTo(loc, x, n) <=> ToFor(loc[k], x, n)
        /\ k \in PortTo(loc2, x, n) <=> ToFor(c, x, n)
    BY <2>1 DEF PortIn, PortTo
  <2>8. toPort[x][n] = Cardinality(PortIn(loc, x, n)) + Cardinality(PortTo(loc, x, n))
    BY DEF PortOK
  <2>9. toPort2[x][n] = toPort[x][n] + One(InFor(c, x, n)) + One(ToFor(c, x, n))
                        - One(InFor(loc[k], x, n)) - One(ToFor(loc[k], x, n))
    OBVIOUS
  <2>10. QED  BY <2>5, <2>6, <2>7, <2>8, <2>9 DEF One
<1>2. QED  BY <1>1 DEF PortOK

\* The packets of a flow at its NIC.
LEMMA NicMoved ==
  ASSUME NEW loc, NEW loc2, NEW k, NEW c, NEW z, Moved(loc, loc2, k, c, z),
         NEW nic, NicOK(nic, loc), NEW nic2,
         \A f \in Flows :
           nic2[f] = nic[f] + IF k[1] = f THEN One(c.in = Nic(SrcOf[f]))
                                               - One(loc[k].in = Nic(SrcOf[f]))
                              ELSE 0
  PROVE  NicOK(nic2, loc2)
<1>1. ASSUME NEW f \in Flows  PROVE nic2[f] = Cardinality(NicOf(loc2, f))
  <2>1. k \in Ids /\ loc2[k] = c  BY MovedPlaces
  <2>2. NicOf(loc, f) \ {k} = NicOf(loc2, f) \ {k}  BY MovedPlaces DEF NicOf
  <2>3. NicOf(loc, f) \in SUBSET Ids /\ NicOf(loc2, f) \in SUBSET Ids  BY DEF NicOf
  <2>4. /\ Cardinality(NicOf(loc, f)) \in Nat /\ Cardinality(NicOf(loc2, f)) \in Nat
        /\ Cardinality(NicOf(loc2, f)) = Cardinality(NicOf(loc, f))
             + One(k \in NicOf(loc2, f)) - One(k \in NicOf(loc, f))
    BY <2>1, <2>2, <2>3, Recount
  <2>5. /\ k \in NicOf(loc, f) <=> k[1] = f /\ loc[k].in = Nic(SrcOf[f])
        /\ k \in NicOf(loc2, f) <=> k[1] = f /\ c.in = Nic(SrcOf[f])
    BY <2>1 DEF NicOf
  <2>6. nic[f] = Cardinality(NicOf(loc, f))  BY DEF NicOK
  <2>7. nic2[f] = nic[f] + IF k[1] = f THEN One(c.in = Nic(SrcOf[f]))
                                            - One(loc[k].in = Nic(SrcOf[f]))
                           ELSE 0
    OBVIOUS
  <2>8. QED  BY <2>4, <2>5, <2>6, <2>7 DEF One
<1>2. QED  BY <1>1 DEF NicOK

\* The packets of a flow in flight.
LEMMA FlightMoved ==
  ASSUME NEW loc, NEW loc2, NEW k, NEW c, NEW z, Moved(loc, loc2, k, c, z),
         NEW flight, FlightOK(flight, loc), NEW flight2,
         \A f \in Flows :
           flight2[f] = flight[f] + IF k[1] = f THEN One(c.tag \in Flights)
                                                     - One(loc[k].tag \in Flights)
                                    ELSE 0
  PROVE  FlightOK(flight2, loc2)
<1>1. ASSUME NEW f \in Flows  PROVE flight2[f] = Cardinality(Flying(loc2, f))
  <2>1. k \in Ids /\ loc2[k] = c  BY MovedPlaces
  <2>2. Flying(loc, f) \ {k} = Flying(loc2, f) \ {k}  BY MovedPlaces DEF Flying
  <2>3. Flying(loc, f) \in SUBSET Ids /\ Flying(loc2, f) \in SUBSET Ids  BY DEF Flying
  <2>4. /\ Cardinality(Flying(loc, f)) \in Nat /\ Cardinality(Flying(loc2, f)) \in Nat
        /\ Cardinality(Flying(loc2, f)) = Cardinality(Flying(loc, f))
             + One(k \in Flying(loc2, f)) - One(k \in Flying(loc, f))
    BY <2>1, <2>2, <2>3, Recount
  <2>5. /\ k \in Flying(loc, f) <=> k[1] = f /\ loc[k].tag \in Flights
        /\ k \in Flying(loc2, f) <=> k[1] = f /\ c.tag \in Flights
    BY <2>1 DEF Flying
  <2>6. flight[f] = Cardinality(Flying(loc, f))  BY DEF FlightOK
  <2>7. flight2[f] = flight[f] + IF k[1] = f THEN One(c.tag \in Flights)
                                                  - One(loc[k].tag \in Flights)
                                 ELSE 0
    OBVIOUS
  <2>8. QED  BY <2>4, <2>5, <2>6, <2>7 DEF One
<1>2. QED  BY <1>1 DEF FlightOK

-----------------------------------------------------------------------------
(* The packet that a list names *)

\* A packet in the list of a queue.
LEMMA HeldPacket ==
  ASSUME NEW loc, NEW z, Placement(loc, z),
         NEW held \in HeldLists, HeldOK(held, loc),
         NEW y \in Queues, NEW i \in 1..Len(held[y])
  PROVE  LET k == Id(held[y][i]) IN
         /\ k \in Ids /\ loc[k].tag = "held" /\ loc[k].at = y /\ loc[k].item = held[y][i]
         /\ loc[k].pkt = held[y][i] /\ loc[k].in = y /\ loc[k].to = Nowhere
         /\ held[y][i] \in HbHPackets /\ loc[k] \in Place
         /\ IsNic(y) => y = Nic(SrcOf[k[1]])
<1>1. PICK k \in HeldAt(loc, y) : loc[k].item = held[y][i]  BY DEF HeldOK, Lists
<1>2. k \in Ids /\ loc[k].tag = "held" /\ loc[k].at = y  BY DEF HeldAt
<1>3. PlaceOK(k, loc[k], z) /\ loc[k] \in Place  BY <1>2 DEF Placement
<1>4. held[y][i] \in HbHPackets
  <2>1. held[y] \in Seq(HbHPackets)  BY DEF HeldLists
  <2>2. QED  BY <2>1, ElementOfSeq
<1>5. QED  BY <1>1, <1>2, <1>3, <1>4 DEF PlaceOK

\* The packet in service.
LEMMA ServingPacket ==
  ASSUME NEW loc, NEW z, Placement(loc, z),
         NEW serving \in Services, ServingOK(serving, loc),
         NEW y \in Queues, serving[y] # <<>>
  PROVE  LET k == Id(serving[y][1].pkt) IN
         /\ k \in Ids /\ loc[k].tag = "serving" /\ loc[k].at = y
         /\ loc[k].item = serving[y][1] /\ serving[y][1] \in Entries
         /\ loc[k].pkt = serving[y][1].pkt /\ loc[k].in = y
         /\ loc[k] \in Place /\ Bound(loc[k], z)
         /\ IsNic(y) => y = Nic(SrcOf[k[1]])
<1>1. PICK k \in Ids : serving[y] = <<loc[k].item>> /\ ServingAt(loc, y) = {k}
  BY DEF ServingOK
<1>2. loc[k].tag = "serving" /\ loc[k].at = y  BY <1>1 DEF ServingAt
<1>3. PlaceOK(k, loc[k], z) /\ loc[k] \in Place  BY <1>2 DEF Placement
<1>4. QED  BY <1>1, <1>2, <1>3 DEF PlaceOK

\* A packet on a link.
LEMMA PipePacket ==
  ASSUME NEW loc, NEW z, Placement(loc, z),
         NEW pipe \in Seq(OnLink), PipeOK(pipe, loc), NEW i \in 1..Len(pipe)
  PROVE  LET k == Id(pipe[i].pkt) IN
         /\ k \in Ids /\ loc[k].tag = "pipe" /\ loc[k].at = pipe[i].from
         /\ loc[k].item = pipe[i] /\ pipe[i] \in OnLink
         /\ loc[k].pkt = pipe[i].pkt /\ loc[k].in = Nowhere
         /\ loc[k] \in Place /\ Bound(loc[k], z)
         /\ IsDown(pipe[i].from) => pipe[i].from = Down(DstOf[k[1]])
<1>1. PICK k \in OnLinks(loc) : loc[k].item = pipe[i]  BY DEF PipeOK, Lists
<1>2. k \in Ids /\ loc[k].tag = "pipe"  BY DEF OnLinks
<1>3. PlaceOK(k, loc[k], z) /\ loc[k] \in Place  BY <1>2 DEF Placement
<1>4. /\ loc[k].item \in OnLink /\ loc[k].item.from = loc[k].at /\ Id(loc[k].pkt) = k
      /\ loc[k].item.pkt = loc[k].pkt /\ loc[k].in = Nowhere /\ Bound(loc[k], z)
      /\ ToItsRack(k, loc[k])
  BY <1>2, <1>3 DEF PlaceOK
<1>5. QED  BY <1>1, <1>2, <1>3, <1>4 DEF ToItsRack

\* The first packet to be sent again.
LEMMA BackPacket ==
  ASSUME NEW loc, NEW z, Placement(loc, z),
         NEW rtx \in BackLists, BackOK(rtx, loc),
         NEW f \in Flows, rtx[f] # <<>>
  PROVE  LET k == Id(Head(rtx[f])) IN
         /\ k \in Ids /\ loc[k].tag = "back" /\ k[1] = f /\ loc[k].item = Head(rtx[f])
         /\ loc[k].pkt = Head(rtx[f]) /\ loc[k].in = Nowhere /\ loc[k].to = Nowhere
         /\ loc[k] \in Place /\ Head(rtx[f]) \in HbHPackets /\ Head(rtx[f]).flow = f
<1>1. 1 \in 1..Len(rtx[f]) /\ Head(rtx[f]) = rtx[f][1] /\ Head(rtx[f]) \in HbHPackets
  <2>1. rtx[f] \in Seq(HbHPackets)  BY DEF BackLists
  <2>2. QED  BY <2>1, TailIsRemoved
<1>2. PICK k \in BackOf(loc, f) : loc[k].item = rtx[f][1]  BY <1>1 DEF BackOK, Lists
<1>3. k \in Ids /\ loc[k].tag = "back" /\ k[1] = f  BY DEF BackOf
<1>4. PlaceOK(k, loc[k], z) /\ loc[k] \in Place  BY <1>3 DEF Placement
<1>5. k = Id(Head(rtx[f])) /\ loc[k].pkt = Head(rtx[f])
  BY <1>1, <1>2, <1>3, <1>4 DEF PlaceOK
<1>6. Head(rtx[f]).flow = f  BY <1>3, <1>5 DEF Id
<1>7. QED  BY <1>1, <1>2, <1>3, <1>4, <1>5, <1>6 DEF PlaceOK

\* The next packet that a source sends for the first time.
LEMMA NewPacket ==
  ASSUME NEW loc, NEW z, Placement(loc, z), NEW sent \in [Flows -> Nat], SentOK(sent, loc),
         NEW f \in Flows, sent[f] < FlowPackets[f]
  PROVE  LET k == <<f, sent[f] + 1>> IN
         /\ k \in Ids /\ k[1] = f /\ loc[k] \in Place
         /\ loc[k].tag = "new" /\ loc[k].in = Nowhere /\ loc[k].to = Nowhere
<1>1. sent[f] \in Nat /\ FlowPackets[f] \in Nat  BY HbHAssumption
<1>2. PICK n \in Nat : n = sent[f] + 1  BY <1>1
<1>3. n \in 1..FlowPackets[f] /\ n > sent[f]  BY <1>1, <1>2
<1>4. <<f, n>> \in Ids  BY <1>3 DEF Ids
<1>5. loc[<<f, n>>].tag = "new"  BY <1>3, <1>4 DEF SentOK
<1>6. PlaceOK(<<f, n>>, loc[<<f, n>>], z) /\ loc[<<f, n>>] \in Place
  BY <1>4 DEF Placement
<1>7. QED  BY <1>2, <1>4, <1>5, <1>6 DEF PlaceOK

\* The source and the rack of a packet's flow, and its way.
LEMMA PacketFacts ==
  ASSUME NEW p \in HbHPackets
  PROVE  /\ p.flow \in Flows /\ p.n \in Nat /\ p.slice \in Slices /\ p.hop \in Nat \cup {-1}
         /\ SrcOf[p.flow] \in ToR /\ DstOf[p.flow] \in ToR
         /\ Id(p)[1] = p.flow /\ Id(p)[2] = p.n
         /\ PortAt(p, p.hop + 1) \in PortsOut /\ PortAt(p, p.hop + 2) \in PortsOut
<1>1. p.flow \in Flows /\ p.n \in Nat /\ p.slice \in Slices /\ p.hop \in Nat \cup {-1}
  BY DEF HbHPackets
<1>2. p.hop + 1 \in Nat /\ p.hop + 2 \in Nat  BY <1>1
<1>3. PortAt(p, p.hop + 1) \in PortsOut /\ PortAt(p, p.hop + 2) \in PortsOut
  BY <1>2, PortAtType
<1>4. SrcOf[p.flow] \in ToR /\ DstOf[p.flow] \in ToR  BY <1>1, HbHAssumption
<1>5. QED  BY <1>1, <1>3, <1>4 DEF Id

-----------------------------------------------------------------------------
(* Records of the queues *)

\* The fields of a record of the queues.
LEMMA RecordFields ==
  ASSUME NEW S \in QueueRecords
  PROVE  /\ S = [held |-> S.held, serving |-> S.serving, toDst |-> S.toDst,
                 toPort |-> S.toPort, waiting |-> S.waiting, nic |-> S.nic,
                 sent |-> S.sent, flight |-> S.flight, rtx |-> S.rtx, pipe |-> S.pipe]
         /\ S.held \in HeldLists /\ S.serving \in Services
         /\ S.toDst \in [Queues -> [ToR -> Int]] /\ S.toPort \in [Queues -> [PortsOut -> Int]]
         /\ S.waiting \in [Queues -> Seq(Queues)] /\ S.nic \in [Flows -> Int]
         /\ S.sent \in [Flows -> Nat] /\ S.flight \in [Flows -> Int]
         /\ S.rtx \in BackLists /\ S.pipe \in Seq(OnLink)
  BY DEF QueueRecords

\* A counter goes up or down by v.
LEMMA Counted ==
  ASSUME NEW A, NEW B, NEW F \in [A -> [B -> Int]], NEW a \in A, NEW b \in B, NEW v \in Int
  PROVE  LET G == [F EXCEPT ![a][b] = F[a][b] + v] IN
         /\ G \in [A -> [B -> Int]]
         /\ \A u \in A, w \in B : G[u][w] = F[u][w] + IF u = a /\ w = b THEN v ELSE 0
         /\ [F EXCEPT ![a] = [F[a] EXCEPT ![b] = F[a][b] + v]] = G
<1> DEFINE G == [F EXCEPT ![a][b] = F[a][b] + v]
           R == [F[a] EXCEPT ![b] = F[a][b] + v]
<1>1. F[a] \in [B -> Int]  OBVIOUS
<1>2. F[a][b] \in Int  BY <1>1
<1>3. R \in [B -> Int] /\ \A w \in B : R[w] = F[a][w] + IF w = b THEN v ELSE 0
  BY <1>1, <1>2
<1>4. [F EXCEPT ![a] = R] = G  OBVIOUS
<1>5. [F EXCEPT ![a] = R] \in [A -> [B -> Int]]  BY <1>3
<1>6. ASSUME NEW u \in A, NEW w \in B
      PROVE  [F EXCEPT ![a] = R][u][w] = F[u][w] + IF u = a /\ w = b THEN v ELSE 0
  <2>1. F[u] \in [B -> Int]  OBVIOUS
  <2>2. F[u][w] \in Int  BY <2>1
  <2> HIDE DEF R
  <2>3. [F EXCEPT ![a] = R][u] = IF u = a THEN R ELSE F[u]  OBVIOUS
  <2>4. QED  BY <1>3, <2>2, <2>3
<1>7. QED  BY <1>4, <1>5, <1>6

-----------------------------------------------------------------------------
(* A packet is chosen, and goes into service *)

\* The queue that may take a packet of y is at the other end of its link.
LEMMA ConnectedLink ==
  ASSUME NEW x \in ToRQueues, NEW y \in Queues, ~IsDown(y), IsNic(y) => y[1] = x[1],
         Connected(x, y), slice \in Slices
  PROVE  LinkTo(y, x[1], FALSE, slice)
<1>1. x[1] \in ToR /\ y[1] \in ToR  BY QueueFacts DEF ToRQueues
<1>2. CASE IsNic(y)  BY <1>2 DEF LinkTo
<1>3. CASE ~IsNic(y)
  <2>1. y[2] \in Port /\ Peer[slice][x[1]][y[2]] = y[1]  BY <1>3, QueueFacts DEF Connected
  <2>2. Peer[slice][y[1]][y[2]] = x[1]
    <3>1. \A t \in ToR, p \in Port :
            Peer[slice][t][p] \in ToR => Peer[slice][Peer[slice][t][p]][p] = t
      BY HbHAssumption
    <3>2. QED  BY <1>1, <2>1, <3>1
  <2>3. QED  BY <1>3, <2>2 DEF LinkTo
<1>4. QED  BY <1>2, <1>3

\* The packet as it leaves its queue, and the ports it takes next.
LEMMA PlacedFacts ==
  ASSUME NEW p \in HbHPackets, NEW y \in Queues, slice \in Slices
  PROVE  LET q == Placed(p, y) IN
         /\ q \in HbHPackets /\ q.flow = p.flow /\ Id(q) = Id(p) /\ (~IsNic(y) => q = p)
         /\ NextPort(p, y) = PortAt(q, q.hop + 1)
         /\ NextNextPort(p, y) = IF NextPort(p, y) = "down" THEN "none"
                                 ELSE PortAt(q, q.hop + 2)
  BY DEF Placed, NextPort, NextNextPort, HbHPackets, Id

\* What remains of the record, where x has chosen packet i of y.
Chosen(S, x, y, i) ==
  LET p == S.held[y][i]
      n == NextNextPort(p, y)
  IN [S EXCEPT
       !.held[y] = RemoveAt(@, i),
       !.serving[y] = <<[pkt |-> Placed(p, y), to |-> x, old |-> FALSE]>>,
       !.toDst[x][DstOf[p.flow]] = @ + 1,
       !.toPort[x] = IF n = "none" THEN @ ELSE [@ EXCEPT ![n] = S.toPort[x][n] + 1]]

\* A packet is chosen, or none.
LEMMA ExtractForm ==
  ASSUME NEW S, NEW x, NEW y \in Queues, S \in QueueRecords
  PROVE  \/ Extract(S, x, y) = S
         \/ \E i \in 1..Len(S.held[y]) :
              Accepts(S, x, y, S.held[y][i]) /\ Extract(S, x, y) = Chosen(S, x, y, i)
<1> DEFINE I == {i \in 1..Len(S.held[y]) : Accepts(S, x, y, S.held[y][i])}
           j == SelectInSeq(S.held[y], LAMBDA p : Accepts(S, x, y, p))
<1>1. j = IF I # {} THEN Min(I) ELSE 0  BY DEF SelectInSeq
<1>2. Len(S.held[y]) \in Nat
  <2>1. S.held[y] \in Seq(HbHPackets)  BY RecordFields DEF HeldLists
  <2>2. QED  BY <2>1, LenProperties
<1>3. Extract(S, x, y) = IF j = 0 THEN S ELSE Chosen(S, x, y, j)  BY DEF Extract, Chosen
<1> HIDE DEF j
<1>4. CASE I = {}  BY <1>1, <1>3, <1>4
<1>5. CASE I # {}
  <2>1. I \in SUBSET Nat  BY <1>2
  <2>2. \E m \in I : \A h \in I : m <= h  BY <1>5, <2>1, LeastElement
  <2>3. Min(I) \in I
    <3> HIDE DEF I
    <3>1. QED  BY <2>2 DEF Min
  <2>4. j \in I  BY <1>1, <1>5, <2>3
  <2>5. j # 0 /\ j \in 1..Len(S.held[y]) /\ Accepts(S, x, y, S.held[y][j])  BY <1>2, <2>4
  <2>6. QED  BY <1>3, <2>5
<1>6. QED  BY <1>4, <1>5

\* What the downlinks have in service is the same.
SameDown(S, T) == \A d \in Queues : IsDown(d) => T.serving[d] = S.serving[d]

\* Polling leaves the windows of the flows and the service of the downlinks alone.
Untouched(S, T) == T.nic = S.nic /\ T.flight = S.flight /\ SameDown(S, T)

\* The fields after a packet was chosen.
LEMMA ChosenFields ==
  ASSUME NEW S \in QueueRecords, NEW x \in Queues, NEW y \in Queues, NEW i \in 1..Len(S.held[y]),
         slice \in Slices
  PROVE  LET T == Chosen(S, x, y, i)
             p == S.held[y][i]
             n == NextNextPort(p, y)
         IN
         /\ T \in QueueRecords /\ p \in HbHPackets /\ n \in PortsOut \cup {"none"}
         /\ T.held = [S.held EXCEPT ![y] = RemoveAt(S.held[y], i)]
         /\ T.serving = [S.serving EXCEPT ![y] = <<[pkt |-> Placed(p, y), to |-> x, old |-> FALSE]>>]
         /\ \A u \in Queues, t \in ToR :
              T.toDst[u][t] = S.toDst[u][t] + IF u = x /\ t = DstOf[p.flow] THEN 1 ELSE 0
         /\ \A u \in Queues, m \in PortsOut :
              T.toPort[u][m] = S.toPort[u][m] + IF u = x /\ m = n THEN 1 ELSE 0
         /\ T.waiting = S.waiting /\ T.nic = S.nic /\ T.sent = S.sent
         /\ T.flight = S.flight /\ T.rtx = S.rtx /\ T.pipe = S.pipe
<1>0. PICK T, p, n : T = Chosen(S, x, y, i) /\ p = S.held[y][i] /\ n = NextNextPort(p, y)
  OBVIOUS
<1> DEFINE d == DstOf[p.flow]
           e == [pkt |-> Placed(p, y), to |-> x, old |-> FALSE]
           toDst2 == [S.toDst EXCEPT ![x][d] = S.toDst[x][d] + 1]
           toPort2 == [S.toPort EXCEPT ![x] = IF n = "none" THEN S.toPort[x]
                                               ELSE [S.toPort[x] EXCEPT ![n] = S.toPort[x][n] + 1]]
<1>1. p \in HbHPackets /\ d \in ToR
  <2>1. S.held[y] \in Seq(HbHPackets)  BY RecordFields DEF HeldLists
  <2>2. p \in HbHPackets  BY <1>0, <2>1, ElementOfSeq
  <2>3. QED  BY <2>2, PacketFacts
<1>2. n \in PortsOut \cup {"none"} /\ Placed(p, y) \in HbHPackets
  <2>1. PICK q : q = Placed(p, y)  OBVIOUS
  <2>2. q \in HbHPackets /\ n = IF NextPort(p, y) = "down" THEN "none" ELSE PortAt(q, q.hop + 2)
    BY <1>0, <1>1, <2>1, PlacedFacts
  <2>3. PortAt(q, q.hop + 2) \in PortsOut  BY <2>2, PacketFacts
  <2>4. QED  BY <2>1, <2>2, <2>3
<1>3. /\ toDst2 \in [Queues -> [ToR -> Int]]
      /\ \A u \in Queues, t \in ToR :
           toDst2[u][t] = S.toDst[u][t] + IF u = x /\ t = d THEN 1 ELSE 0
  <2>1. S.toDst \in [Queues -> [ToR -> Int]] /\ 1 \in Int  BY RecordFields
  <2> HIDE DEF d
  <2>2. QED  BY <1>1, <2>1, Counted
<1>4. /\ toPort2 \in [Queues -> [PortsOut -> Int]]
      /\ \A u \in Queues, m \in PortsOut :
           toPort2[u][m] = S.toPort[u][m] + IF u = x /\ m = n THEN 1 ELSE 0
  <2>1. S.toPort \in [Queues -> [PortsOut -> Int]] /\ 1 \in Int  BY RecordFields
  <2>2. CASE n = "none"
    <3>1. toPort2 = S.toPort  BY <2>1, <2>2
    <3>2. "none" \notin PortsOut  BY HbHAssumption DEF PortsOut
    <3>3. \A u \in Queues, m \in PortsOut : S.toPort[u][m] \in Int  BY <2>1
    <3>4. QED  BY <2>1, <2>2, <3>1, <3>2, <3>3
  <2>3. CASE n # "none"
    <3>1. n \in PortsOut  BY <1>2, <2>3
    <3>2. toPort2 = [S.toPort EXCEPT ![x] = [S.toPort[x] EXCEPT ![n] = S.toPort[x][n] + 1]]
      BY <2>3
    <3> HIDE DEF toPort2
    <3>3. toPort2 = [S.toPort EXCEPT ![x][n] = S.toPort[x][n] + 1]
      BY <2>1, <3>1, <3>2, Counted
    <3>4. QED  BY <2>1, <3>1, <3>3, Counted
  <2>4. QED  BY <2>2, <2>3
<1>5. T = [held |-> [S.held EXCEPT ![y] = RemoveAt(S.held[y], i)],
           serving |-> [S.serving EXCEPT ![y] = <<e>>],
           toDst |-> toDst2, toPort |-> toPort2, waiting |-> S.waiting, nic |-> S.nic,
           sent |-> S.sent, flight |-> S.flight, rtx |-> S.rtx, pipe |-> S.pipe]
  <2> DEFINE held2 == [S.held EXCEPT ![y] = RemoveAt(S.held[y], i)]
             serving2 == [S.serving EXCEPT ![y] = <<e>>]
  <2>1. T = [S EXCEPT !.held = held2, !.serving = serving2, !.toDst = toDst2,
                      !.toPort = toPort2]
    BY <1>0 DEF Chosen
  <2> HIDE DEF held2, serving2, toDst2, toPort2
  <2>2. T = [held |-> held2, serving |-> serving2, toDst |-> toDst2, toPort |-> toPort2,
             waiting |-> S.waiting, nic |-> S.nic, sent |-> S.sent, flight |-> S.flight,
             rtx |-> S.rtx, pipe |-> S.pipe]
    BY <2>1 DEF QueueRecords
  <2>3. QED  BY <2>2 DEF held2, serving2
<1>6. [S.held EXCEPT ![y] = RemoveAt(S.held[y], i)] \in [Queues -> Seq(HbHPackets)]
  <2>1. S.held \in [Queues -> Seq(HbHPackets)] /\ S.held[y] \in Seq(HbHPackets)
    BY RecordFields DEF HeldLists
  <2>2. RemoveAt(S.held[y], i) \in Seq(HbHPackets)  BY <2>1, RemoveAtFacts
  <2>3. QED  BY <2>1, <2>2
<1>7. [S.serving EXCEPT ![y] = <<e>>] \in [Queues -> Seq(Entries)]
  <2>1. S.serving \in [Queues -> Seq(Entries)]  BY RecordFields DEF Services
  <2>2. e \in Entries  BY <1>2 DEF Entries
  <2> HIDE DEF e
  <2>3. <<e>> \in Seq(Entries)  BY <2>2
  <2>4. QED  BY <2>1, <2>3
<1> HIDE DEF toDst2, toPort2
<1>8. T \in QueueRecords
  BY <1>3, <1>4, <1>5, <1>6, <1>7, RecordFields DEF QueueRecords, HeldLists, Services
<1>9. QED  BY <1>0, <1>1, <1>2, <1>3, <1>4, <1>5, <1>8

\* A chosen packet is counted by the queue that chose it, and is in service.
LEMMA ChosenGood ==
  ASSUME NEW S, NEW g, NEW x \in ToRQueues, NEW y \in Queues, Good(S, g, slice), slice \in Slices,
         S.serving[y] = <<>>, Connected(x, y), ~IsDown(y), IsNic(y) => y[1] = x[1],
         NEW i \in 1..Len(S.held[y]), Accepts(S, x, y, S.held[y][i])
  PROVE  /\ Good(Chosen(S, x, y, i), g, slice)
         /\ Untouched(S, Chosen(S, x, y, i))
<1>1. S \in QueueRecords /\ Sound(S)  BY DEF Good, Sound
<1>2. x \in Queues /\ ~IsNic(x)  BY DEF ToRQueues
<1>3. PICK loc : Ledger(S, loc, g, slice)  BY DEF Good
<1>4. PICK p : p = S.held[y][i]  OBVIOUS
<1>5. PICK n : n = NextNextPort(p, y)  OBVIOUS
<1>6. PICK T : T = Chosen(S, x, y, i)  OBVIOUS
<1>7. PICK q : q = Placed(p, y)  OBVIOUS
<1>8. PICK e : e = [pkt |-> q, to |-> x, old |-> FALSE]  OBVIOUS
<1>9. /\ T \in QueueRecords /\ p \in HbHPackets /\ n \in PortsOut \cup {"none"}
      /\ T.held = [S.held EXCEPT ![y] = RemoveAt(S.held[y], i)]
      /\ T.serving = [S.serving EXCEPT ![y] = <<e>>]
      /\ \A u \in Queues, t \in ToR :
           T.toDst[u][t] = S.toDst[u][t] + IF u = x /\ t = DstOf[p.flow] THEN 1 ELSE 0
      /\ \A u \in Queues, m \in PortsOut :
           T.toPort[u][m] = S.toPort[u][m] + IF u = x /\ m = n THEN 1 ELSE 0
      /\ T.waiting = S.waiting /\ T.nic = S.nic /\ T.sent = S.sent
      /\ T.flight = S.flight /\ T.rtx = S.rtx /\ T.pipe = S.pipe
  <2>1. LET U == Chosen(S, x, y, i)
            o == S.held[y][i]
            m == NextNextPort(o, y)
        IN
        /\ U \in QueueRecords /\ o \in HbHPackets /\ m \in PortsOut \cup {"none"}
        /\ U.held = [S.held EXCEPT ![y] = RemoveAt(S.held[y], i)]
        /\ U.serving =
             [S.serving EXCEPT ![y] = <<[pkt |-> Placed(o, y), to |-> x, old |-> FALSE]>>]
        /\ \A u \in Queues, t \in ToR :
             U.toDst[u][t] = S.toDst[u][t] + IF u = x /\ t = DstOf[o.flow] THEN 1 ELSE 0
        /\ \A u \in Queues, v \in PortsOut :
             U.toPort[u][v] = S.toPort[u][v] + IF u = x /\ v = m THEN 1 ELSE 0
        /\ U.waiting = S.waiting /\ U.nic = S.nic /\ U.sent = S.sent
        /\ U.flight = S.flight /\ U.rtx = S.rtx /\ U.pipe = S.pipe
    BY <1>1, <1>2, ChosenFields
  <2>2. QED  BY <1>4, <1>5, <1>6, <1>7, <1>8, <2>1
<1>10. /\ q \in HbHPackets /\ q.flow = p.flow /\ Id(q) = Id(p) /\ (~IsNic(y) => q = p)
       /\ NextPort(p, y) = PortAt(q, q.hop + 1)
       /\ n = IF NextPort(p, y) = "down" THEN "none" ELSE PortAt(q, q.hop + 2)
  BY <1>5, <1>7, <1>9, PlacedFacts
<1>11. /\ NextPort(p, y) = x[2]
       /\ IsDown(x) \/ (S.toDst[x][DstOf[p.flow]] <= D /\ S.toPort[x][n] <= P)
  BY <1>4, <1>5 DEF Accepts
<1>12. /\ Placement(loc, slice) /\ HeldOK(S.held, loc) /\ ServingOK(S.serving, loc)
       /\ PipeOK(S.pipe, loc) /\ BackOK(S.rtx, loc) /\ SentOK(S.sent, loc) /\ GotOK(g, loc)
       /\ DstOK(S.toDst, loc) /\ PortOK(S.toPort, loc)
       /\ NicOK(S.nic, loc) /\ FlightOK(S.flight, loc)
  BY <1>3 DEF Ledger
<1>13. /\ S.held \in HeldLists /\ S.serving \in Services
       /\ S.toDst \in [Queues -> [ToR -> Int]] /\ S.toPort \in [Queues -> [PortsOut -> Int]]
       /\ S.nic \in [Flows -> Int] /\ S.flight \in [Flows -> Int]
  BY <1>1, RecordFields
<1>14. PICK k : k = Id(p)  OBVIOUS
<1>15. /\ k \in Ids /\ loc[k].tag = "held" /\ loc[k].at = y /\ loc[k].item = p
       /\ loc[k].pkt = p /\ loc[k].in = y /\ loc[k].to = Nowhere
       /\ IsNic(y) => y = Nic(SrcOf[k[1]])
  <2>1. LET m == Id(S.held[y][i]) IN
        /\ m \in Ids /\ loc[m].tag = "held" /\ loc[m].at = y /\ loc[m].item = S.held[y][i]
        /\ loc[m].pkt = S.held[y][i] /\ loc[m].in = y /\ loc[m].to = Nowhere
        /\ IsNic(y) => y = Nic(SrcOf[m[1]])
    BY <1>12, <1>13, HeldPacket
  <2>2. QED  BY <1>4, <1>14, <2>1
<1>16. k[1] = p.flow /\ DstOf[p.flow] \in ToR  BY <1>9, <1>14, PacketFacts
<1>17. PICK c : c = [tag |-> "serving", at |-> y, in |-> y, to |-> x, pkt |-> q, item |-> e]
  OBVIOUS
<1>18. c \in Place /\ e \in Entries
  <2>1. e \in Entries  BY <1>2, <1>8, <1>10 DEF Entries
  <2>2. QED  BY <1>2, <1>10, <1>17, <2>1 DEF Place
<1>19. PlaceOK(k, c, slice)
  <2>1. LinkTo(y, x[1], FALSE, slice)  BY ConnectedLink
  <2>2. Bound(c, slice)  BY <1>8, <1>10, <1>11, <1>17, <2>1 DEF Bound
  <2>3. QED  BY <1>8, <1>10, <1>14, <1>15, <1>17, <1>18, <2>2 DEF PlaceOK
<1>20. PICK loc2 : loc2 = [loc EXCEPT ![k] = c]  OBVIOUS
<1>21. Moved(loc, loc2, k, c, slice)  BY <1>12, <1>15, <1>18, <1>19, <1>20 DEF Moved
<1>22. c.tag = "serving" /\ c.at = y /\ c.in = y /\ c.to = x /\ c.item = e /\ c.pkt = q
  BY <1>17
<1>23. HeldOK(T.held, loc2)
  <2>1. c.tag # "held" /\ loc[k].item = S.held[y][i]  BY <1>4, <1>15, <1>22
  <2>2. HeldOK([S.held EXCEPT ![y] = RemoveAt(S.held[y], i)], loc2)
    BY ONLY <1>12, <1>13, <1>15, <1>21, <2>1, HeldTakes, y \in Queues,
       i \in 1..Len(S.held[y])
  <2>3. QED  BY <1>9, <2>2
<1>24. ServingOK(T.serving, loc2)
  <2>1. loc[k].tag # "serving"  BY <1>15
  <2>2. ServingOK([S.serving EXCEPT ![y] = <<e>>], loc2)
    BY <1>12, <1>13, <1>21, <1>22, <2>1, ServingGets
  <2>3. QED  BY <1>9, <2>2
<1>25. PipeOK(T.pipe, loc2)  BY <1>9, <1>12, <1>15, <1>21, <1>22, PipeSame
<1>26. BackOK(T.rtx, loc2)  BY <1>9, <1>12, <1>15, <1>21, <1>22, BackSame
<1>27. SentOK(T.sent, loc2)  BY <1>9, <1>12, <1>15, <1>21, <1>22, SentSame
<1>28. GotOK(g, loc2)  BY <1>12, <1>15, <1>21, <1>22, GotSame
<1>29. DstOK(T.toDst, loc2)
  <2>1. ASSUME NEW u \in ToRQueues, NEW t \in ToR
        PROVE  T.toDst[u][t] = S.toDst[u][t] +
                 IF DstOf[k[1]] = t THEN One(c.in = u) + One(c.to = u)
                                         - One(loc[k].in = u) - One(loc[k].to = u)
                 ELSE 0
    <3>1. T.toDst[u][t] = S.toDst[u][t] + IF u = x /\ t = DstOf[p.flow] THEN 1 ELSE 0
      BY <1>9 DEF ToRQueues
    <3>2. QED  BY <1>15, <1>16, <1>22, <3>1, NowhereIsNoQueue DEF One, ToRQueues
  <2>2. QED  BY <1>12, <1>21, <2>1, DstMoved
<1>30. PortOK(T.toPort, loc2)
  <2>1. ASSUME NEW u \in Uplinks, NEW m \in PortsOut
        PROVE  T.toPort[u][m] = S.toPort[u][m] + One(InFor(c, u, m)) + One(ToFor(c, u, m))
                                - One(InFor(loc[k], u, m)) - One(ToFor(loc[k], u, m))
    <3>1. u \in Queues /\ ~IsNic(u) /\ ~IsDown(u) /\ u[2] # "down"
      <4>1. u \in Queues  BY DEF Queues
      <4>2. QED  BY <4>1, QueueFacts DEF IsDown
    <3>2. InFor(c, u, m) = InFor(loc[k], u, m)
      <4>1. CASE IsNic(y)  BY <1>15, <1>22, <3>1, <4>1 DEF InFor
      <4>2. CASE ~IsNic(y)  BY <1>10, <1>15, <1>22, <4>2 DEF InFor
      <4>3. QED  BY <4>1, <4>2
    <3>3. ~ToFor(loc[k], u, m)  BY <1>15, <3>1, NowhereIsNoQueue DEF ToFor
    <3>4. ToFor(c, u, m) <=> u = x /\ m = n
      BY <1>10, <1>11, <1>22, <3>1 DEF ToFor
    <3>5. T.toPort[u][m] = S.toPort[u][m] + IF u = x /\ m = n THEN 1 ELSE 0
      BY <1>9, <3>1
    <3>6. S.toPort[u][m] \in Int  BY <1>13, <3>1
    <3>7. QED  BY <3>2, <3>3, <3>4, <3>5, <3>6 DEF One
  <2>2. QED  BY <1>12, <1>21, <2>1, PortMoved
<1>31. NicOK(T.nic, loc2)
  <2>1. ASSUME NEW f \in Flows
        PROVE  T.nic[f] = S.nic[f] + IF k[1] = f THEN One(c.in = Nic(SrcOf[f]))
                                                      - One(loc[k].in = Nic(SrcOf[f]))
                                     ELSE 0
    <3>1. S.nic[f] \in Int  BY <1>13
    <3>2. QED  BY <1>9, <1>15, <1>22, <3>1 DEF One
  <2>2. QED  BY <1>12, <1>21, <2>1, NicMoved
<1>32. FlightOK(T.flight, loc2)
  <2>1. ASSUME NEW f \in Flows
        PROVE  T.flight[f] = S.flight[f] + IF k[1] = f THEN One(c.tag \in Flights)
                                                            - One(loc[k].tag \in Flights)
                                           ELSE 0
    <3>1. S.flight[f] \in Int  BY <1>13
    <3>2. QED  BY <1>9, <1>15, <1>22, <3>1 DEF One, Flights
  <2>2. QED  BY <1>12, <1>21, <2>1, FlightMoved
<1>33. Placement(loc2, slice)  BY <1>21, MovedPlaces
<1>34. Ledger(T, loc2, g, slice)
  BY <1>23, <1>24, <1>25, <1>26, <1>27, <1>28, <1>29, <1>30, <1>31, <1>32, <1>33 DEF Ledger
<1>35. WaitingOK(T.waiting) /\ Windows(T.nic, T.sent, T.flight)  BY <1>1, <1>9 DEF Sound
<1>36. Unused(T.toDst, T.toPort)
  <2>1. ASSUME NEW u \in Queues
        PROVE  /\ IsNic(u) => \A t \in ToR : T.toDst[u][t] = 0
               /\ u \notin Uplinks => \A m \in PortsOut : T.toPort[u][m] = 0
    <3>1. /\ IsNic(u) => \A t \in ToR : S.toDst[u][t] = 0
          /\ u \notin Uplinks => \A m \in PortsOut : S.toPort[u][m] = 0
      BY <1>1 DEF Sound, Unused
    <3>2. IsNic(u) => u # x  BY <1>2
    <3>3. u \notin Uplinks /\ u = x => n = "none"
      <4>1. x \notin Uplinks => IsDown(x)  BY <1>2, QueueFacts
      <4>2. QED  BY <1>10, <1>11, <4>1 DEF IsDown
    <3>4. "none" \notin PortsOut  BY HbHAssumption DEF PortsOut
    <3>5. QED  BY <1>9, <3>1, <3>2, <3>3, <3>4
  <2>2. QED  BY <2>1 DEF Unused
<1>37. Limits(T.toDst, T.toPort)
  <2>1. ASSUME NEW u \in Uplinks
        PROVE  /\ \A t \in ToR : T.toDst[u][t] <= D + 1
               /\ \A m \in PortsOut : T.toPort[u][m] <= P + 1
    <3>1. /\ \A t \in ToR : S.toDst[u][t] <= D + 1
          /\ \A m \in PortsOut : S.toPort[u][m] <= P + 1
      BY <1>1 DEF Sound, Limits
    <3>2. u \in Queues /\ ~IsDown(u) /\ D \in Nat /\ P \in Nat
      <4>1. u \in Queues  BY DEF Queues
      <4>2. QED  BY <4>1, QueueFacts, HbHAssumption
    <3>3. ASSUME NEW t \in ToR  PROVE T.toDst[u][t] <= D + 1
      <4>1. S.toDst[u][t] \in Int  BY <1>13, <3>2
      <4>2. T.toDst[u][t] = S.toDst[u][t] + IF u = x /\ t = DstOf[p.flow] THEN 1 ELSE 0
        BY <1>9, <3>2
      <4>3. u = x /\ t = DstOf[p.flow] => S.toDst[u][t] <= D  BY <1>11, <3>2
      <4>4. QED  BY <3>1, <3>2, <4>1, <4>2, <4>3
    <3>4. ASSUME NEW m \in PortsOut  PROVE T.toPort[u][m] <= P + 1
      <4>1. S.toPort[u][m] \in Int  BY <1>13, <3>2
      <4>2. T.toPort[u][m] = S.toPort[u][m] + IF u = x /\ m = n THEN 1 ELSE 0
        BY <1>9, <3>2
      <4>3. u = x /\ m = n => S.toPort[u][m] <= P  BY <1>11, <3>2
      <4>4. QED  BY <3>1, <3>2, <4>1, <4>2, <4>3
    <3>5. QED  BY <3>3, <3>4
  <2>2. QED  BY <2>1 DEF Limits
<1>38. Good(T, g, slice)  BY <1>9, <1>34, <1>35, <1>36, <1>37 DEF Good, Sound
<1>39. Untouched(S, T)
  <2>1. S.serving \in [Queues -> Seq(Entries)]  BY <1>1, RecordFields DEF Services
  <2>2. ASSUME NEW d \in Queues, IsDown(d)  PROVE T.serving[d] = S.serving[d]
    <3>1. d # y  BY <2>2
    <3>2. QED  BY <1>9, <2>1, <3>1
  <2>3. QED  BY <1>9, <2>2 DEF Untouched, SameDown
<1>40. QED  BY <1>6, <1>38, <1>39

-----------------------------------------------------------------------------
(* The other moves of a packet *)

\* The counters change by what packet k, from place b to c, counts for.
Tallied(S, T, k, b, c) ==
  /\ \A x \in ToRQueues, t \in ToR :
       T.toDst[x][t] = S.toDst[x][t] +
         IF DstOf[k[1]] = t THEN One(c.in = x) + One(c.to = x) - One(b.in = x) - One(b.to = x)
         ELSE 0
  /\ \A x \in Uplinks, n \in PortsOut :
       T.toPort[x][n] = S.toPort[x][n] + One(InFor(c, x, n)) + One(ToFor(c, x, n))
                        - One(InFor(b, x, n)) - One(ToFor(b, x, n))
  /\ \A f \in Flows :
       T.nic[f] = S.nic[f] + IF k[1] = f THEN One(c.in = Nic(SrcOf[f])) - One(b.in = Nic(SrcOf[f]))
                             ELSE 0
  /\ \A f \in Flows :
       T.flight[f] = S.flight[f] + IF k[1] = f THEN One(c.tag \in Flights) - One(b.tag \in Flights)
                                   ELSE 0

\* The books are right after a move that lists and counters follow.
LEMMA MoveGood ==
  ASSUME NEW S, NEW T, NEW loc, NEW loc2, NEW k, NEW c, NEW z, NEW g, NEW g2,
         Ledger(S, loc, g, z), Moved(loc, loc2, k, c, z), Sound(T),
         HeldOK(T.held, loc2), ServingOK(T.serving, loc2), PipeOK(T.pipe, loc2),
         BackOK(T.rtx, loc2), SentOK(T.sent, loc2), GotOK(g2, loc2),
         Tallied(S, T, k, loc[k], c)
  PROVE  Good(T, g2, z)
<1>1. DstOK(S.toDst, loc) /\ PortOK(S.toPort, loc) /\ NicOK(S.nic, loc) /\ FlightOK(S.flight, loc)
  BY DEF Ledger
<1>2. DstOK(T.toDst, loc2)
  <2>1. \A x \in ToRQueues, t \in ToR :
          T.toDst[x][t] = S.toDst[x][t] +
            IF DstOf[k[1]] = t THEN One(c.in = x) + One(c.to = x)
                                    - One(loc[k].in = x) - One(loc[k].to = x)
            ELSE 0
    BY DEF Tallied
  <2>2. QED  BY <1>1, <2>1, DstMoved
<1>3. PortOK(T.toPort, loc2)
  <2>1. \A x \in Uplinks, n \in PortsOut :
          T.toPort[x][n] = S.toPort[x][n] + One(InFor(c, x, n)) + One(ToFor(c, x, n))
                           - One(InFor(loc[k], x, n)) - One(ToFor(loc[k], x, n))
    BY DEF Tallied
  <2>2. QED  BY <1>1, <2>1, PortMoved
<1>4. NicOK(T.nic, loc2)
  <2>1. \A f \in Flows :
          T.nic[f] = S.nic[f] + IF k[1] = f THEN One(c.in = Nic(SrcOf[f]))
                                                 - One(loc[k].in = Nic(SrcOf[f]))
                                ELSE 0
    BY DEF Tallied
  <2>2. QED  BY <1>1, <2>1, NicMoved
<1>5. FlightOK(T.flight, loc2)
  <2>1. \A f \in Flows :
          T.flight[f] = S.flight[f] + IF k[1] = f THEN One(c.tag \in Flights)
                                                       - One(loc[k].tag \in Flights)
                                      ELSE 0
    BY DEF Tallied
  <2>2. QED  BY <1>1, <2>1, FlightMoved
<1>6. Placement(loc2, z)  BY MovedPlaces
<1>7. Ledger(T, loc2, g2, z)  BY <1>2, <1>3, <1>4, <1>5, <1>6 DEF Ledger
<1>8. QED  BY <1>7 DEF Good

\* Counters that go down stay within their limits.
LEMMA SoundBelow ==
  ASSUME NEW S, NEW T \in QueueRecords, Sound(S), T.waiting = S.waiting,
         \A x \in Queues, t \in ToR :
           T.toDst[x][t] <= S.toDst[x][t] /\ (IsNic(x) => T.toDst[x][t] = S.toDst[x][t]),
         \A x \in Queues, n \in PortsOut :
           T.toPort[x][n] <= S.toPort[x][n] /\ (x \notin Uplinks => T.toPort[x][n] = S.toPort[x][n]),
         Windows(T.nic, T.sent, T.flight)
  PROVE  Sound(T)
<1>1. /\ S \in QueueRecords /\ WaitingOK(S.waiting)
      /\ Unused(S.toDst, S.toPort) /\ Limits(S.toDst, S.toPort)
  BY DEF Sound
<1>2. Unused(T.toDst, T.toPort)  BY <1>1 DEF Unused
<1>3. Limits(T.toDst, T.toPort)
  <2>1. ASSUME NEW x \in Uplinks
        PROVE  /\ \A t \in ToR : T.toDst[x][t] <= D + 1
               /\ \A n \in PortsOut : T.toPort[x][n] <= P + 1
    <3>1. x \in Queues  BY DEF Queues
    <3>2. D \in Nat /\ P \in Nat  BY HbHAssumption
    <3>3. /\ S.toDst \in [Queues -> [ToR -> Int]] /\ S.toPort \in [Queues -> [PortsOut -> Int]]
          /\ T.toDst \in [Queues -> [ToR -> Int]] /\ T.toPort \in [Queues -> [PortsOut -> Int]]
      BY <1>1, RecordFields
    <3>4. ASSUME NEW t \in ToR  PROVE T.toDst[x][t] <= D + 1
      <4>1. S.toDst[x][t] \in Int /\ T.toDst[x][t] \in Int  BY <3>1, <3>3
      <4>2. S.toDst[x][t] <= D + 1 /\ T.toDst[x][t] <= S.toDst[x][t]
        BY <1>1, <3>1 DEF Limits
      <4>3. QED  BY <3>2, <4>1, <4>2
    <3>5. ASSUME NEW n \in PortsOut  PROVE T.toPort[x][n] <= P + 1
      <4>1. S.toPort[x][n] \in Int /\ T.toPort[x][n] \in Int  BY <3>1, <3>3
      <4>2. S.toPort[x][n] <= P + 1 /\ T.toPort[x][n] <= S.toPort[x][n]
        BY <1>1, <3>1 DEF Limits
      <4>3. QED  BY <3>2, <4>1, <4>2
    <3>6. QED  BY <3>4, <3>5
  <2>2. QED  BY <2>1 DEF Limits
<1>4. QED  BY <1>1, <1>2, <1>3 DEF Sound

\* The first packet of a downlink goes into service.
LEMMA ServeDownGood ==
  ASSUME NEW S, NEW g, NEW z, Good(S, g, z), NEW x \in Queues, IsDown(x),
         S.serving[x] = <<>>, S.held[x] # <<>>
  PROVE  Good(ServeDown(S, x), g, z)
<1>1. S \in QueueRecords /\ Sound(S)  BY DEF Good, Sound
<1>2. PICK loc : Ledger(S, loc, g, z)  BY DEF Good
<1>3. /\ Placement(loc, z) /\ HeldOK(S.held, loc) /\ ServingOK(S.serving, loc)
      /\ PipeOK(S.pipe, loc) /\ BackOK(S.rtx, loc) /\ SentOK(S.sent, loc) /\ GotOK(g, loc)
  BY <1>2 DEF Ledger
<1>4. /\ S.held \in HeldLists /\ S.serving \in Services
      /\ S.toDst \in [Queues -> [ToR -> Int]] /\ S.toPort \in [Queues -> [PortsOut -> Int]]
      /\ S.nic \in [Flows -> Int] /\ S.flight \in [Flows -> Int]
  BY <1>1, RecordFields
<1>5. S.held[x] \in Seq(HbHPackets)  BY <1>4 DEF HeldLists
<1>6. /\ 1 \in 1..Len(S.held[x]) /\ Head(S.held[x]) = S.held[x][1]
      /\ Head(S.held[x]) \in HbHPackets /\ Tail(S.held[x]) = RemoveAt(S.held[x], 1)
      /\ RemoveAt(S.held[x], 1) \in Seq(HbHPackets)
  BY <1>5, TailIsRemoved, RemoveAtFacts
<1>7. PICK T : T = ServeDown(S, x)  OBVIOUS
<1>8. PICK p : p = S.held[x][1]  OBVIOUS
<1>9. PICK e : e = [pkt |-> p, to |-> x, old |-> FALSE]  OBVIOUS
<1>10. e \in Entries /\ p \in HbHPackets  BY <1>6, <1>8, <1>9 DEF Entries
<1> DEFINE held2 == [S.held EXCEPT ![x] = RemoveAt(S.held[x], 1)]
           serving2 == [S.serving EXCEPT ![x] = <<e>>]
<1>11. T = [held |-> held2, serving |-> serving2, toDst |-> S.toDst, toPort |-> S.toPort,
            waiting |-> S.waiting, nic |-> S.nic, sent |-> S.sent, flight |-> S.flight,
            rtx |-> S.rtx, pipe |-> S.pipe]
  <2>1. T = [S EXCEPT !.held = held2, !.serving = serving2]
    BY <1>6, <1>7, <1>8, <1>9 DEF ServeDown
  <2> HIDE DEF held2, serving2
  <2>2. QED  BY <1>1, <2>1 DEF QueueRecords
<1>12. held2 \in HeldLists  BY <1>4, <1>6 DEF HeldLists
<1>13. serving2 \in Services
  <2>1. <<e>> \in Seq(Entries)  BY <1>10
  <2>2. QED  BY <1>4, <2>1 DEF Services
<1>14. T \in QueueRecords
  <2> HIDE DEF held2, serving2
  <2>1. QED  BY <1>1, <1>11, <1>12, <1>13 DEF QueueRecords
<1>15. /\ T.held = held2 /\ T.serving = serving2 /\ T.toDst = S.toDst /\ T.toPort = S.toPort
       /\ T.waiting = S.waiting /\ T.nic = S.nic /\ T.sent = S.sent /\ T.flight = S.flight
       /\ T.rtx = S.rtx /\ T.pipe = S.pipe
  BY <1>11
<1>16. PICK k : k = Id(p)  OBVIOUS
<1>17. /\ k \in Ids /\ loc[k].tag = "held" /\ loc[k].at = x /\ loc[k].item = p
       /\ loc[k].pkt = p /\ loc[k].in = x /\ loc[k].to = Nowhere
  <2>1. LET m == Id(S.held[x][1]) IN
        /\ m \in Ids /\ loc[m].tag = "held" /\ loc[m].at = x /\ loc[m].item = S.held[x][1]
        /\ loc[m].pkt = S.held[x][1] /\ loc[m].in = x /\ loc[m].to = Nowhere
    BY <1>3, <1>4, <1>6, HeldPacket
  <2>2. QED  BY <1>8, <1>16, <2>1
<1>18. PICK c : c = [tag |-> "serving", at |-> x, in |-> x, to |-> Nowhere, pkt |-> p, item |-> e]
  OBVIOUS
<1>19. c \in Place  BY <1>10, <1>18 DEF Place
<1>20. PlaceOK(k, c, z)
  <2>1. ~IsNic(x)  BY QueueFacts
  <2>2. QED  BY <1>9, <1>10, <1>16, <1>18, <2>1 DEF PlaceOK, Bound
<1>21. PICK loc2 : loc2 = [loc EXCEPT ![k] = c]  OBVIOUS
<1>22. Moved(loc, loc2, k, c, z)  BY <1>3, <1>17, <1>19, <1>20, <1>21 DEF Moved
<1>23. c.tag = "serving" /\ c.at = x /\ c.in = x /\ c.to = Nowhere /\ c.item = e /\ c.pkt = p
  BY <1>18
<1>24. HeldOK(T.held, loc2)
  <2>1. c.tag # "held" /\ loc[k].item = S.held[x][1]  BY <1>8, <1>17, <1>23
  <2>2. HeldOK([S.held EXCEPT ![x] = RemoveAt(S.held[x], 1)], loc2)
    BY ONLY <1>3, <1>4, <1>6, <1>17, <1>22, <2>1, HeldTakes, x \in Queues
  <2>3. QED  BY <1>15, <2>2
<1>25. ServingOK(T.serving, loc2)
  <2>1. loc[k].tag # "serving"  BY <1>17
  <2>2. ServingOK([S.serving EXCEPT ![x] = <<e>>], loc2)
    BY <1>3, <1>4, <1>22, <1>23, <2>1, ServingGets
  <2>3. QED  BY <1>15, <2>2
<1>26. PipeOK(T.pipe, loc2)  BY <1>3, <1>15, <1>17, <1>22, <1>23, PipeSame
<1>27. BackOK(T.rtx, loc2)  BY <1>3, <1>15, <1>17, <1>22, <1>23, BackSame
<1>28. SentOK(T.sent, loc2)  BY <1>3, <1>15, <1>17, <1>22, <1>23, SentSame
<1>29. GotOK(g, loc2)  BY <1>3, <1>17, <1>22, <1>23, GotSame
<1>30. Tallied(S, T, k, loc[k], c)
  <2>1. \A u \in Uplinks, n \in PortsOut :
          InFor(c, u, n) = InFor(loc[k], u, n) /\ ToFor(c, u, n) = ToFor(loc[k], u, n)
    BY <1>17, <1>23 DEF InFor, ToFor
  <2>2. Uplinks \subseteq Queues /\ ToRQueues \subseteq Queues  BY DEF Queues, ToRQueues
  <2>3. /\ \A u \in Queues, t \in ToR : S.toDst[u][t] \in Int
        /\ \A u \in Queues, n \in PortsOut : S.toPort[u][n] \in Int
        /\ \A f \in Flows : S.nic[f] \in Int /\ S.flight[f] \in Int
    BY <1>4
  <2>4. QED  BY <1>15, <1>17, <1>23, <2>1, <2>2, <2>3 DEF Tallied, One, Flights
<1>31. Sound(T)  BY <1>1, <1>14, <1>15 DEF Sound
<1>32. Good(T, g, z)
  BY <1>2, <1>22, <1>24, <1>25, <1>26, <1>27, <1>28, <1>29, <1>30, <1>31, MoveGood
<1>33. QED  BY <1>7, <1>32

-----------------------------------------------------------------------------
(* The fields after each change of the record *)

\* A packet is no longer counted.
LEMMA UncountFields ==
  ASSUME NEW S \in QueueRecords, NEW x \in Queues, NEW p \in HbHPackets, NEW n,
         IsDown(x) \/ n \in PortsOut
  PROVE  LET T == Uncount(S, x, p, n) IN
         /\ T \in QueueRecords
         /\ \A u \in Queues, t \in ToR :
              T.toDst[u][t] = S.toDst[u][t] - IF u = x /\ t = DstOf[p.flow] THEN 1 ELSE 0
         /\ \A u \in Queues, m \in PortsOut :
              T.toPort[u][m] = S.toPort[u][m] - IF u = x /\ ~IsDown(x) /\ m = n THEN 1 ELSE 0
         /\ T.held = S.held /\ T.serving = S.serving /\ T.waiting = S.waiting
         /\ T.nic = S.nic /\ T.sent = S.sent /\ T.flight = S.flight /\ T.rtx = S.rtx
         /\ T.pipe = S.pipe
<1>0. PICK T : T = Uncount(S, x, p, n)  OBVIOUS
<1> DEFINE d == DstOf[p.flow]
           toDst2 == [S.toDst EXCEPT ![x][d] = S.toDst[x][d] - 1]
           toPort2 == [S.toPort EXCEPT ![x] = IF IsDown(x) THEN S.toPort[x]
                                               ELSE [S.toPort[x] EXCEPT ![n] = S.toPort[x][n] - 1]]
<1>1. d \in ToR /\ -1 \in Int  BY PacketFacts
<1>2. S.toDst \in [Queues -> [ToR -> Int]] /\ S.toPort \in [Queues -> [PortsOut -> Int]]
  BY RecordFields
<1>3. /\ toDst2 \in [Queues -> [ToR -> Int]]
      /\ \A u \in Queues, t \in ToR :
           toDst2[u][t] = S.toDst[u][t] - IF u = x /\ t = d THEN 1 ELSE 0
  <2>1. PICK F : F = [S.toDst EXCEPT ![x][d] = S.toDst[x][d] + (-1)]  OBVIOUS
  <2>2. /\ F \in [Queues -> [ToR -> Int]]
        /\ \A u \in Queues, t \in ToR :
             F[u][t] = S.toDst[u][t] + IF u = x /\ t = d THEN -1 ELSE 0
    <3> HIDE DEF d
    <3>1. QED  BY <1>1, <1>2, <2>1, Counted
  <2>3. \A u \in Queues, t \in ToR : S.toDst[u][t] \in Int  BY <1>2
  <2>4. toDst2 = F  BY <1>1, <2>1, <2>3
  <2> HIDE DEF d, toDst2
  <2>5. QED  BY <2>2, <2>3, <2>4
<1>4. /\ toPort2 \in [Queues -> [PortsOut -> Int]]
      /\ \A u \in Queues, m \in PortsOut :
           toPort2[u][m] = S.toPort[u][m] - IF u = x /\ ~IsDown(x) /\ m = n THEN 1 ELSE 0
  <2>1. \A u \in Queues, m \in PortsOut : S.toPort[u][m] \in Int  BY <1>2
  <2>2. CASE IsDown(x)
    <3>1. toPort2 = S.toPort  BY <1>2, <2>2
    <3>2. QED  BY <1>2, <2>1, <2>2, <3>1
  <2>3. CASE ~IsDown(x)
    <3>1. n \in PortsOut  BY <2>3
    <3>2. PICK F : F = [S.toPort EXCEPT ![x][n] = S.toPort[x][n] + (-1)]  OBVIOUS
    <3>3. /\ F \in [Queues -> [PortsOut -> Int]]
          /\ \A u \in Queues, m \in PortsOut :
               F[u][m] = S.toPort[u][m] + IF u = x /\ m = n THEN -1 ELSE 0
          /\ [S.toPort EXCEPT ![x] = [S.toPort[x] EXCEPT ![n] = S.toPort[x][n] + (-1)]] = F
      BY <1>1, <1>2, <3>1, <3>2, Counted
    <3>4. toPort2 = F
      <4>1. S.toPort[x][n] - 1 = S.toPort[x][n] + (-1)  BY <2>1, <3>1
      <4>2. QED  BY <2>3, <3>3, <4>1
    <3> HIDE DEF toPort2
    <3>5. QED  BY <2>1, <2>3, <3>3, <3>4
  <2>4. QED  BY <2>2, <2>3
<1>5. T = [held |-> S.held, serving |-> S.serving, toDst |-> toDst2, toPort |-> toPort2,
           waiting |-> S.waiting, nic |-> S.nic, sent |-> S.sent, flight |-> S.flight,
           rtx |-> S.rtx, pipe |-> S.pipe]
  <2>1. T = [S EXCEPT !.toDst = toDst2, !.toPort = toPort2]  BY <1>0 DEF Uncount
  <2> HIDE DEF toDst2, toPort2
  <2>2. QED  BY <2>1 DEF QueueRecords
<1> HIDE DEF toDst2, toPort2
<1>6. T \in QueueRecords  BY <1>3, <1>4, <1>5 DEF QueueRecords
<1>7. QED  BY <1>0, <1>3, <1>4, <1>5, <1>6

\* The packet in service at x, on its link.
Put(S, x) ==
  [pkt |-> S.serving[x][1].pkt, to |-> S.serving[x][1].to, old |-> S.serving[x][1].old,
   from |-> x]

\* What putting the packet in service on the link changes: its queue is free, and
\* the link has one packet more.
LEMMA PutOnLinkFields ==
  ASSUME NEW S \in QueueRecords, NEW x \in Queues, S.serving[x] # <<>>
  PROVE  LET T == PutOnLink(S, x) IN
         /\ T \in QueueRecords /\ Put(S, x) \in OnLink
         /\ T.serving = [S.serving EXCEPT ![x] = <<>>] /\ T.pipe = Append(S.pipe, Put(S, x))
         /\ T.held = S.held /\ T.toDst = S.toDst /\ T.toPort = S.toPort
         /\ T.waiting = S.waiting /\ T.nic = S.nic /\ T.sent = S.sent
         /\ T.flight = S.flight /\ T.rtx = S.rtx
<1>0. PICK T : T = PutOnLink(S, x)  OBVIOUS
<1> DEFINE serving2 == [S.serving EXCEPT ![x] = <<>>]
           pipe2 == Append(S.pipe, Put(S, x))
<1>1. S.serving \in Services /\ S.pipe \in Seq(OnLink)  BY RecordFields
<1>2. S.serving[x][1] \in Entries
  <2>1. S.serving[x] \in Seq(Entries)  BY <1>1 DEF Services
  <2>2. 1 \in 1..Len(S.serving[x])  BY <2>1, TailIsRemoved
  <2>3. QED  BY <2>1, <2>2, ElementOfSeq
<1>3. Put(S, x) \in OnLink  BY <1>2 DEF Put, Entries, OnLink
<1>4. serving2 \in Services  BY <1>1 DEF Services
<1>5. pipe2 \in Seq(OnLink)
  <2>1. PICK e \in OnLink : e = Put(S, x)  BY <1>3
  <2>2. Append(S.pipe, e) \in Seq(OnLink)  BY <1>1, AppendProperties
  <2>3. QED  BY <2>1, <2>2
<1>6. T = [held |-> S.held, serving |-> serving2, toDst |-> S.toDst, toPort |-> S.toPort,
           waiting |-> S.waiting, nic |-> S.nic, sent |-> S.sent, flight |-> S.flight,
           rtx |-> S.rtx, pipe |-> pipe2]
  <2>1. T = [S EXCEPT !.serving = serving2, !.pipe = pipe2]  BY <1>0 DEF PutOnLink, Put
  <2> HIDE DEF serving2, pipe2
  <2>2. QED  BY <2>1 DEF QueueRecords
<1>7. T \in QueueRecords
  <2> HIDE DEF serving2, pipe2
  <2>1. QED  BY <1>4, <1>5, <1>6 DEF QueueRecords
<1>8. QED  BY <1>0, <1>3, <1>6, <1>7

\* A NIC has one packet less of f.
NicLess(S, f) == [S EXCEPT !.nic[f] = @ - 1]

\* It changes the NIC's count only, by one.
LEMMA NicLessFields ==
  ASSUME NEW S \in QueueRecords, NEW f \in Flows
  PROVE  LET T == NicLess(S, f) IN
         /\ T \in QueueRecords
         /\ \A h \in Flows : T.nic[h] = S.nic[h] - IF h = f THEN 1 ELSE 0
         /\ T.held = S.held /\ T.serving = S.serving /\ T.toDst = S.toDst
         /\ T.toPort = S.toPort /\ T.waiting = S.waiting /\ T.sent = S.sent
         /\ T.flight = S.flight /\ T.rtx = S.rtx /\ T.pipe = S.pipe
<1>0. PICK T : T = NicLess(S, f)  OBVIOUS
<1> DEFINE nic2 == [S.nic EXCEPT ![f] = S.nic[f] - 1]
<1>1. S.nic \in [Flows -> Int]  BY RecordFields
<1>2. nic2 \in [Flows -> Int] /\ \A h \in Flows : nic2[h] = S.nic[h] - IF h = f THEN 1 ELSE 0
  BY <1>1
<1>3. T = [held |-> S.held, serving |-> S.serving, toDst |-> S.toDst, toPort |-> S.toPort,
           waiting |-> S.waiting, nic |-> nic2, sent |-> S.sent, flight |-> S.flight,
           rtx |-> S.rtx, pipe |-> S.pipe]
  <2>1. T = [S EXCEPT !.nic = nic2]  BY <1>0 DEF NicLess
  <2> HIDE DEF nic2
  <2>2. QED  BY <2>1 DEF QueueRecords
<1> HIDE DEF nic2
<1>4. T \in QueueRecords  BY <1>2, <1>3 DEF QueueRecords
<1>5. QED  BY <1>0, <1>2, <1>3, <1>4

\* A packet leaves the links.
PipeLess(S, i) == [S EXCEPT !.pipe = RemoveAt(@, i)]

\* It changes the link only.
LEMMA PipeLessFields ==
  ASSUME NEW S \in QueueRecords, NEW i \in 1..Len(S.pipe)
  PROVE  LET T == PipeLess(S, i) IN
         /\ T \in QueueRecords /\ T.pipe = RemoveAt(S.pipe, i)
         /\ T.held = S.held /\ T.serving = S.serving /\ T.toDst = S.toDst
         /\ T.toPort = S.toPort /\ T.waiting = S.waiting /\ T.nic = S.nic /\ T.sent = S.sent
         /\ T.flight = S.flight /\ T.rtx = S.rtx
<1>0. PICK T : T = PipeLess(S, i)  OBVIOUS
<1>1. S.pipe \in Seq(OnLink)  BY RecordFields
<1>2. PICK q \in Seq(OnLink) : q = RemoveAt(S.pipe, i)  BY <1>1, RemoveAtFacts
<1>3. T = [held |-> S.held, serving |-> S.serving, toDst |-> S.toDst, toPort |-> S.toPort,
           waiting |-> S.waiting, nic |-> S.nic, sent |-> S.sent, flight |-> S.flight,
           rtx |-> S.rtx, pipe |-> q]
  <2>1. T = [S EXCEPT !.pipe = q]  BY <1>0, <1>2 DEF PipeLess
  <2>2. QED  BY <2>1 DEF QueueRecords
<1>4. T \in QueueRecords  BY <1>2, <1>3 DEF QueueRecords
<1>5. QED  BY <1>0, <1>2, <1>3, <1>4

\* A flow has one packet less in flight.
FlightLess(S, f) == [S EXCEPT !.flight[f] = @ - 1]

\* It changes the flow's count in flight only, by one.
LEMMA FlightLessFields ==
  ASSUME NEW S \in QueueRecords, NEW f \in Flows
  PROVE  LET T == FlightLess(S, f) IN
         /\ T \in QueueRecords
         /\ \A h \in Flows : T.flight[h] = S.flight[h] - IF h = f THEN 1 ELSE 0
         /\ T.held = S.held /\ T.serving = S.serving /\ T.toDst = S.toDst
         /\ T.toPort = S.toPort /\ T.waiting = S.waiting /\ T.nic = S.nic /\ T.sent = S.sent
         /\ T.rtx = S.rtx /\ T.pipe = S.pipe
<1>0. PICK T : T = FlightLess(S, f)  OBVIOUS
<1> DEFINE flight2 == [S.flight EXCEPT ![f] = S.flight[f] - 1]
<1>1. S.flight \in [Flows -> Int]  BY RecordFields
<1>2. /\ flight2 \in [Flows -> Int]
      /\ \A h \in Flows : flight2[h] = S.flight[h] - IF h = f THEN 1 ELSE 0
  BY <1>1
<1>3. T = [held |-> S.held, serving |-> S.serving, toDst |-> S.toDst, toPort |-> S.toPort,
           waiting |-> S.waiting, nic |-> S.nic, sent |-> S.sent, flight |-> flight2,
           rtx |-> S.rtx, pipe |-> S.pipe]
  <2>1. T = [S EXCEPT !.flight = flight2]  BY <1>0 DEF FlightLess
  <2> HIDE DEF flight2
  <2>2. QED  BY <2>1 DEF QueueRecords
<1> HIDE DEF flight2
<1>4. T \in QueueRecords  BY <1>2, <1>3 DEF QueueRecords
<1>5. QED  BY <1>0, <1>2, <1>3, <1>4

\* A flow has one packet more to send again.
BackMore(S, p) == [S EXCEPT !.rtx[p.flow] = Append(@, p)]

\* It changes the flow's list of lost packets only.
LEMMA BackMoreFields ==
  ASSUME NEW S \in QueueRecords, NEW p \in HbHPackets
  PROVE  LET T == BackMore(S, p) IN
         /\ T \in QueueRecords
         /\ T.rtx = [S.rtx EXCEPT ![p.flow] = Append(S.rtx[p.flow], p)]
         /\ T.held = S.held /\ T.serving = S.serving /\ T.toDst = S.toDst
         /\ T.toPort = S.toPort /\ T.waiting = S.waiting /\ T.nic = S.nic /\ T.sent = S.sent
         /\ T.flight = S.flight /\ T.pipe = S.pipe
<1>0. PICK T : T = BackMore(S, p)  OBVIOUS
<1> DEFINE rtx2 == [S.rtx EXCEPT ![p.flow] = Append(S.rtx[p.flow], p)]
<1>1. rtx2 \in BackLists
  <2>1. S.rtx \in [Flows -> Seq(HbHPackets)] /\ p.flow \in Flows
    BY RecordFields, PacketFacts DEF BackLists
  <2>2. S.rtx[p.flow] \in Seq(HbHPackets)  BY <2>1
  <2>3. Append(S.rtx[p.flow], p) \in Seq(HbHPackets)  BY <2>2, AppendProperties
  <2>4. QED  BY <2>1, <2>3 DEF BackLists
<1>2. T = [held |-> S.held, serving |-> S.serving, toDst |-> S.toDst, toPort |-> S.toPort,
           waiting |-> S.waiting, nic |-> S.nic, sent |-> S.sent, flight |-> S.flight,
           rtx |-> rtx2, pipe |-> S.pipe]
  <2>1. T = [S EXCEPT !.rtx = rtx2]  BY <1>0 DEF BackMore
  <2> HIDE DEF rtx2
  <2>2. QED  BY <2>1 DEF QueueRecords
<1> HIDE DEF rtx2
<1>3. T \in QueueRecords  BY <1>1, <1>2 DEF QueueRecords
<1>4. QED  BY <1>0, <1>2, <1>3 DEF rtx2

\* A queue has one packet more.
HeldMore(S, x, p) == [S EXCEPT !.held[x] = Append(@, p)]

\* It changes the queue's list only.
LEMMA HeldMoreFields ==
  ASSUME NEW S \in QueueRecords, NEW x \in Queues, NEW p \in HbHPackets
  PROVE  LET T == HeldMore(S, x, p) IN
         /\ T \in QueueRecords
         /\ T.held = [S.held EXCEPT ![x] = Append(S.held[x], p)] /\ T.held[x] # <<>>
         /\ T.serving = S.serving /\ T.toDst = S.toDst
         /\ T.toPort = S.toPort /\ T.waiting = S.waiting /\ T.nic = S.nic /\ T.sent = S.sent
         /\ T.flight = S.flight /\ T.rtx = S.rtx /\ T.pipe = S.pipe
<1>0. PICK T : T = HeldMore(S, x, p)  OBVIOUS
<1> DEFINE held2 == [S.held EXCEPT ![x] = Append(S.held[x], p)]
<1>1. held2 \in HeldLists /\ held2[x] # <<>>
  <2>1. S.held \in [Queues -> Seq(HbHPackets)]  BY RecordFields DEF HeldLists
  <2>2. S.held[x] \in Seq(HbHPackets)  BY <2>1
  <2>3. Append(S.held[x], p) \in Seq(HbHPackets) /\ Append(S.held[x], p) # <<>>
    BY <2>2, AppendProperties
  <2>4. QED  BY <2>1, <2>3 DEF HeldLists
<1>2. T = [held |-> held2, serving |-> S.serving, toDst |-> S.toDst, toPort |-> S.toPort,
           waiting |-> S.waiting, nic |-> S.nic, sent |-> S.sent, flight |-> S.flight,
           rtx |-> S.rtx, pipe |-> S.pipe]
  <2>1. T = [S EXCEPT !.held = held2]  BY <1>0 DEF HeldMore
  <2> HIDE DEF held2
  <2>2. QED  BY <2>1 DEF QueueRecords
<1> HIDE DEF held2
<1>3. T \in QueueRecords  BY <1>1, <1>2 DEF QueueRecords
<1>4. QED  BY <1>0, <1>1, <1>2, <1>3 DEF held2

\* A flow has one packet more at its NIC and in flight.
NicMore(S, f) == [S EXCEPT !.nic[f] = @ + 1, !.flight[f] = @ + 1]

\* It changes the two counts of the flow only.
LEMMA NicMoreFields ==
  ASSUME NEW S \in QueueRecords, NEW f \in Flows
  PROVE  LET T == NicMore(S, f) IN
         /\ T \in QueueRecords
         /\ \A h \in Flows : /\ T.nic[h] = S.nic[h] + IF h = f THEN 1 ELSE 0
                             /\ T.flight[h] = S.flight[h] + IF h = f THEN 1 ELSE 0
         /\ T.held = S.held /\ T.serving = S.serving /\ T.toDst = S.toDst
         /\ T.toPort = S.toPort /\ T.waiting = S.waiting /\ T.sent = S.sent
         /\ T.rtx = S.rtx /\ T.pipe = S.pipe
<1>0. PICK T : T = NicMore(S, f)  OBVIOUS
<1> DEFINE nic2 == [S.nic EXCEPT ![f] = S.nic[f] + 1]
           flight2 == [S.flight EXCEPT ![f] = S.flight[f] + 1]
<1>1. S.nic \in [Flows -> Int] /\ S.flight \in [Flows -> Int]  BY RecordFields
<1>2. /\ nic2 \in [Flows -> Int] /\ flight2 \in [Flows -> Int]
      /\ \A h \in Flows : /\ nic2[h] = S.nic[h] + IF h = f THEN 1 ELSE 0
                          /\ flight2[h] = S.flight[h] + IF h = f THEN 1 ELSE 0
  BY <1>1
<1>3. T = [held |-> S.held, serving |-> S.serving, toDst |-> S.toDst, toPort |-> S.toPort,
           waiting |-> S.waiting, nic |-> nic2, sent |-> S.sent, flight |-> flight2,
           rtx |-> S.rtx, pipe |-> S.pipe]
  <2>1. T = [S EXCEPT !.nic = nic2, !.flight = flight2]  BY <1>0 DEF NicMore
  <2> HIDE DEF nic2, flight2
  <2>2. QED  BY <2>1 DEF QueueRecords
<1> HIDE DEF nic2, flight2
<1>4. T \in QueueRecords  BY <1>2, <1>3 DEF QueueRecords
<1>5. QED  BY <1>0, <1>2, <1>3, <1>4

\* A flow has sent one packet more.
SentMore(S, f) == [S EXCEPT !.sent[f] = @ + 1]

\* It changes the number of the last packet sent only.
LEMMA SentMoreFields ==
  ASSUME NEW S \in QueueRecords, NEW f \in Flows
  PROVE  LET T == SentMore(S, f) IN
         /\ T \in QueueRecords /\ T.sent = [S.sent EXCEPT ![f] = S.sent[f] + 1]
         /\ T.held = S.held /\ T.serving = S.serving /\ T.toDst = S.toDst
         /\ T.toPort = S.toPort /\ T.waiting = S.waiting /\ T.nic = S.nic
         /\ T.flight = S.flight /\ T.rtx = S.rtx /\ T.pipe = S.pipe
<1>0. PICK T : T = SentMore(S, f)  OBVIOUS
<1>1. PICK sent2 : sent2 = [S.sent EXCEPT ![f] = S.sent[f] + 1]  OBVIOUS
<1>2. S.sent \in [Flows -> Nat]  BY RecordFields
<1>3. sent2 \in [Flows -> Nat]  BY <1>1, <1>2
<1>4. T = [held |-> S.held, serving |-> S.serving, toDst |-> S.toDst, toPort |-> S.toPort,
           waiting |-> S.waiting, nic |-> S.nic, sent |-> sent2, flight |-> S.flight,
           rtx |-> S.rtx, pipe |-> S.pipe]
  <2>1. T = [S EXCEPT !.sent = sent2]  BY <1>0, <1>1 DEF SentMore
  <2>2. QED  BY <2>1 DEF QueueRecords
<1>5. T \in QueueRecords  BY <1>3, <1>4 DEF QueueRecords
<1>6. QED  BY <1>0, <1>1, <1>4, <1>5

\* The first packet to be sent again leaves its source.
BackLess(S, f) == [S EXCEPT !.rtx[f] = Tail(@)]

\* It changes the flow's list of lost packets only.
LEMMA BackLessFields ==
  ASSUME NEW S \in QueueRecords, NEW f \in Flows, S.rtx[f] # <<>>
  PROVE  LET T == BackLess(S, f) IN
         /\ T \in QueueRecords /\ T.rtx = [S.rtx EXCEPT ![f] = Tail(S.rtx[f])]
         /\ Head(S.rtx[f]) \in HbHPackets
         /\ T.held = S.held /\ T.serving = S.serving /\ T.toDst = S.toDst
         /\ T.toPort = S.toPort /\ T.waiting = S.waiting /\ T.nic = S.nic /\ T.sent = S.sent
         /\ T.flight = S.flight /\ T.pipe = S.pipe
<1>0. PICK T : T = BackLess(S, f)  OBVIOUS
<1>1. PICK rtx2 : rtx2 = [S.rtx EXCEPT ![f] = Tail(S.rtx[f])]  OBVIOUS
<1>2. rtx2 \in BackLists /\ Head(S.rtx[f]) \in HbHPackets
  <2>1. S.rtx \in [Flows -> Seq(HbHPackets)]  BY RecordFields DEF BackLists
  <2>2. S.rtx[f] \in Seq(HbHPackets)  BY <2>1
  <2>3. /\ Tail(S.rtx[f]) \in Seq(HbHPackets) /\ Head(S.rtx[f]) \in HbHPackets
    BY <2>2, EmptySeq, HeadTailProperties
  <2>4. QED  BY <1>1, <2>1, <2>3 DEF BackLists
<1>3. T = [held |-> S.held, serving |-> S.serving, toDst |-> S.toDst, toPort |-> S.toPort,
           waiting |-> S.waiting, nic |-> S.nic, sent |-> S.sent, flight |-> S.flight,
           rtx |-> rtx2, pipe |-> S.pipe]
  <2>1. T = [S EXCEPT !.rtx = rtx2]  BY <1>0, <1>1 DEF BackLess
  <2>2. QED  BY <2>1 DEF QueueRecords
<1>4. T \in QueueRecords  BY <1>2, <1>3 DEF QueueRecords
<1>5. QED  BY <1>0, <1>1, <1>2, <1>3, <1>4

\* The packet in service leaves a queue.
ServingLess(S, x) == [S EXCEPT !.serving[x] = <<>>]

\* It changes what is in service at the queue only.
LEMMA ServingLessFields ==
  ASSUME NEW S \in QueueRecords, NEW x \in Queues
  PROVE  LET T == ServingLess(S, x) IN
         /\ T \in QueueRecords /\ T.serving = [S.serving EXCEPT ![x] = <<>>]
         /\ T.held = S.held /\ T.toDst = S.toDst /\ T.toPort = S.toPort
         /\ T.waiting = S.waiting /\ T.nic = S.nic /\ T.sent = S.sent
         /\ T.flight = S.flight /\ T.rtx = S.rtx /\ T.pipe = S.pipe
<1>0. PICK T : T = ServingLess(S, x)  OBVIOUS
<1>1. PICK serving2 : serving2 = [S.serving EXCEPT ![x] = <<>>]  OBVIOUS
<1>2. serving2 \in Services
  <2>1. S.serving \in [Queues -> Seq(Entries)]  BY RecordFields DEF Services
  <2>2. <<>> \in Seq(Entries)  BY EmptySeq
  <2>3. QED  BY <1>1, <2>1, <2>2 DEF Services
<1>3. T = [held |-> S.held, serving |-> serving2, toDst |-> S.toDst, toPort |-> S.toPort,
           waiting |-> S.waiting, nic |-> S.nic, sent |-> S.sent, flight |-> S.flight,
           rtx |-> S.rtx, pipe |-> S.pipe]
  <2>1. T = [S EXCEPT !.serving = serving2]  BY <1>0, <1>1 DEF ServingLess
  <2>2. QED  BY <2>1 DEF QueueRecords
<1>4. T \in QueueRecords  BY <1>2, <1>3 DEF QueueRecords
<1>5. QED  BY <1>0, <1>1, <1>3, <1>4

-----------------------------------------------------------------------------
(* The packet in service goes on its link *)

\* T is S after the packet p in service at x, for which the counters of x or the
\* NIC stood, went on its link as e.
OnItsWay(S, T, x, p, e) ==
  /\ T \in QueueRecords /\ T.held = S.held /\ T.serving = [S.serving EXCEPT ![x] = <<>>]
  /\ T.pipe = Append(S.pipe, e) /\ e \in OnLink
  /\ T.rtx = S.rtx /\ T.sent = S.sent /\ T.waiting = S.waiting /\ T.flight = S.flight
  /\ \A u \in Queues, t \in ToR :
       T.toDst[u][t] = S.toDst[u][t]
                       - IF u = x /\ ~IsNic(x) /\ t = DstOf[p.flow] THEN 1 ELSE 0
  /\ \A u \in Queues, n \in PortsOut :
       T.toPort[u][n] = S.toPort[u][n]
                        - IF u = x /\ x \in Uplinks /\ n = PortAt(p, p.hop + 1) THEN 1 ELSE 0
  /\ \A f \in Flows : T.nic[f] = S.nic[f] - IF IsNic(x) /\ f = p.flow THEN 1 ELSE 0
  /\ IsDown(x) => x = Down(DstOf[p.flow])

\* A queue whose service is done, and whose packet is counted out of it, puts the
\* packet on the link: every packet is still in one place, and counted there.
LEMMA OnItsWayGood ==
  ASSUME NEW S, NEW T, NEW g, NEW z, Good(S, g, z), NEW x \in Queues, S.serving[x] # <<>>,
         NEW p, p = S.serving[x][1].pkt, NEW e, e = Put(S, x), OnItsWay(S, T, x, p, e)
  PROVE  Good(T, g, z)
<1>1. S \in QueueRecords /\ Sound(S)  BY DEF Good, Sound
<1>2. PICK loc : Ledger(S, loc, g, z)  BY DEF Good
<1>3. /\ Placement(loc, z) /\ HeldOK(S.held, loc) /\ ServingOK(S.serving, loc)
      /\ PipeOK(S.pipe, loc) /\ BackOK(S.rtx, loc) /\ SentOK(S.sent, loc) /\ GotOK(g, loc)
  BY <1>2 DEF Ledger
<1>4. /\ S.serving \in Services /\ S.pipe \in Seq(OnLink)
      /\ S.toDst \in [Queues -> [ToR -> Int]] /\ S.toPort \in [Queues -> [PortsOut -> Int]]
      /\ S.nic \in [Flows -> Int] /\ S.flight \in [Flows -> Int]
  BY <1>1, RecordFields
<1>5. p = S.serving[x][1].pkt  OBVIOUS
<1>6. e = Put(S, x)  OBVIOUS
<1>7. /\ T \in QueueRecords /\ T.held = S.held /\ T.serving = [S.serving EXCEPT ![x] = <<>>]
      /\ T.pipe = Append(S.pipe, e) /\ e \in OnLink
      /\ T.rtx = S.rtx /\ T.sent = S.sent /\ T.waiting = S.waiting /\ T.flight = S.flight
      /\ \A u \in Queues, t \in ToR :
           T.toDst[u][t] = S.toDst[u][t]
                           - IF u = x /\ ~IsNic(x) /\ t = DstOf[p.flow] THEN 1 ELSE 0
      /\ \A u \in Queues, n \in PortsOut :
           T.toPort[u][n] = S.toPort[u][n]
                            - IF u = x /\ x \in Uplinks /\ n = PortAt(p, p.hop + 1) THEN 1 ELSE 0
      /\ \A f \in Flows : T.nic[f] = S.nic[f] - IF IsNic(x) /\ f = p.flow THEN 1 ELSE 0
      /\ IsDown(x) => x = Down(DstOf[p.flow])
  BY DEF OnItsWay
<1>8. PICK k : k = Id(p)  OBVIOUS
<1>9. /\ k \in Ids /\ loc[k].tag = "serving" /\ loc[k].at = x
      /\ loc[k].item = S.serving[x][1] /\ S.serving[x][1] \in Entries
      /\ loc[k].pkt = p /\ loc[k].in = x
      /\ loc[k] \in Place /\ Bound(loc[k], z)
      /\ IsNic(x) => x = Nic(SrcOf[k[1]])
  <2>1. LET m == Id(S.serving[x][1].pkt) IN
        /\ m \in Ids /\ loc[m].tag = "serving" /\ loc[m].at = x
        /\ loc[m].item = S.serving[x][1] /\ S.serving[x][1] \in Entries
        /\ loc[m].pkt = S.serving[x][1].pkt /\ loc[m].in = x
        /\ loc[m] \in Place /\ Bound(loc[m], z)
        /\ IsNic(x) => x = Nic(SrcOf[m[1]])
    BY <1>3, <1>4, ServingPacket
  <2>2. QED  BY <1>5, <1>8, <2>1
<1>10. p \in HbHPackets /\ k[1] = p.flow /\ DstOf[p.flow] \in ToR /\ p.flow \in Flows
  <2>1. p \in HbHPackets  BY <1>5, <1>9 DEF Entries
  <2>2. QED  BY <1>8, <2>1, PacketFacts
<1>11. PICK c : c = [tag |-> "pipe", at |-> x, in |-> Nowhere, to |-> loc[k].to, pkt |-> p,
                     item |-> e]
  OBVIOUS
<1>12. /\ c.tag = "pipe" /\ c.at = x /\ c.in = Nowhere /\ c.to = loc[k].to /\ c.item = e
       /\ c.pkt = p
  BY <1>11
<1>13. c \in Place
  <2>1. loc[k].to \in Queues \cup {Nowhere}  BY <1>9 DEF Place
  <2>2. QED  BY <1>7, <1>10, <1>11, <2>1 DEF Place
<1>14. PlaceOK(k, c, z)
  <2>1. /\ e.pkt = p /\ e.to = S.serving[x][1].to /\ e.old = S.serving[x][1].old
        /\ e.from = x
    BY <1>5, <1>6 DEF Put
  <2>2. Bound(c, z)  BY <1>9, <1>12, <2>1 DEF Bound
  <2>3. ToItsRack(k, c)  BY <1>7, <1>10, <1>12 DEF ToItsRack
  <2>4. QED  BY <1>7, <1>8, <1>12, <2>1, <2>2, <2>3 DEF PlaceOK
<1>15. PICK loc2 : loc2 = [loc EXCEPT ![k] = c]  OBVIOUS
<1>16. Moved(loc, loc2, k, c, z)  BY <1>3, <1>9, <1>13, <1>14, <1>15 DEF Moved
<1>17. HeldOK(T.held, loc2)  BY <1>3, <1>7, <1>9, <1>12, <1>16, HeldSame
<1>18. ServingOK(T.serving, loc2)
  <2>1. c.tag # "serving"  BY <1>12
  <2>2. ServingOK([S.serving EXCEPT ![x] = <<>>], loc2)
    BY ONLY <1>3, <1>4, <1>9, <1>16, <2>1, ServingTakes, x \in Queues
  <2>3. QED  BY <1>7, <2>2
<1>19. PipeOK(T.pipe, loc2)
  <2>1. loc[k].tag # "pipe"  BY <1>9
  <2>2. PipeOK(Append(S.pipe, e), loc2)
    BY ONLY <1>3, <1>4, <1>7, <1>12, <1>16, <2>1, PipeGets
  <2>3. QED  BY <1>7, <2>2
<1>20. BackOK(T.rtx, loc2)  BY <1>3, <1>7, <1>9, <1>12, <1>16, BackSame
<1>21. SentOK(T.sent, loc2)  BY <1>3, <1>7, <1>9, <1>12, <1>16, SentSame
<1>22. GotOK(g, loc2)  BY <1>3, <1>9, <1>12, <1>16, GotSame
<1>23. Tallied(S, T, k, loc[k], c)
  <2>1. ASSUME NEW u \in ToRQueues, NEW t \in ToR
        PROVE  T.toDst[u][t] = S.toDst[u][t] +
                 IF DstOf[k[1]] = t THEN One(c.in = u) + One(c.to = u)
                                         - One(loc[k].in = u) - One(loc[k].to = u)
                 ELSE 0
    <3>1. u \in Queues /\ u # Nowhere /\ (u = x => ~IsNic(x)) /\ S.toDst[u][t] \in Int
      BY <1>4, NowhereIsNoQueue DEF ToRQueues
    <3>2. T.toDst[u][t] = S.toDst[u][t]
                          - IF u = x /\ ~IsNic(x) /\ t = DstOf[p.flow] THEN 1 ELSE 0
      BY <1>7, <3>1
    <3>3. QED  BY SMTT(30), <1>9, <1>10, <1>12, <3>1, <3>2 DEF One
  <2>2. ASSUME NEW u \in Uplinks, NEW n \in PortsOut
        PROVE  T.toPort[u][n] = S.toPort[u][n] + One(InFor(c, u, n)) + One(ToFor(c, u, n))
                                - One(InFor(loc[k], u, n)) - One(ToFor(loc[k], u, n))
    <3>1. u \in Queues /\ u # Nowhere /\ S.toPort[u][n] \in Int
      <4>1. u \in Queues  BY DEF Queues
      <4>2. QED  BY <1>4, <4>1, NowhereIsNoQueue
    <3>2. ~InFor(c, u, n) /\ ToFor(c, u, n) = ToFor(loc[k], u, n)
      BY <1>9, <1>12, <3>1 DEF InFor, ToFor
    <3>3. InFor(loc[k], u, n) <=> u = x /\ n = PortAt(p, p.hop + 1)
      BY <1>9 DEF InFor
    <3>4. T.toPort[u][n] = S.toPort[u][n]
                           - IF u = x /\ x \in Uplinks /\ n = PortAt(p, p.hop + 1) THEN 1 ELSE 0
      BY <1>7, <3>1
    <3>5. QED  BY <3>1, <3>2, <3>3, <3>4 DEF One
  <2>3. ASSUME NEW f \in Flows
        PROVE  T.nic[f] = S.nic[f] + IF k[1] = f THEN One(c.in = Nic(SrcOf[f]))
                                                      - One(loc[k].in = Nic(SrcOf[f]))
                                     ELSE 0
    <3>1. S.nic[f] \in Int /\ SrcOf[f] \in ToR  BY <1>4, HbHAssumption
    <3>2. Nic(SrcOf[f]) \in Queues /\ IsNic(Nic(SrcOf[f]))  BY <3>1, NicIsQueue
    <3>3. c.in # Nic(SrcOf[f])  BY <1>12, <3>2, NowhereIsNoQueue
    <3>4. k[1] = f => (loc[k].in = Nic(SrcOf[f]) <=> IsNic(x))  BY <1>9, <3>2
    <3>5. T.nic[f] = S.nic[f] - IF IsNic(x) /\ f = p.flow THEN 1 ELSE 0  BY <1>7
    <3>6. QED  BY <1>10, <3>1, <3>3, <3>4, <3>5 DEF One
  <2>4. ASSUME NEW f \in Flows
        PROVE  T.flight[f] = S.flight[f] + IF k[1] = f THEN One(c.tag \in Flights)
                                                            - One(loc[k].tag \in Flights)
                                           ELSE 0
    <3>1. S.flight[f] \in Int  BY <1>4
    <3>2. QED  BY SMTT(30), <1>7, <1>9, <1>12, <3>1 DEF One, Flights
  <2>5. QED  BY <2>1, <2>2, <2>3, <2>4 DEF Tallied
<1>24. Sound(T)
  <2>1. ASSUME NEW u \in Queues, NEW t \in ToR
        PROVE  T.toDst[u][t] <= S.toDst[u][t] /\ (IsNic(u) => T.toDst[u][t] = S.toDst[u][t])
    <3>1. S.toDst[u][t] \in Int  BY <1>4
    <3>2. QED  BY SMTT(30), <1>7, <3>1
  <2>2. ASSUME NEW u \in Queues, NEW n \in PortsOut
        PROVE  /\ T.toPort[u][n] <= S.toPort[u][n]
               /\ u \notin Uplinks => T.toPort[u][n] = S.toPort[u][n]
    <3>1. S.toPort[u][n] \in Int  BY <1>4
    <3>2. QED  BY SMTT(30), <1>7, <3>1
  <2>3. Windows(T.nic, T.sent, T.flight)
    <3>1. ASSUME NEW f \in Flows  PROVE T.nic[f] <= MaxNicPackets
      <4>1. S.nic[f] \in Int /\ MaxNicPackets \in Nat  BY <1>4, HbHAssumption
      <4>2. S.nic[f] <= MaxNicPackets  BY <1>1 DEF Sound, Windows
      <4>3. T.nic[f] = S.nic[f] - IF IsNic(x) /\ f = p.flow THEN 1 ELSE 0  BY <1>7
      <4>4. QED  BY <4>1, <4>2, <4>3
    <3>2. QED  BY <1>1, <1>7, <3>1 DEF Sound, Windows
  <2>4. QED  BY <1>1, <1>7, <2>1, <2>2, <2>3, SoundBelow
<1>25. QED
  BY <1>2, <1>16, <1>17, <1>18, <1>19, <1>20, <1>21, <1>22, <1>23, <1>24, MoveGood

\* The packet in service at a queue is one.
LEMMA ServingType ==
  ASSUME NEW S \in QueueRecords, NEW x \in Queues, S.serving[x] # <<>>
  PROVE  S.serving[x][1] \in Entries /\ S.serving[x][1].pkt \in HbHPackets
<1>1. S.serving[x] \in Seq(Entries)  BY RecordFields DEF Services
<1>2. 1 \in 1..Len(S.serving[x])  BY <1>1, TailIsRemoved
<1>3. S.serving[x][1] \in Entries  BY <1>1, <1>2, ElementOfSeq
<1>4. QED  BY <1>3 DEF Entries

\* The service of a ToR queue is over, and its packet goes on.
LEMMA ServiceDone ==
  ASSUME NEW S, NEW g, NEW z, Good(S, g, z), NEW x \in Queues, ~IsNic(x), S.serving[x] # <<>>,
         ~WrongRack(x, S.serving[x][1].pkt), slice \in Slices
  PROVE  LET p == S.serving[x][1].pkt
             T == PutOnLink(Uncount(S, x, p, IF IsDown(x) THEN "none" ELSE NextPort(p, x)), x)
         IN Good(T, g, z) /\ T.serving[x] = <<>> /\ T.held[x] = S.held[x]
<1>1. S \in QueueRecords  BY DEF Good, Sound
<1>2. PICK p : p = S.serving[x][1].pkt  OBVIOUS
<1>3. PICK n : n = IF IsDown(x) THEN "none" ELSE NextPort(p, x)  OBVIOUS
<1>4. PICK U : U = Uncount(S, x, p, n)  OBVIOUS
<1>5. PICK T : T = PutOnLink(U, x)  OBVIOUS
<1>6. p \in HbHPackets  BY <1>1, <1>2, ServingType
<1>7. ~IsDown(x) => n = PortAt(p, p.hop + 1) /\ n \in PortsOut
  <2>1. NextPort(p, x) = PortAt(p, p.hop + 1)  BY DEF NextPort, Placed
  <2>2. QED  BY <1>3, <1>6, <2>1, PacketFacts
<1>8. x \in Uplinks <=> ~IsDown(x)  BY QueueFacts
<1>9. /\ U \in QueueRecords
      /\ \A u \in Queues, t \in ToR :
           U.toDst[u][t] = S.toDst[u][t] - IF u = x /\ t = DstOf[p.flow] THEN 1 ELSE 0
      /\ \A u \in Queues, m \in PortsOut :
           U.toPort[u][m] = S.toPort[u][m] - IF u = x /\ ~IsDown(x) /\ m = n THEN 1 ELSE 0
      /\ U.held = S.held /\ U.serving = S.serving /\ U.waiting = S.waiting
      /\ U.nic = S.nic /\ U.sent = S.sent /\ U.flight = S.flight /\ U.rtx = S.rtx
      /\ U.pipe = S.pipe
  BY <1>1, <1>4, <1>6, <1>7, UncountFields
<1>10. U.serving[x] # <<>>  BY <1>9
<1>11. /\ T \in QueueRecords /\ Put(U, x) \in OnLink
       /\ T.serving = [U.serving EXCEPT ![x] = <<>>] /\ T.pipe = Append(U.pipe, Put(U, x))
       /\ T.held = U.held /\ T.toDst = U.toDst /\ T.toPort = U.toPort
       /\ T.waiting = U.waiting /\ T.nic = U.nic /\ T.sent = U.sent
       /\ T.flight = U.flight /\ T.rtx = U.rtx
  BY <1>5, <1>9, <1>10, PutOnLinkFields
<1>12. Put(U, x) = Put(S, x)  BY <1>9 DEF Put
<1>13. \A u \in Queues, m \in PortsOut :
         T.toPort[u][m] = S.toPort[u][m]
                          - IF u = x /\ x \in Uplinks /\ m = PortAt(p, p.hop + 1) THEN 1 ELSE 0
  BY <1>7, <1>8, <1>9, <1>11
<1>14. \A u \in Queues, t \in ToR :
         T.toDst[u][t] = S.toDst[u][t]
                         - IF u = x /\ ~IsNic(x) /\ t = DstOf[p.flow] THEN 1 ELSE 0
  BY <1>9, <1>11
<1>15. \A f \in Flows : T.nic[f] = S.nic[f] - IF IsNic(x) /\ f = p.flow THEN 1 ELSE 0
  <2>1. S.nic \in [Flows -> Int]  BY <1>1, RecordFields
  <2>2. QED  BY <1>9, <1>11, <2>1
<1>16. OnItsWay(S, T, x, p, Put(S, x))
  <2>1. IsDown(x) => x = Down(DstOf[p.flow])
    <3>1. IsDown(x) => x = Down(x[1])  BY QueueFacts
    <3>2. QED  BY <1>2, <3>1 DEF WrongRack
  <2>2. T.held = S.held /\ T.serving = [S.serving EXCEPT ![x] = <<>>]  BY <1>9, <1>11
  <2>3. T.pipe = Append(S.pipe, Put(S, x)) /\ Put(S, x) \in OnLink  BY <1>9, <1>11, <1>12
  <2>4. T.rtx = S.rtx /\ T.sent = S.sent /\ T.waiting = S.waiting /\ T.flight = S.flight
    BY <1>9, <1>11
  <2>5. QED  BY <1>11, <1>13, <1>14, <1>15, <2>1, <2>2, <2>3, <2>4 DEF OnItsWay
<1>17. Good(T, g, z)  BY <1>2, <1>16, OnItsWayGood
<1>18. T.serving[x] = <<>> /\ T.held[x] = S.held[x]
  <2>1. S.serving \in [Queues -> Seq(Entries)]  BY <1>1, RecordFields DEF Services
  <2>2. QED  BY <1>9, <1>11, <2>1
<1>19. QED  BY <1>2, <1>3, <1>4, <1>5, <1>17, <1>18

\* The service of a NIC is over.
LEMMA NicServiceDone ==
  ASSUME NEW S, NEW g, NEW z, Good(S, g, z), NEW x \in Queues, IsNic(x), S.serving[x] # <<>>
  PROVE  LET p == S.serving[x][1].pkt
         IN Good(PutOnLink([S EXCEPT !.nic[p.flow] = @ - 1], x), g, z) /\ p.flow \in Flows
<1>1. S \in QueueRecords  BY DEF Good, Sound
<1>2. PICK p : p = S.serving[x][1].pkt  OBVIOUS
<1>3. PICK U : U = NicLess(S, p.flow)  OBVIOUS
<1>4. PICK T : T = PutOnLink(U, x)  OBVIOUS
<1>5. p \in HbHPackets /\ p.flow \in Flows  BY <1>1, <1>2, ServingType, PacketFacts
<1>6. x \notin Uplinks  BY QueueFacts
<1>7. /\ U \in QueueRecords
      /\ \A h \in Flows : U.nic[h] = S.nic[h] - IF h = p.flow THEN 1 ELSE 0
      /\ U.held = S.held /\ U.serving = S.serving /\ U.toDst = S.toDst
      /\ U.toPort = S.toPort /\ U.waiting = S.waiting /\ U.sent = S.sent
      /\ U.flight = S.flight /\ U.rtx = S.rtx /\ U.pipe = S.pipe
  BY <1>1, <1>3, <1>5, NicLessFields
<1>8. U.serving[x] # <<>>  BY <1>7
<1>9. /\ T \in QueueRecords /\ Put(U, x) \in OnLink
      /\ T.serving = [U.serving EXCEPT ![x] = <<>>] /\ T.pipe = Append(U.pipe, Put(U, x))
      /\ T.held = U.held /\ T.toDst = U.toDst /\ T.toPort = U.toPort
      /\ T.waiting = U.waiting /\ T.nic = U.nic /\ T.sent = U.sent
      /\ T.flight = U.flight /\ T.rtx = U.rtx
  BY <1>4, <1>7, <1>8, PutOnLinkFields
<1>10. Put(U, x) = Put(S, x)  BY <1>7 DEF Put
<1>11. /\ S.toDst \in [Queues -> [ToR -> Int]] /\ S.toPort \in [Queues -> [PortsOut -> Int]]
  BY <1>1, RecordFields
<1>12. \A u \in Queues, m \in PortsOut :
         T.toPort[u][m] = S.toPort[u][m]
                          - IF u = x /\ x \in Uplinks /\ m = PortAt(p, p.hop + 1) THEN 1 ELSE 0
  BY <1>6, <1>7, <1>9, <1>11
<1>13. \A u \in Queues, t \in ToR :
         T.toDst[u][t] = S.toDst[u][t]
                         - IF u = x /\ ~IsNic(x) /\ t = DstOf[p.flow] THEN 1 ELSE 0
  BY <1>7, <1>9, <1>11
<1>14. \A f \in Flows : T.nic[f] = S.nic[f] - IF IsNic(x) /\ f = p.flow THEN 1 ELSE 0
  BY <1>7, <1>9
<1>15. OnItsWay(S, T, x, p, Put(S, x))
  <2>1. ~IsDown(x)  BY QueueFacts
  <2>2. T.held = S.held /\ T.serving = [S.serving EXCEPT ![x] = <<>>]  BY <1>7, <1>9
  <2>3. T.pipe = Append(S.pipe, Put(S, x)) /\ Put(S, x) \in OnLink  BY <1>7, <1>9, <1>10
  <2>4. T.rtx = S.rtx /\ T.sent = S.sent /\ T.waiting = S.waiting /\ T.flight = S.flight
    BY <1>7, <1>9
  <2>5. QED  BY <1>9, <1>12, <1>13, <1>14, <2>1, <2>2, <2>3, <2>4 DEF OnItsWay
<1>16. Good(T, g, z)  BY <1>2, <1>15, OnItsWayGood
<1>17. QED  BY <1>2, <1>3, <1>4, <1>5, <1>16 DEF NicLess

-----------------------------------------------------------------------------
(* The packet of a link comes to its next queue, its sink, or back *)

\* It comes to the queue that expects it, one hop on.
LEMMA ArrivalGood ==
  ASSUME NEW S, NEW g, NEW z, Good(S, g, z), NEW i \in 1..Len(S.pipe), ~IsDown(S.pipe[i].from)
  PROVE  LET e == S.pipe[i]
             p == [e.pkt EXCEPT !.hop = @ + 1]
         IN Good(HeldMore(PipeLess(S, i), e.to, p), g, z)
<1>1. S \in QueueRecords /\ Sound(S)  BY DEF Good, Sound
<1>2. PICK loc : Ledger(S, loc, g, z)  BY DEF Good
<1>3. /\ Placement(loc, z) /\ HeldOK(S.held, loc) /\ ServingOK(S.serving, loc)
      /\ PipeOK(S.pipe, loc) /\ BackOK(S.rtx, loc) /\ SentOK(S.sent, loc) /\ GotOK(g, loc)
  BY <1>2 DEF Ledger
<1>4. /\ S.held \in HeldLists /\ S.pipe \in Seq(OnLink)
      /\ S.toDst \in [Queues -> [ToR -> Int]] /\ S.toPort \in [Queues -> [PortsOut -> Int]]
      /\ S.nic \in [Flows -> Int] /\ S.flight \in [Flows -> Int]
  BY <1>1, RecordFields
<1>5. PICK e : e = S.pipe[i]  OBVIOUS
<1>6. PICK p : p = [e.pkt EXCEPT !.hop = @ + 1]  OBVIOUS
<1>7. PICK x : x = e.to  OBVIOUS
<1>8. PICK k : k = Id(e.pkt)  OBVIOUS
<1>9. /\ k \in Ids /\ loc[k].tag = "pipe" /\ loc[k].at = e.from
      /\ loc[k].item = e /\ e \in OnLink
      /\ loc[k].pkt = e.pkt /\ loc[k].in = Nowhere
      /\ loc[k] \in Place /\ Bound(loc[k], z)
  <2>1. LET m == Id(S.pipe[i].pkt) IN
        /\ m \in Ids /\ loc[m].tag = "pipe" /\ loc[m].at = S.pipe[i].from
        /\ loc[m].item = S.pipe[i] /\ S.pipe[i] \in OnLink
        /\ loc[m].pkt = S.pipe[i].pkt /\ loc[m].in = Nowhere
        /\ loc[m] \in Place /\ Bound(loc[m], z)
    BY <1>3, <1>4, PipePacket
  <2>2. QED  BY <1>5, <1>8, <2>1
<1>10. loc[k].to = x /\ x \in ToRQueues  BY <1>5, <1>7, <1>9 DEF Bound
<1>11. x \in Queues /\ ~IsNic(x)  BY <1>10 DEF ToRQueues
<1>12. /\ p \in HbHPackets /\ Id(p) = k
       /\ PortAt(p, p.hop + 1) = PortAt(e.pkt, e.pkt.hop + 2)
  <2>1. e.pkt \in HbHPackets  BY <1>9 DEF OnLink
  <2>2. /\ p.flow = e.pkt.flow /\ p.n = e.pkt.n /\ p.slice = e.pkt.slice
        /\ p.hop = e.pkt.hop + 1 /\ p \in HbHPackets
    BY <1>6, <2>1 DEF HbHPackets
  <2>3. p.hop + 1 = e.pkt.hop + 2  BY <2>1, <2>2, PacketFacts
  <2>4. QED  BY <1>8, <2>2, <2>3 DEF Id, PortAt
<1>13. PICK U : U = PipeLess(S, i)  OBVIOUS
<1>14. PICK T : T = HeldMore(U, x, p)  OBVIOUS
<1>15. /\ U \in QueueRecords /\ U.pipe = RemoveAt(S.pipe, i)
       /\ U.held = S.held /\ U.serving = S.serving /\ U.toDst = S.toDst
       /\ U.toPort = S.toPort /\ U.waiting = S.waiting /\ U.nic = S.nic /\ U.sent = S.sent
       /\ U.flight = S.flight /\ U.rtx = S.rtx
  BY <1>1, <1>13, PipeLessFields
<1>16. /\ T \in QueueRecords /\ T.held = [S.held EXCEPT ![x] = Append(S.held[x], p)]
       /\ T.pipe = RemoveAt(S.pipe, i) /\ T.serving = S.serving /\ T.toDst = S.toDst
       /\ T.toPort = S.toPort /\ T.waiting = S.waiting /\ T.nic = S.nic /\ T.sent = S.sent
       /\ T.flight = S.flight /\ T.rtx = S.rtx
  <2>1. /\ T \in QueueRecords
        /\ T.held = [U.held EXCEPT ![x] = Append(U.held[x], p)]
        /\ T.serving = U.serving /\ T.toDst = U.toDst
        /\ T.toPort = U.toPort /\ T.waiting = U.waiting /\ T.nic = U.nic /\ T.sent = U.sent
        /\ T.flight = U.flight /\ T.rtx = U.rtx /\ T.pipe = U.pipe
    BY SMTT(30), <1>11, <1>12, <1>14, <1>15, HeldMoreFields
  <2>2. QED  BY <1>15, <2>1
<1>17. PICK c : c = [tag |-> "held", at |-> x, in |-> x, to |-> Nowhere, pkt |-> p, item |-> p]
  OBVIOUS
<1>18. c.tag = "held" /\ c.at = x /\ c.in = x /\ c.to = Nowhere /\ c.item = p /\ c.pkt = p
  BY <1>17
<1>19. c \in Place  BY <1>11, <1>12, <1>17 DEF Place
<1>20. PlaceOK(k, c, z)  BY <1>11, <1>12, <1>18 DEF PlaceOK
<1>21. PICK loc2 : loc2 = [loc EXCEPT ![k] = c]  OBVIOUS
<1>22. Moved(loc, loc2, k, c, z)  BY <1>3, <1>9, <1>19, <1>20, <1>21 DEF Moved
<1>23. HeldOK(T.held, loc2)
  <2>1. loc[k].tag # "held"  BY <1>9
  <2>2. HeldOK([S.held EXCEPT ![x] = Append(S.held[x], p)], loc2)
    BY ONLY <1>3, <1>4, <1>11, <1>12, <1>18, <1>22, <2>1, HeldGets
  <2>3. QED  BY <1>16, <2>2
<1>24. ServingOK(T.serving, loc2)  BY <1>3, <1>9, <1>16, <1>18, <1>22, ServingSame
<1>25. PipeOK(T.pipe, loc2)
  <2>1. c.tag # "pipe" /\ loc[k].item = S.pipe[i]  BY <1>5, <1>9, <1>18
  <2>2. PipeOK(RemoveAt(S.pipe, i), loc2)
    BY ONLY <1>3, <1>4, <1>9, <1>22, <2>1, PipeTakes, i \in 1..Len(S.pipe)
  <2>3. QED  BY <1>16, <2>2
<1>26. BackOK(T.rtx, loc2)  BY <1>3, <1>9, <1>16, <1>18, <1>22, BackSame
<1>27. SentOK(T.sent, loc2)  BY <1>3, <1>9, <1>16, <1>18, <1>22, SentSame
<1>28. GotOK(g, loc2)  BY <1>3, <1>9, <1>18, <1>22, GotSame
<1>29. Tallied(S, T, k, loc[k], c)
  <2>1. ASSUME NEW u \in ToRQueues, NEW t \in ToR
        PROVE  T.toDst[u][t] = S.toDst[u][t] +
                 IF DstOf[k[1]] = t THEN One(c.in = u) + One(c.to = u)
                                         - One(loc[k].in = u) - One(loc[k].to = u)
                 ELSE 0
    <3>1. u # Nowhere /\ S.toDst[u][t] \in Int  BY <1>4, NowhereIsNoQueue DEF ToRQueues
    <3>2. QED  BY <1>9, <1>10, <1>16, <1>18, <3>1 DEF One
  <2>2. ASSUME NEW u \in Uplinks, NEW n \in PortsOut
        PROVE  T.toPort[u][n] = S.toPort[u][n] + One(InFor(c, u, n)) + One(ToFor(c, u, n))
                                - One(InFor(loc[k], u, n)) - One(ToFor(loc[k], u, n))
    <3>1. u \in Queues /\ u # Nowhere /\ S.toPort[u][n] \in Int
      <4>1. u \in Queues  BY DEF Queues
      <4>2. QED  BY <1>4, <4>1, NowhereIsNoQueue
    <3>2. ~InFor(loc[k], u, n) /\ ~ToFor(c, u, n)
      BY <1>9, <1>18, <3>1 DEF InFor, ToFor
    <3>3. InFor(c, u, n) <=> ToFor(loc[k], u, n)
      BY <1>9, <1>10, <1>12, <1>18 DEF InFor, ToFor
    <3>4. QED  BY <1>16, <3>1, <3>2, <3>3 DEF One
  <2>3. ASSUME NEW f \in Flows
        PROVE  T.nic[f] = S.nic[f] + IF k[1] = f THEN One(c.in = Nic(SrcOf[f]))
                                                      - One(loc[k].in = Nic(SrcOf[f]))
                                     ELSE 0
    <3>1. S.nic[f] \in Int /\ SrcOf[f] \in ToR  BY <1>4, HbHAssumption
    <3>2. Nic(SrcOf[f]) \in Queues /\ IsNic(Nic(SrcOf[f]))  BY <3>1, NicIsQueue
    <3>3. c.in # Nic(SrcOf[f]) /\ loc[k].in # Nic(SrcOf[f])
      BY <1>9, <1>11, <1>18, <3>2, NowhereIsNoQueue
    <3>4. QED  BY <1>16, <3>1, <3>3 DEF One
  <2>4. ASSUME NEW f \in Flows
        PROVE  T.flight[f] = S.flight[f] + IF k[1] = f THEN One(c.tag \in Flights)
                                                            - One(loc[k].tag \in Flights)
                                           ELSE 0
    <3>1. S.flight[f] \in Int  BY <1>4
    <3>2. QED  BY <1>9, <1>16, <1>18, <3>1 DEF One, Flights
  <2>5. QED  BY <2>1, <2>2, <2>3, <2>4 DEF Tallied
<1>30. Sound(T)  BY <1>1, <1>16 DEF Sound
<1>31. Good(T, g, z)
  BY <1>2, <1>22, <1>23, <1>24, <1>25, <1>26, <1>27, <1>28, <1>29, <1>30, MoveGood
<1>32. QED  BY <1>5, <1>6, <1>7, <1>13, <1>14, <1>31

\* It is lost, and goes back to its source: the queue that expected it counts it
\* no longer.
Lost(S, i, q, n) ==
  [Uncount(PipeLess(S, i), S.pipe[i].to, q, n) EXCEPT
     !.flight[q.flow] = @ - 1, !.rtx[q.flow] = Append(@, q)]

\* A packet that comes from the link and is lost goes back to its source: it is no
\* longer in flight, and waits to be sent again.
LEMMA LostGood ==
  ASSUME NEW S, NEW g, NEW z, Good(S, g, z), NEW i \in 1..Len(S.pipe), ~IsDown(S.pipe[i].from),
         NEW q \in HbHPackets, Id(q) = Id(S.pipe[i].pkt), NEW n,
         ~IsDown(S.pipe[i].to) => n = PortAt(S.pipe[i].pkt, S.pipe[i].pkt.hop + 2)
  PROVE  Good(Lost(S, i, q, n), g, z)
<1>1. S \in QueueRecords /\ Sound(S)  BY DEF Good, Sound
<1>2. PICK loc : Ledger(S, loc, g, z)  BY DEF Good
<1>3. /\ Placement(loc, z) /\ HeldOK(S.held, loc) /\ ServingOK(S.serving, loc)
      /\ PipeOK(S.pipe, loc) /\ BackOK(S.rtx, loc) /\ SentOK(S.sent, loc) /\ GotOK(g, loc)
  BY <1>2 DEF Ledger
<1>4. /\ S.rtx \in BackLists /\ S.pipe \in Seq(OnLink)
      /\ S.toDst \in [Queues -> [ToR -> Int]] /\ S.toPort \in [Queues -> [PortsOut -> Int]]
      /\ S.nic \in [Flows -> Int] /\ S.flight \in [Flows -> Int]
  BY <1>1, RecordFields
<1>5. PICK e : e = S.pipe[i]  OBVIOUS
<1>6. PICK x : x = e.to  OBVIOUS
<1>7. PICK f : f = q.flow  OBVIOUS
<1>8. PICK k : k = Id(q)  OBVIOUS
<1>9. /\ k \in Ids /\ loc[k].tag = "pipe" /\ loc[k].at = e.from
      /\ loc[k].item = e /\ e \in OnLink
      /\ loc[k].pkt = e.pkt /\ loc[k].in = Nowhere
      /\ loc[k] \in Place /\ Bound(loc[k], z)
  <2>1. LET m == Id(S.pipe[i].pkt) IN
        /\ m \in Ids /\ loc[m].tag = "pipe" /\ loc[m].at = S.pipe[i].from
        /\ loc[m].item = S.pipe[i] /\ S.pipe[i] \in OnLink
        /\ loc[m].pkt = S.pipe[i].pkt /\ loc[m].in = Nowhere
        /\ loc[m] \in Place /\ Bound(loc[m], z)
    BY <1>3, <1>4, PipePacket
  <2>2. QED  BY <1>5, <1>8, <2>1
<1>10. loc[k].to = x /\ x \in ToRQueues  BY <1>5, <1>6, <1>9 DEF Bound
<1>11. x \in Queues /\ ~IsNic(x)  BY <1>10 DEF ToRQueues
<1>12. x \in Uplinks <=> ~IsDown(x)  BY <1>11, QueueFacts
<1>13. k[1] = f /\ DstOf[f] \in ToR /\ f \in Flows  BY <1>7, <1>8, PacketFacts
<1>14. ~IsDown(x) => n = PortAt(e.pkt, e.pkt.hop + 2) /\ n \in PortsOut
  <2>1. e.pkt \in HbHPackets  BY <1>9 DEF OnLink
  <2>2. QED  BY <1>5, <1>6, <2>1, PacketFacts
<1>15. PICK U : U = PipeLess(S, i)  OBVIOUS
<1>16. PICK V : V = Uncount(U, x, q, n)  OBVIOUS
<1>17. PICK W : W = FlightLess(V, f)  OBVIOUS
<1>18. PICK T : T = BackMore(W, q)  OBVIOUS
<1>19. /\ U \in QueueRecords /\ U.pipe = RemoveAt(S.pipe, i)
       /\ U.held = S.held /\ U.serving = S.serving /\ U.toDst = S.toDst
       /\ U.toPort = S.toPort /\ U.waiting = S.waiting /\ U.nic = S.nic /\ U.sent = S.sent
       /\ U.flight = S.flight /\ U.rtx = S.rtx
  BY <1>1, <1>15, PipeLessFields
<1>20. /\ V \in QueueRecords
       /\ \A u \in Queues, t \in ToR :
            V.toDst[u][t] = U.toDst[u][t] - IF u = x /\ t = DstOf[f] THEN 1 ELSE 0
       /\ \A u \in Queues, m \in PortsOut :
            V.toPort[u][m] = U.toPort[u][m] - IF u = x /\ ~IsDown(x) /\ m = n THEN 1 ELSE 0
       /\ V.held = U.held /\ V.serving = U.serving /\ V.waiting = U.waiting
       /\ V.nic = U.nic /\ V.sent = U.sent /\ V.flight = U.flight /\ V.rtx = U.rtx
       /\ V.pipe = U.pipe
  <2>1. IsDown(x) \/ n \in PortsOut  BY <1>14
  <2>2. /\ V \in QueueRecords
        /\ \A u \in Queues, t \in ToR :
             V.toDst[u][t] = U.toDst[u][t] - IF u = x /\ t = DstOf[q.flow] THEN 1 ELSE 0
        /\ \A u \in Queues, m \in PortsOut :
             V.toPort[u][m] = U.toPort[u][m] - IF u = x /\ ~IsDown(x) /\ m = n THEN 1 ELSE 0
        /\ V.held = U.held /\ V.serving = U.serving /\ V.waiting = U.waiting
        /\ V.nic = U.nic /\ V.sent = U.sent /\ V.flight = U.flight /\ V.rtx = U.rtx
        /\ V.pipe = U.pipe
    BY SMTT(30), <1>11, <1>16, <1>19, <2>1, UncountFields
  <2>3. QED  BY <1>7, <2>2
<1>21. /\ W \in QueueRecords
       /\ \A h \in Flows : W.flight[h] = V.flight[h] - IF h = f THEN 1 ELSE 0
       /\ W.held = V.held /\ W.serving = V.serving /\ W.toDst = V.toDst
       /\ W.toPort = V.toPort /\ W.waiting = V.waiting /\ W.nic = V.nic /\ W.sent = V.sent
       /\ W.rtx = V.rtx /\ W.pipe = V.pipe
  BY <1>13, <1>17, <1>20, FlightLessFields
<1>22. /\ T \in QueueRecords /\ T.rtx = [W.rtx EXCEPT ![f] = Append(W.rtx[f], q)]
       /\ T.held = W.held /\ T.serving = W.serving /\ T.toDst = W.toDst
       /\ T.toPort = W.toPort /\ T.waiting = W.waiting /\ T.nic = W.nic /\ T.sent = W.sent
       /\ T.flight = W.flight /\ T.pipe = W.pipe
  BY <1>7, <1>18, <1>21, BackMoreFields
<1>23. /\ T.held = S.held /\ T.serving = S.serving /\ T.pipe = RemoveAt(S.pipe, i)
       /\ T.rtx = [S.rtx EXCEPT ![f] = Append(S.rtx[f], q)]
       /\ T.waiting = S.waiting /\ T.nic = S.nic /\ T.sent = S.sent
       /\ \A h \in Flows : T.flight[h] = S.flight[h] - IF h = f THEN 1 ELSE 0
       /\ \A u \in Queues, t \in ToR :
            T.toDst[u][t] = S.toDst[u][t] - IF u = x /\ t = DstOf[f] THEN 1 ELSE 0
       /\ \A u \in Queues, m \in PortsOut :
            T.toPort[u][m] = S.toPort[u][m] - IF u = x /\ ~IsDown(x) /\ m = n THEN 1 ELSE 0
  BY <1>19, <1>20, <1>21, <1>22
<1>24. Lost(S, i, q, n) = T
  <2>1. Lost(S, i, q, n) = [V EXCEPT !.flight[f] = @ - 1, !.rtx[f] = Append(@, q)]
    BY <1>5, <1>6, <1>7, <1>15, <1>16 DEF Lost
  <2>2. PICK r, s : r = [V.flight EXCEPT ![f] = V.flight[f] - 1]
                    /\ s = [V.rtx EXCEPT ![f] = Append(V.rtx[f], q)]
    OBVIOUS
  <2>3. Lost(S, i, q, n) = [V EXCEPT !.flight = r, !.rtx = s]  BY <2>1, <2>2
  <2>4. W = [V EXCEPT !.flight = r]  BY <1>17, <2>2 DEF FlightLess
  <2>5. W.rtx = V.rtx  BY <1>21
  <2>6. T = [W EXCEPT !.rtx = s]  BY <1>7, <1>18, <2>2, <2>5 DEF BackMore
  <2>7. QED  BY <1>20, <2>3, <2>4, <2>6 DEF QueueRecords
<1>25. PICK c : c = [tag |-> "back", at |-> e.from, in |-> Nowhere, to |-> Nowhere, pkt |-> q,
                     item |-> q]
  OBVIOUS
<1>26. c.tag = "back" /\ c.in = Nowhere /\ c.to = Nowhere /\ c.item = q /\ c.pkt = q
  BY <1>25
<1>27. c \in Place  BY <1>9, <1>25 DEF Place, OnLink
<1>28. PlaceOK(k, c, z)  BY <1>8, <1>26 DEF PlaceOK
<1>29. PICK loc2 : loc2 = [loc EXCEPT ![k] = c]  OBVIOUS
<1>30. Moved(loc, loc2, k, c, z)  BY <1>3, <1>9, <1>27, <1>28, <1>29 DEF Moved
<1>31. HeldOK(T.held, loc2)  BY <1>3, <1>9, <1>23, <1>26, <1>30, HeldSame
<1>32. ServingOK(T.serving, loc2)  BY <1>3, <1>9, <1>23, <1>26, <1>30, ServingSame
<1>33. PipeOK(T.pipe, loc2)
  <2>1. c.tag # "pipe" /\ loc[k].item = S.pipe[i]  BY <1>5, <1>9, <1>26
  <2>2. PipeOK(RemoveAt(S.pipe, i), loc2)
    BY ONLY <1>3, <1>4, <1>9, <1>30, <2>1, PipeTakes, i \in 1..Len(S.pipe)
  <2>3. QED  BY <1>23, <2>2
<1>34. BackOK(T.rtx, loc2)
  <2>1. loc[k].tag # "back"  BY <1>9
  <2>2. BackOK([S.rtx EXCEPT ![f] = Append(S.rtx[f], q)], loc2)
    BY ONLY <1>3, <1>4, <1>13, <1>26, <1>30, <2>1, BackGets, q \in HbHPackets
  <2>3. QED  BY <1>23, <2>2
<1>35. SentOK(T.sent, loc2)  BY <1>3, <1>9, <1>23, <1>26, <1>30, SentSame
<1>36. GotOK(g, loc2)  BY <1>3, <1>9, <1>26, <1>30, GotSame
<1>37. Tallied(S, T, k, loc[k], c)
  <2>1. ASSUME NEW u \in ToRQueues, NEW t \in ToR
        PROVE  T.toDst[u][t] = S.toDst[u][t] +
                 IF DstOf[k[1]] = t THEN One(c.in = u) + One(c.to = u)
                                         - One(loc[k].in = u) - One(loc[k].to = u)
                 ELSE 0
    <3>1. u \in Queues /\ u # Nowhere /\ S.toDst[u][t] \in Int
      BY <1>4, NowhereIsNoQueue DEF ToRQueues
    <3>2. T.toDst[u][t] = S.toDst[u][t] - IF u = x /\ t = DstOf[f] THEN 1 ELSE 0
      BY <1>23, <3>1
    <3>3. QED  BY <1>9, <1>10, <1>13, <1>26, <3>1, <3>2 DEF One
  <2>2. ASSUME NEW u \in Uplinks, NEW m \in PortsOut
        PROVE  T.toPort[u][m] = S.toPort[u][m] + One(InFor(c, u, m)) + One(ToFor(c, u, m))
                                - One(InFor(loc[k], u, m)) - One(ToFor(loc[k], u, m))
    <3>1. u \in Queues /\ u # Nowhere /\ S.toPort[u][m] \in Int
      <4>1. u \in Queues  BY DEF Queues
      <4>2. QED  BY <1>4, <4>1, NowhereIsNoQueue
    <3>2. ~InFor(loc[k], u, m) /\ ~ToFor(c, u, m) /\ ~InFor(c, u, m)
      BY <1>9, <1>26, <3>1 DEF InFor, ToFor
    <3>3. ToFor(loc[k], u, m) <=> u = x /\ ~IsDown(x) /\ m = n
      BY <1>9, <1>10, <1>12, <1>14 DEF ToFor
    <3>4. T.toPort[u][m] = S.toPort[u][m] - IF u = x /\ ~IsDown(x) /\ m = n THEN 1 ELSE 0
      BY <1>23, <3>1
    <3>5. QED  BY <3>1, <3>2, <3>3, <3>4 DEF One
  <2>3. ASSUME NEW h \in Flows
        PROVE  T.nic[h] = S.nic[h] + IF k[1] = h THEN One(c.in = Nic(SrcOf[h]))
                                                      - One(loc[k].in = Nic(SrcOf[h]))
                                     ELSE 0
    <3>1. S.nic[h] \in Int  BY <1>4
    <3>2. QED  BY <1>9, <1>23, <1>26, <3>1 DEF One
  <2>4. ASSUME NEW h \in Flows
        PROVE  T.flight[h] = S.flight[h] + IF k[1] = h THEN One(c.tag \in Flights)
                                                            - One(loc[k].tag \in Flights)
                                           ELSE 0
    <3>1. S.flight[h] \in Int /\ T.flight[h] = S.flight[h] - IF h = f THEN 1 ELSE 0
      BY <1>4, <1>23
    <3>2. QED  BY <1>9, <1>13, <1>26, <3>1 DEF One, Flights
  <2>5. QED  BY <2>1, <2>2, <2>3, <2>4 DEF Tallied
<1>38. Sound(T)
  <2>1. ASSUME NEW u \in Queues, NEW t \in ToR
        PROVE  T.toDst[u][t] <= S.toDst[u][t] /\ (IsNic(u) => T.toDst[u][t] = S.toDst[u][t])
    <3>1. S.toDst[u][t] \in Int  BY <1>4
    <3>2. QED  BY <1>11, <1>23, <3>1
  <2>2. ASSUME NEW u \in Queues, NEW m \in PortsOut
        PROVE  /\ T.toPort[u][m] <= S.toPort[u][m]
               /\ u \notin Uplinks => T.toPort[u][m] = S.toPort[u][m]
    <3>1. S.toPort[u][m] \in Int  BY <1>4
    <3>2. QED  BY <1>12, <1>23, <3>1
  <2>3. Windows(T.nic, T.sent, T.flight)
    <3>1. ASSUME NEW h \in Flows  PROVE T.flight[h] <= MaxInflight
      <4>1. S.flight[h] \in Int /\ MaxInflight \in Nat  BY <1>4, HbHAssumption
      <4>2. S.flight[h] <= MaxInflight  BY <1>1 DEF Sound, Windows
      <4>3. T.flight[h] = S.flight[h] - IF h = f THEN 1 ELSE 0  BY <1>23
      <4>4. QED  BY <4>1, <4>2, <4>3
    <3>2. QED  BY <1>1, <1>23, <3>1 DEF Sound, Windows
  <2>4. QED  BY <1>1, <1>22, <1>23, <2>1, <2>2, <2>3, SoundBelow
<1>39. Good(T, g, z)
  BY <1>2, <1>30, <1>31, <1>32, <1>33, <1>34, <1>35, <1>36, <1>37, <1>38, MoveGood
<1>40. QED  BY <1>24, <1>39

\* What the downlink x of another rack does with the packet it has served: the
\* counters and the service of x, and the source's lists, before the source sends.
Returned(S, x) ==
  LET p == S.serving[x][1].pkt
  IN [ServingLess(Uncount(S, x, p, "none"), x) EXCEPT
        !.flight[p.flow] = @ - 1, !.rtx[p.flow] = Append(@, p)]

\* A packet that the downlink of another rack has served goes back to its source,
\* like one lost on a link, but it is the downlink that counted it.
LEMMA ReturnedGood ==
  ASSUME NEW S, NEW g, NEW z, Good(S, g, z), NEW x \in Queues, IsDown(x), S.serving[x] # <<>>
  PROVE  LET T == Returned(S, x)
         IN /\ Good(T, g, z) /\ T.serving = [S.serving EXCEPT ![x] = <<>>]
            /\ S.serving[x][1].pkt.flow \in Flows
<1>1. S \in QueueRecords /\ Sound(S)  BY DEF Good, Sound
<1>2. PICK loc : Ledger(S, loc, g, z)  BY DEF Good
<1>3. /\ Placement(loc, z) /\ HeldOK(S.held, loc) /\ ServingOK(S.serving, loc)
      /\ PipeOK(S.pipe, loc) /\ BackOK(S.rtx, loc) /\ SentOK(S.sent, loc) /\ GotOK(g, loc)
  BY <1>2 DEF Ledger
<1>4. /\ S.rtx \in BackLists /\ S.serving \in Services
      /\ S.toDst \in [Queues -> [ToR -> Int]] /\ S.toPort \in [Queues -> [PortsOut -> Int]]
      /\ S.nic \in [Flows -> Int] /\ S.flight \in [Flows -> Int]
  BY <1>1, RecordFields
<1>5. PICK q : q = S.serving[x][1].pkt  OBVIOUS
<1>6. PICK f : f = q.flow  OBVIOUS
<1>7. PICK k : k = Id(q)  OBVIOUS
<1>8. /\ k \in Ids /\ loc[k].tag = "serving" /\ loc[k].at = x
      /\ S.serving[x][1] \in Entries /\ loc[k].pkt = q /\ loc[k].in = x
      /\ loc[k] \in Place /\ Bound(loc[k], z)
  <2>1. LET m == Id(S.serving[x][1].pkt) IN
        /\ m \in Ids /\ loc[m].tag = "serving" /\ loc[m].at = x
        /\ loc[m].item = S.serving[x][1] /\ S.serving[x][1] \in Entries
        /\ loc[m].pkt = S.serving[x][1].pkt /\ loc[m].in = x
        /\ loc[m] \in Place /\ Bound(loc[m], z)
        /\ IsNic(x) => x = Nic(SrcOf[m[1]])
    BY <1>3, <1>4, ServingPacket
  <2>2. QED  BY <1>5, <1>7, <2>1
<1>9. loc[k].to = Nowhere  BY <1>8 DEF Bound
<1>10. ~IsNic(x) /\ x \notin Uplinks  BY QueueFacts
<1>11. q \in HbHPackets /\ k[1] = f /\ DstOf[f] \in ToR /\ f \in Flows
  <2>1. q \in HbHPackets  BY <1>5, <1>8 DEF Entries
  <2>2. QED  BY <1>6, <1>7, <2>1, PacketFacts
<1>12. PICK U : U = Uncount(S, x, q, "none")  OBVIOUS
<1>13. PICK V : V = ServingLess(U, x)  OBVIOUS
<1>14. PICK W : W = FlightLess(V, f)  OBVIOUS
<1>15. PICK T : T = BackMore(W, q)  OBVIOUS
<1>16. /\ U \in QueueRecords
       /\ \A u \in Queues, t \in ToR :
            U.toDst[u][t] = S.toDst[u][t] - IF u = x /\ t = DstOf[f] THEN 1 ELSE 0
       /\ \A u \in Queues, m \in PortsOut : U.toPort[u][m] = S.toPort[u][m]
       /\ U.held = S.held /\ U.serving = S.serving /\ U.waiting = S.waiting
       /\ U.nic = S.nic /\ U.sent = S.sent /\ U.flight = S.flight /\ U.rtx = S.rtx
       /\ U.pipe = S.pipe
  <2>1. /\ U \in QueueRecords
        /\ \A u \in Queues, t \in ToR :
             U.toDst[u][t] = S.toDst[u][t] - IF u = x /\ t = DstOf[q.flow] THEN 1 ELSE 0
        /\ \A u \in Queues, m \in PortsOut :
             U.toPort[u][m] = S.toPort[u][m]
                              - IF u = x /\ ~IsDown(x) /\ m = "none" THEN 1 ELSE 0
        /\ U.held = S.held /\ U.serving = S.serving /\ U.waiting = S.waiting
        /\ U.nic = S.nic /\ U.sent = S.sent /\ U.flight = S.flight /\ U.rtx = S.rtx
        /\ U.pipe = S.pipe
    BY SMTT(30), <1>1, <1>11, <1>12, UncountFields
  <2>2. ASSUME NEW u \in Queues, NEW m \in PortsOut
        PROVE  U.toPort[u][m] = S.toPort[u][m]
    <3>1. S.toPort[u][m] \in Int  BY <1>4
    <3>2. QED  BY <2>1, <3>1
  <2>3. QED  BY <1>6, <2>1, <2>2
<1>17. /\ V \in QueueRecords /\ V.serving = [U.serving EXCEPT ![x] = <<>>]
       /\ V.held = U.held /\ V.toDst = U.toDst /\ V.toPort = U.toPort
       /\ V.waiting = U.waiting /\ V.nic = U.nic /\ V.sent = U.sent
       /\ V.flight = U.flight /\ V.rtx = U.rtx /\ V.pipe = U.pipe
  BY <1>13, <1>16, ServingLessFields
<1>18. /\ W \in QueueRecords
       /\ \A h \in Flows : W.flight[h] = V.flight[h] - IF h = f THEN 1 ELSE 0
       /\ W.held = V.held /\ W.serving = V.serving /\ W.toDst = V.toDst
       /\ W.toPort = V.toPort /\ W.waiting = V.waiting /\ W.nic = V.nic /\ W.sent = V.sent
       /\ W.rtx = V.rtx /\ W.pipe = V.pipe
  BY <1>11, <1>14, <1>17, FlightLessFields
<1>19. /\ T \in QueueRecords /\ T.rtx = [W.rtx EXCEPT ![f] = Append(W.rtx[f], q)]
       /\ T.held = W.held /\ T.serving = W.serving /\ T.toDst = W.toDst
       /\ T.toPort = W.toPort /\ T.waiting = W.waiting /\ T.nic = W.nic /\ T.sent = W.sent
       /\ T.flight = W.flight /\ T.pipe = W.pipe
  BY <1>6, <1>11, <1>15, <1>18, BackMoreFields
<1>20. /\ T.held = S.held /\ T.serving = [S.serving EXCEPT ![x] = <<>>] /\ T.pipe = S.pipe
       /\ T.rtx = [S.rtx EXCEPT ![f] = Append(S.rtx[f], q)]
       /\ T.waiting = S.waiting /\ T.nic = S.nic /\ T.sent = S.sent
       /\ \A h \in Flows : T.flight[h] = S.flight[h] - IF h = f THEN 1 ELSE 0
       /\ \A u \in Queues, t \in ToR :
            T.toDst[u][t] = S.toDst[u][t] - IF u = x /\ t = DstOf[f] THEN 1 ELSE 0
       /\ \A u \in Queues, m \in PortsOut : T.toPort[u][m] = S.toPort[u][m]
  BY <1>16, <1>17, <1>18, <1>19
<1>21. Returned(S, x) = T
  <2>1. Returned(S, x) = [V EXCEPT !.flight[f] = @ - 1, !.rtx[f] = Append(@, q)]
    BY <1>5, <1>6, <1>12, <1>13 DEF Returned
  <2>2. PICK r, s : r = [V.flight EXCEPT ![f] = V.flight[f] - 1]
                    /\ s = [V.rtx EXCEPT ![f] = Append(V.rtx[f], q)]
    OBVIOUS
  <2>3. Returned(S, x) = [V EXCEPT !.flight = r, !.rtx = s]  BY <2>1, <2>2
  <2>4. W = [V EXCEPT !.flight = r]  BY <1>14, <2>2 DEF FlightLess
  <2>5. W.rtx = V.rtx  BY <1>18
  <2>6. T = [W EXCEPT !.rtx = s]  BY <1>6, <1>15, <2>2, <2>5 DEF BackMore
  <2>7. QED  BY <1>17, <2>3, <2>4, <2>6 DEF QueueRecords
<1>22. PICK c : c = [tag |-> "back", at |-> x, in |-> Nowhere, to |-> Nowhere, pkt |-> q,
                     item |-> q]
  OBVIOUS
<1>23. c.tag = "back" /\ c.in = Nowhere /\ c.to = Nowhere /\ c.item = q /\ c.pkt = q
  BY <1>22
<1>24. c \in Place  BY <1>11, <1>22 DEF Place
<1>25. PlaceOK(k, c, z)  BY <1>7, <1>23 DEF PlaceOK
<1>26. PICK loc2 : loc2 = [loc EXCEPT ![k] = c]  OBVIOUS
<1>27. Moved(loc, loc2, k, c, z)  BY <1>3, <1>8, <1>24, <1>25, <1>26 DEF Moved
<1>28. HeldOK(T.held, loc2)  BY <1>3, <1>8, <1>20, <1>23, <1>27, HeldSame
<1>29. ServingOK(T.serving, loc2)
  <2>1. c.tag # "serving"  BY <1>23
  <2>2. ServingOK([S.serving EXCEPT ![x] = <<>>], loc2)
    BY ONLY <1>3, <1>4, <1>8, <1>27, <2>1, ServingTakes, x \in Queues
  <2>3. QED  BY <1>20, <2>2
<1>30. PipeOK(T.pipe, loc2)  BY <1>3, <1>8, <1>20, <1>23, <1>27, PipeSame
<1>31. BackOK(T.rtx, loc2)
  <2>1. loc[k].tag # "back"  BY <1>8
  <2>2. BackOK([S.rtx EXCEPT ![f] = Append(S.rtx[f], q)], loc2)
    BY ONLY <1>3, <1>4, <1>11, <1>23, <1>27, <2>1, BackGets
  <2>3. QED  BY <1>20, <2>2
<1>32. SentOK(T.sent, loc2)  BY <1>3, <1>8, <1>20, <1>23, <1>27, SentSame
<1>33. GotOK(g, loc2)  BY <1>3, <1>8, <1>23, <1>27, GotSame
<1>34. Tallied(S, T, k, loc[k], c)
  <2>1. ASSUME NEW u \in ToRQueues, NEW t \in ToR
        PROVE  T.toDst[u][t] = S.toDst[u][t] +
                 IF DstOf[k[1]] = t THEN One(c.in = u) + One(c.to = u)
                                         - One(loc[k].in = u) - One(loc[k].to = u)
                 ELSE 0
    <3>1. u \in Queues /\ u # Nowhere /\ S.toDst[u][t] \in Int
      BY <1>4, NowhereIsNoQueue DEF ToRQueues
    <3>2. T.toDst[u][t] = S.toDst[u][t] - IF u = x /\ t = DstOf[f] THEN 1 ELSE 0
      BY <1>20, <3>1
    <3>3. QED  BY <1>8, <1>9, <1>11, <1>23, <3>1, <3>2 DEF One
  <2>2. ASSUME NEW u \in Uplinks, NEW m \in PortsOut
        PROVE  T.toPort[u][m] = S.toPort[u][m] + One(InFor(c, u, m)) + One(ToFor(c, u, m))
                                - One(InFor(loc[k], u, m)) - One(ToFor(loc[k], u, m))
    <3>1. u \in Queues /\ u # Nowhere /\ S.toPort[u][m] \in Int
      <4>1. u \in Queues  BY DEF Queues
      <4>2. QED  BY <1>4, <4>1, NowhereIsNoQueue
    <3>2. /\ ~InFor(loc[k], u, m) /\ ~ToFor(loc[k], u, m)
          /\ ~InFor(c, u, m) /\ ~ToFor(c, u, m)
      BY <1>8, <1>9, <1>10, <1>23, <3>1 DEF InFor, ToFor
    <3>3. T.toPort[u][m] = S.toPort[u][m]  BY <1>20, <3>1
    <3>4. QED  BY <3>1, <3>2, <3>3 DEF One
  <2>3. ASSUME NEW h \in Flows
        PROVE  T.nic[h] = S.nic[h] + IF k[1] = h THEN One(c.in = Nic(SrcOf[h]))
                                                      - One(loc[k].in = Nic(SrcOf[h]))
                                     ELSE 0
    <3>1. S.nic[h] \in Int /\ SrcOf[h] \in ToR  BY <1>4, HbHAssumption
    <3>2. Nic(SrcOf[h]) \in Queues /\ IsNic(Nic(SrcOf[h]))  BY <3>1, NicIsQueue
    <3>3. c.in # Nic(SrcOf[h]) /\ loc[k].in # Nic(SrcOf[h])
      BY <1>8, <1>10, <1>23, <3>2, NowhereIsNoQueue
    <3>4. QED  BY <1>20, <3>1, <3>3 DEF One
  <2>4. ASSUME NEW h \in Flows
        PROVE  T.flight[h] = S.flight[h] + IF k[1] = h THEN One(c.tag \in Flights)
                                                            - One(loc[k].tag \in Flights)
                                           ELSE 0
    <3>1. S.flight[h] \in Int /\ T.flight[h] = S.flight[h] - IF h = f THEN 1 ELSE 0
      BY <1>4, <1>20
    <3>2. QED  BY <1>8, <1>11, <1>23, <3>1 DEF One, Flights
  <2>5. QED  BY <2>1, <2>2, <2>3, <2>4 DEF Tallied
<1>35. Sound(T)
  <2>1. ASSUME NEW u \in Queues, NEW t \in ToR
        PROVE  T.toDst[u][t] <= S.toDst[u][t] /\ (IsNic(u) => T.toDst[u][t] = S.toDst[u][t])
    <3>1. S.toDst[u][t] \in Int  BY <1>4
    <3>2. QED  BY <1>10, <1>20, <3>1
  <2>2. ASSUME NEW u \in Queues, NEW m \in PortsOut
        PROVE  /\ T.toPort[u][m] <= S.toPort[u][m]
               /\ u \notin Uplinks => T.toPort[u][m] = S.toPort[u][m]
    <3>1. S.toPort[u][m] \in Int  BY <1>4
    <3>2. QED  BY <1>20, <3>1
  <2>3. Windows(T.nic, T.sent, T.flight)
    <3>1. ASSUME NEW h \in Flows  PROVE T.flight[h] <= MaxInflight
      <4>1. S.flight[h] \in Int /\ MaxInflight \in Nat  BY <1>4, HbHAssumption
      <4>2. S.flight[h] <= MaxInflight  BY <1>1 DEF Sound, Windows
      <4>3. T.flight[h] = S.flight[h] - IF h = f THEN 1 ELSE 0  BY <1>20
      <4>4. QED  BY <4>1, <4>2, <4>3
    <3>2. QED  BY <1>1, <1>20, <3>1 DEF Sound, Windows
  <2>4. QED  BY <1>1, <1>19, <1>20, <2>1, <2>2, <2>3, SoundBelow
<1>36. Good(T, g, z)
  BY <1>2, <1>27, <1>28, <1>29, <1>30, <1>31, <1>32, <1>33, <1>34, <1>35, MoveGood
<1>37. QED  BY <1>5, <1>6, <1>11, <1>20, <1>21, <1>36

\* It comes to its sink.
LEMMA SinkGood ==
  ASSUME NEW S, NEW g, NEW z, Good(S, g, z), DOMAIN g = Flows,
         NEW i \in 1..Len(S.pipe), IsDown(S.pipe[i].from)
  PROVE  LET e == S.pipe[i]
             f == e.pkt.flow
         IN /\ Good([S EXCEPT !.pipe = RemoveAt(@, i), !.flight[f] = @ - 1],
                    [g EXCEPT ![f] = g[f] \cup {e.pkt.n}], z)
            /\ f \in Flows /\ e.pkt.n \in 1..FlowPackets[f]
<1>1. S \in QueueRecords /\ Sound(S)  BY DEF Good, Sound
<1>2. PICK loc : Ledger(S, loc, g, z)  BY DEF Good
<1>3. /\ Placement(loc, z) /\ HeldOK(S.held, loc) /\ ServingOK(S.serving, loc)
      /\ PipeOK(S.pipe, loc) /\ BackOK(S.rtx, loc) /\ SentOK(S.sent, loc) /\ GotOK(g, loc)
  BY <1>2 DEF Ledger
<1>4. /\ S.pipe \in Seq(OnLink)
      /\ S.toDst \in [Queues -> [ToR -> Int]] /\ S.toPort \in [Queues -> [PortsOut -> Int]]
      /\ S.nic \in [Flows -> Int] /\ S.flight \in [Flows -> Int]
  BY <1>1, RecordFields
<1>5. PICK e : e = S.pipe[i]  OBVIOUS
<1>6. PICK f : f = e.pkt.flow  OBVIOUS
<1>7. PICK k : k = Id(e.pkt)  OBVIOUS
<1>8. /\ k \in Ids /\ loc[k].tag = "pipe" /\ loc[k].at = e.from
      /\ loc[k].item = e /\ e \in OnLink
      /\ loc[k].pkt = e.pkt /\ loc[k].in = Nowhere
      /\ loc[k] \in Place /\ Bound(loc[k], z)
  <2>1. LET m == Id(S.pipe[i].pkt) IN
        /\ m \in Ids /\ loc[m].tag = "pipe" /\ loc[m].at = S.pipe[i].from
        /\ loc[m].item = S.pipe[i] /\ S.pipe[i] \in OnLink
        /\ loc[m].pkt = S.pipe[i].pkt /\ loc[m].in = Nowhere
        /\ loc[m] \in Place /\ Bound(loc[m], z)
    BY <1>3, <1>4, PipePacket
  <2>2. QED  BY <1>5, <1>7, <2>1
<1>9. loc[k].to = Nowhere  BY <1>5, <1>8 DEF Bound
<1>10. e.pkt \in HbHPackets  BY <1>8 DEF OnLink
<1>11. k = <<f, e.pkt.n>> /\ f \in Flows /\ k[1] = f /\ k[2] = e.pkt.n
       /\ e.pkt.n \in 1..FlowPackets[f]
  BY <1>6, <1>7, <1>8 DEF Id, Ids
<1>12. PICK U : U = PipeLess(S, i)  OBVIOUS
<1>13. PICK T : T = FlightLess(U, f)  OBVIOUS
<1>14. /\ U \in QueueRecords /\ U.pipe = RemoveAt(S.pipe, i)
       /\ U.held = S.held /\ U.serving = S.serving /\ U.toDst = S.toDst
       /\ U.toPort = S.toPort /\ U.waiting = S.waiting /\ U.nic = S.nic /\ U.sent = S.sent
       /\ U.flight = S.flight /\ U.rtx = S.rtx
  BY <1>1, <1>12, PipeLessFields
<1>15. /\ T \in QueueRecords
       /\ \A h \in Flows : T.flight[h] = U.flight[h] - IF h = f THEN 1 ELSE 0
       /\ T.held = U.held /\ T.serving = U.serving /\ T.toDst = U.toDst
       /\ T.toPort = U.toPort /\ T.waiting = U.waiting /\ T.nic = U.nic /\ T.sent = U.sent
       /\ T.rtx = U.rtx /\ T.pipe = U.pipe
  BY <1>11, <1>13, <1>14, FlightLessFields
<1>16. [S EXCEPT !.pipe = RemoveAt(@, i), !.flight[f] = @ - 1] = T
  <2>1. PICK q, r : q = RemoveAt(S.pipe, i) /\ r = [S.flight EXCEPT ![f] = S.flight[f] - 1]
    OBVIOUS
  <2>2. U = [S EXCEPT !.pipe = q]  BY <1>12, <2>1 DEF PipeLess
  <2>3. T = [U EXCEPT !.flight = r]  BY <1>13, <1>14, <2>1 DEF FlightLess
  <2>4. [S EXCEPT !.pipe = RemoveAt(@, i), !.flight[f] = @ - 1] = [S EXCEPT !.pipe = q, !.flight = r]
    BY <2>1
  <2>5. QED  BY <1>1, <2>2, <2>3, <2>4 DEF QueueRecords
<1>17. PICK c : c = [tag |-> "got", at |-> e.from, in |-> Nowhere, to |-> Nowhere,
                     pkt |-> e.pkt, item |-> e.pkt]
  OBVIOUS
<1>18. c.tag = "got" /\ c.in = Nowhere /\ c.to = Nowhere /\ c.pkt = e.pkt
  BY <1>17
<1>19. c \in Place  BY <1>8, <1>10, <1>17 DEF Place, OnLink
<1>20. PlaceOK(k, c, z)  BY <1>7, <1>18 DEF PlaceOK
<1>21. PICK loc2 : loc2 = [loc EXCEPT ![k] = c]  OBVIOUS
<1>22. Moved(loc, loc2, k, c, z)  BY <1>3, <1>8, <1>19, <1>20, <1>21 DEF Moved
<1>23. HeldOK(T.held, loc2)  BY <1>3, <1>8, <1>14, <1>15, <1>18, <1>22, HeldSame
<1>24. ServingOK(T.serving, loc2)  BY <1>3, <1>8, <1>14, <1>15, <1>18, <1>22, ServingSame
<1>25. PipeOK(T.pipe, loc2)
  <2>1. c.tag # "pipe" /\ loc[k].item = S.pipe[i]  BY <1>5, <1>8, <1>18
  <2>2. PipeOK(RemoveAt(S.pipe, i), loc2)
    BY ONLY <1>3, <1>4, <1>8, <1>22, <2>1, PipeTakes, i \in 1..Len(S.pipe)
  <2>3. QED  BY <1>14, <1>15, <2>2
<1>26. BackOK(T.rtx, loc2)  BY <1>3, <1>8, <1>14, <1>15, <1>18, <1>22, BackSame
<1>27. SentOK(T.sent, loc2)  BY <1>3, <1>8, <1>14, <1>15, <1>18, <1>22, SentSame
<1>28. GotOK([g EXCEPT ![f] = g[f] \cup {e.pkt.n}], loc2)
  <2>1. loc[k].tag # "got"  BY <1>8
  <2>2. GotOK([g EXCEPT ![k[1]] = g[k[1]] \cup {k[2]}], loc2)
    BY <1>3, <1>18, <1>22, <2>1, GotGets
  <2>3. QED  BY <1>11, <2>2
<1>29. Tallied(S, T, k, loc[k], c)
  <2>1. \A u \in Uplinks, n \in PortsOut :
          /\ ~InFor(c, u, n) /\ ~InFor(loc[k], u, n)
          /\ ToFor(c, u, n) = ToFor(loc[k], u, n)
    <3>1. \A u \in Uplinks : u # Nowhere  BY NowhereIsNoQueue DEF Queues
    <3>2. QED  BY <1>8, <1>9, <1>18, <3>1 DEF InFor, ToFor
  <2>2. Uplinks \subseteq Queues /\ ToRQueues \subseteq Queues  BY DEF Queues, ToRQueues
  <2>3. /\ \A u \in Queues, t \in ToR : S.toDst[u][t] \in Int
        /\ \A u \in Queues, n \in PortsOut : S.toPort[u][n] \in Int
        /\ \A h \in Flows : S.nic[h] \in Int /\ S.flight[h] \in Int
    BY <1>4
  <2>4. T.toDst = S.toDst /\ T.toPort = S.toPort /\ T.nic = S.nic
        /\ \A h \in Flows : T.flight[h] = S.flight[h] - IF h = f THEN 1 ELSE 0
    BY <1>14, <1>15
  <2>5. QED
    BY SMTT(30), <1>8, <1>9, <1>11, <1>18, <2>1, <2>2, <2>3, <2>4 DEF Tallied, One, Flights
<1>30. Sound(T)
  <2>1. ASSUME NEW u \in Queues, NEW t \in ToR
        PROVE  T.toDst[u][t] <= S.toDst[u][t] /\ (IsNic(u) => T.toDst[u][t] = S.toDst[u][t])
    <3>1. S.toDst[u][t] \in Int  BY <1>4
    <3>2. QED  BY <1>14, <1>15, <3>1
  <2>2. ASSUME NEW u \in Queues, NEW m \in PortsOut
        PROVE  /\ T.toPort[u][m] <= S.toPort[u][m]
               /\ u \notin Uplinks => T.toPort[u][m] = S.toPort[u][m]
    <3>1. S.toPort[u][m] \in Int  BY <1>4
    <3>2. QED  BY <1>14, <1>15, <3>1
  <2>3. Windows(T.nic, T.sent, T.flight)
    <3>1. ASSUME NEW h \in Flows  PROVE T.flight[h] <= MaxInflight
      <4>1. S.flight[h] \in Int /\ MaxInflight \in Nat  BY <1>4, HbHAssumption
      <4>2. S.flight[h] <= MaxInflight  BY <1>1 DEF Sound, Windows
      <4>3. T.flight[h] = S.flight[h] - IF h = f THEN 1 ELSE 0  BY <1>14, <1>15
      <4>4. QED  BY <4>1, <4>2, <4>3
    <3>2. QED  BY <1>1, <1>14, <1>15, <3>1 DEF Sound, Windows
  <2>4. QED  BY <1>1, <1>14, <1>15, <2>1, <2>2, <2>3, SoundBelow
<1>31. Good(T, [g EXCEPT ![f] = g[f] \cup {e.pkt.n}], z)
  BY <1>2, <1>22, <1>23, <1>24, <1>25, <1>26, <1>27, <1>28, <1>29, <1>30, MoveGood
<1>32. QED  BY <1>5, <1>6, <1>11, <1>16, <1>31

-----------------------------------------------------------------------------
(* A source gives its NIC a packet *)

\* V is S without packet k in what its source has yet to send, new or again.
Taken(S, V, k, p) ==
  /\ p \in HbHPackets /\ k = Id(p) /\ V \in QueueRecords
  /\ V.held = S.held /\ V.serving = S.serving /\ V.toDst = S.toDst /\ V.toPort = S.toPort
  /\ V.waiting = S.waiting /\ V.nic = S.nic /\ V.flight = S.flight /\ V.pipe = S.pipe
  /\ \/ /\ p.n = S.sent[p.flow] + 1 /\ S.sent[p.flow] < FlowPackets[p.flow]
        /\ V.sent = [S.sent EXCEPT ![p.flow] = S.sent[p.flow] + 1] /\ V.rtx = S.rtx
     \/ /\ S.rtx[p.flow] # <<>> /\ p = Head(S.rtx[p.flow])
        /\ V.rtx = [S.rtx EXCEPT ![p.flow] = Tail(S.rtx[p.flow])] /\ V.sent = S.sent

\* The source sends the first of its lost packets again: from its list to the NIC's
\* queue.
LEMMA TakenGood ==
  ASSUME NEW S, NEW g, NEW z, Good(S, g, z), NEW V, NEW k, NEW p, Taken(S, V, k, p),
         S.nic[p.flow] < MaxNicPackets, S.flight[p.flow] < MaxInflight
  PROVE  LET T == HeldMore(NicMore(V, p.flow), Nic(SrcOf[p.flow]), p)
         IN /\ Good(T, g, z)
            /\ T.nic = [S.nic EXCEPT ![p.flow] = @ + 1]
            /\ T.flight = [S.flight EXCEPT ![p.flow] = @ + 1]
            /\ T.serving = S.serving
<1>1. S \in QueueRecords /\ Sound(S)  BY DEF Good, Sound
<1>2. PICK loc : Ledger(S, loc, g, z)  BY DEF Good
<1>3. /\ Placement(loc, z) /\ HeldOK(S.held, loc) /\ ServingOK(S.serving, loc)
      /\ PipeOK(S.pipe, loc) /\ BackOK(S.rtx, loc) /\ SentOK(S.sent, loc) /\ GotOK(g, loc)
  BY <1>2 DEF Ledger
<1>4. /\ S.held \in HeldLists /\ S.rtx \in BackLists /\ S.sent \in [Flows -> Nat]
      /\ S.toDst \in [Queues -> [ToR -> Int]] /\ S.toPort \in [Queues -> [PortsOut -> Int]]
      /\ S.nic \in [Flows -> Int] /\ S.flight \in [Flows -> Int]
  BY <1>1, RecordFields
<1>5. PICK f : f = p.flow  OBVIOUS
<1>6. PICK y : y = Nic(SrcOf[f])  OBVIOUS
<1>7. p \in HbHPackets /\ k = Id(p) /\ k = <<f, p.n>> /\ f \in Flows /\ SrcOf[f] \in ToR
  BY <1>5, PacketFacts DEF Taken, Id
<1>8. y \in Queues /\ IsNic(y)  BY <1>6, <1>7, NicIsQueue
<1>9. PICK U : U = NicMore(V, f)  OBVIOUS
<1>10. PICK T : T = HeldMore(U, y, p)  OBVIOUS
<1>11. /\ V \in QueueRecords
       /\ V.held = S.held /\ V.serving = S.serving /\ V.toDst = S.toDst /\ V.toPort = S.toPort
       /\ V.waiting = S.waiting /\ V.nic = S.nic /\ V.flight = S.flight /\ V.pipe = S.pipe
       /\ \/ /\ p.n = S.sent[f] + 1 /\ S.sent[f] < FlowPackets[f]
             /\ V.sent = [S.sent EXCEPT ![f] = S.sent[f] + 1] /\ V.rtx = S.rtx
          \/ /\ S.rtx[f] # <<>> /\ p = Head(S.rtx[f])
             /\ V.rtx = [S.rtx EXCEPT ![f] = Tail(S.rtx[f])] /\ V.sent = S.sent
  BY <1>5 DEF Taken
<1>12. /\ U \in QueueRecords
       /\ \A h \in Flows : /\ U.nic[h] = V.nic[h] + IF h = f THEN 1 ELSE 0
                           /\ U.flight[h] = V.flight[h] + IF h = f THEN 1 ELSE 0
       /\ U.held = V.held /\ U.serving = V.serving /\ U.toDst = V.toDst
       /\ U.toPort = V.toPort /\ U.waiting = V.waiting /\ U.sent = V.sent
       /\ U.rtx = V.rtx /\ U.pipe = V.pipe
  BY <1>7, <1>9, <1>11, NicMoreFields
<1>13. /\ T \in QueueRecords
       /\ T.held = [U.held EXCEPT ![y] = Append(U.held[y], p)]
       /\ T.serving = U.serving /\ T.toDst = U.toDst
       /\ T.toPort = U.toPort /\ T.waiting = U.waiting /\ T.nic = U.nic /\ T.sent = U.sent
       /\ T.flight = U.flight /\ T.rtx = U.rtx /\ T.pipe = U.pipe
  BY SMTT(30), <1>7, <1>8, <1>10, <1>12, HeldMoreFields
<1>14. /\ T.held = [S.held EXCEPT ![y] = Append(S.held[y], p)] /\ T.serving = S.serving
       /\ T.toDst = S.toDst /\ T.toPort = S.toPort /\ T.waiting = S.waiting /\ T.pipe = S.pipe
       /\ T.sent = V.sent /\ T.rtx = V.rtx
       /\ \A h \in Flows : /\ T.nic[h] = S.nic[h] + IF h = f THEN 1 ELSE 0
                           /\ T.flight[h] = S.flight[h] + IF h = f THEN 1 ELSE 0
  BY <1>11, <1>12, <1>13
<1>15. /\ k \in Ids /\ k[1] = f /\ loc[k].tag \in {"new", "back"}
       /\ loc[k].in = Nowhere /\ loc[k].to = Nowhere
  <2>1. CASE p.n = S.sent[f] + 1 /\ S.sent[f] < FlowPackets[f]
    <3>1. LET m == <<f, S.sent[f] + 1>> IN
          /\ m \in Ids /\ m[1] = f /\ loc[m] \in Place
          /\ loc[m].tag = "new" /\ loc[m].in = Nowhere /\ loc[m].to = Nowhere
      BY <1>3, <1>4, <1>7, <2>1, NewPacket
    <3>2. QED  BY <1>7, <2>1, <3>1
  <2>2. CASE S.rtx[f] # <<>> /\ p = Head(S.rtx[f])
    <3>1. LET m == Id(Head(S.rtx[f])) IN
          /\ m \in Ids /\ loc[m].tag = "back" /\ m[1] = f /\ loc[m].item = Head(S.rtx[f])
          /\ loc[m].in = Nowhere /\ loc[m].to = Nowhere
      <4>1. /\ Placement(loc, z) /\ S.rtx \in BackLists /\ BackOK(S.rtx, loc)
            /\ f \in Flows /\ S.rtx[f] # <<>>
        BY <1>3, <1>4, <1>7, <2>2
      <4>2. QED  BY ONLY <4>1, BackPacket
    <3>2. QED  BY <1>7, <2>2, <3>1
  <2>3. QED  BY <1>11, <2>1, <2>2
<1>16. PICK c : c = [tag |-> "held", at |-> y, in |-> y, to |-> Nowhere, pkt |-> p, item |-> p]
  OBVIOUS
<1>17. c.tag = "held" /\ c.at = y /\ c.in = y /\ c.to = Nowhere /\ c.item = p /\ c.pkt = p
  BY <1>16
<1>18. c \in Place  BY <1>7, <1>8, <1>16 DEF Place
<1>19. PlaceOK(k, c, z)  BY <1>6, <1>7, <1>8, <1>15, <1>17 DEF PlaceOK
<1>20. PICK loc2 : loc2 = [loc EXCEPT ![k] = c]  OBVIOUS
<1>21. Moved(loc, loc2, k, c, z)  BY <1>3, <1>15, <1>18, <1>19, <1>20 DEF Moved
<1>22. HeldOK(T.held, loc2)
  <2>1. loc[k].tag # "held"  BY <1>15
  <2>2. HeldOK([S.held EXCEPT ![y] = Append(S.held[y], p)], loc2)
    BY ONLY <1>3, <1>4, <1>7, <1>8, <1>17, <1>21, <2>1, HeldGets
  <2>3. QED  BY <1>14, <2>2
<1>23. ServingOK(T.serving, loc2)  BY <1>3, <1>14, <1>15, <1>17, <1>21, ServingSame
<1>24. PipeOK(T.pipe, loc2)  BY <1>3, <1>14, <1>15, <1>17, <1>21, PipeSame
<1>25. BackOK(T.rtx, loc2) /\ SentOK(T.sent, loc2)
  <2>1. CASE p.n = S.sent[f] + 1 /\ S.sent[f] < FlowPackets[f]
             /\ V.sent = [S.sent EXCEPT ![f] = S.sent[f] + 1] /\ V.rtx = S.rtx
    <3>1. k = <<f, S.sent[f] + 1>>  BY <1>7, <2>1
    <3>2. loc[k].tag = "new"
      <4>1. k[2] = S.sent[f] + 1 /\ S.sent[f] \in Nat  BY <1>4, <1>7, <3>1
      <4>2. QED  BY <1>3, <1>15, <4>1 DEF SentOK
    <3>3. c.tag # "new"  BY <1>17
    <3>4. SentOK([S.sent EXCEPT ![f] = S.sent[f] + 1], loc2)
      BY ONLY <1>3, <1>4, <1>7, <1>21, <3>1, <3>3, SentGets
    <3>5. BackOK(S.rtx, loc2)  BY <1>3, <1>17, <1>21, <3>2, BackSame
    <3>6. QED  BY <1>14, <2>1, <3>4, <3>5
  <2>2. CASE S.rtx[f] # <<>> /\ p = Head(S.rtx[f])
             /\ V.rtx = [S.rtx EXCEPT ![f] = Tail(S.rtx[f])] /\ V.sent = S.sent
    <3>1. loc[k].tag = "back" /\ loc[k].item = Head(S.rtx[f]) /\ c.tag # "back"
      <4>1. LET m == Id(Head(S.rtx[f])) IN
            /\ m \in Ids /\ loc[m].tag = "back" /\ m[1] = f /\ loc[m].item = Head(S.rtx[f])
        BY SMTT(30), <1>3, <1>4, <1>7, <2>2, BackPacket
      <4>2. QED  BY <1>7, <1>17, <2>2, <4>1
    <3>2. S.rtx \in BackLists /\ BackOK(S.rtx, loc) /\ f \in Flows /\ S.rtx[f] # <<>>
      BY <1>3, <1>4, <1>7, <2>2
    <3>3. k[1] = f  BY <1>15
    <3>4. BackOK([S.rtx EXCEPT ![f] = Tail(S.rtx[f])], loc2)
      BY ONLY <1>21, <3>1, <3>2, <3>3, BackTakes
    <3>5. SentOK(S.sent, loc2)  BY <1>3, <1>17, <1>21, <3>1, SentSame
    <3>6. QED  BY <1>14, <2>2, <3>4, <3>5
  <2>3. QED  BY <1>11, <2>1, <2>2
<1>26. GotOK(g, loc2)  BY <1>3, <1>15, <1>17, <1>21, GotSame
<1>27. Tallied(S, T, k, loc[k], c)
  <2>1. ASSUME NEW u \in ToRQueues, NEW t \in ToR
        PROVE  T.toDst[u][t] = S.toDst[u][t] +
                 IF DstOf[k[1]] = t THEN One(c.in = u) + One(c.to = u)
                                         - One(loc[k].in = u) - One(loc[k].to = u)
                 ELSE 0
    <3>1. u # y /\ u # Nowhere /\ S.toDst[u][t] \in Int
      BY <1>4, <1>8, NowhereIsNoQueue DEF ToRQueues
    <3>2. QED  BY <1>14, <1>15, <1>17, <3>1 DEF One
  <2>2. ASSUME NEW u \in Uplinks, NEW n \in PortsOut
        PROVE  T.toPort[u][n] = S.toPort[u][n] + One(InFor(c, u, n)) + One(ToFor(c, u, n))
                                - One(InFor(loc[k], u, n)) - One(ToFor(loc[k], u, n))
    <3>1. u \in Queues /\ u # Nowhere /\ u # y /\ S.toPort[u][n] \in Int
      <4>1. u \in Queues  BY DEF Queues
      <4>2. QED  BY <1>4, <1>8, <4>1, QueueFacts, NowhereIsNoQueue
    <3>2. /\ ~InFor(loc[k], u, n) /\ ~ToFor(c, u, n) /\ ~InFor(c, u, n)
          /\ ~ToFor(loc[k], u, n)
      BY <1>15, <1>17, <3>1 DEF InFor, ToFor
    <3>3. QED  BY <1>14, <3>1, <3>2 DEF One
  <2>3. ASSUME NEW h \in Flows
        PROVE  T.nic[h] = S.nic[h] + IF k[1] = h THEN One(c.in = Nic(SrcOf[h]))
                                                      - One(loc[k].in = Nic(SrcOf[h]))
                                     ELSE 0
    <3>1. S.nic[h] \in Int /\ T.nic[h] = S.nic[h] + IF h = f THEN 1 ELSE 0
      BY <1>4, <1>14
    <3>2. h = f => c.in = Nic(SrcOf[h]) /\ loc[k].in # Nic(SrcOf[h])
      BY <1>6, <1>8, <1>15, <1>17, NowhereIsNoQueue
    <3>3. QED  BY <1>15, <3>1, <3>2 DEF One
  <2>4. ASSUME NEW h \in Flows
        PROVE  T.flight[h] = S.flight[h] + IF k[1] = h THEN One(c.tag \in Flights)
                                                            - One(loc[k].tag \in Flights)
                                           ELSE 0
    <3>1. S.flight[h] \in Int /\ T.flight[h] = S.flight[h] + IF h = f THEN 1 ELSE 0
      BY <1>4, <1>14
    <3>2. QED  BY <1>15, <1>17, <3>1 DEF One, Flights
  <2>5. QED  BY <2>1, <2>2, <2>3, <2>4 DEF Tallied
<1>28. Sound(T)
  <2>1. Windows(T.nic, T.sent, T.flight)
    <3>1. ASSUME NEW h \in Flows
          PROVE  /\ T.nic[h] <= MaxNicPackets /\ T.flight[h] <= MaxInflight
                 /\ T.sent[h] <= FlowPackets[h]
      <4>1. /\ S.nic[h] \in Int /\ MaxNicPackets \in Nat /\ S.flight[h] \in Int
            /\ MaxInflight \in Nat /\ S.sent[h] \in Nat /\ FlowPackets[h] \in Nat
        BY <1>4, HbHAssumption
      <4>2. /\ S.nic[h] <= MaxNicPackets /\ S.flight[h] <= MaxInflight
            /\ S.sent[h] <= FlowPackets[h]
        BY <1>1 DEF Sound, Windows
      <4>3. S.nic[f] < MaxNicPackets /\ S.flight[f] < MaxInflight  BY <1>5
      <4>4. T.nic[h] <= MaxNicPackets /\ T.flight[h] <= MaxInflight
        BY <1>14, <4>1, <4>2, <4>3
      <4>5. T.sent[h] <= FlowPackets[h]
        <5>1. CASE V.sent = S.sent  BY <1>14, <4>2, <5>1
        <5>2. CASE S.sent[f] < FlowPackets[f] /\ V.sent = [S.sent EXCEPT ![f] = S.sent[f] + 1]
          <6>1. T.sent[h] = IF h = f THEN S.sent[f] + 1 ELSE S.sent[h]  BY <1>4, <1>14, <5>2
          <6>2. QED  BY <4>1, <4>2, <5>2, <6>1
        <5>3. QED  BY <1>11, <5>1, <5>2
      <4>6. QED  BY <4>4, <4>5
    <3>2. QED  BY <3>1 DEF Windows
  <2>2. QED  BY <1>1, <1>13, <1>14, <2>1 DEF Sound
<1>29. Good(T, g, z)
  BY <1>2, <1>21, <1>22, <1>23, <1>24, <1>25, <1>26, <1>27, <1>28, MoveGood
<1>30. T.nic = [S.nic EXCEPT ![f] = @ + 1] /\ T.flight = [S.flight EXCEPT ![f] = @ + 1]
  <2>1. T.nic \in [Flows -> Int] /\ T.flight \in [Flows -> Int]  BY <1>13, RecordFields
  <2>2. PICK q, r : q = [S.nic EXCEPT ![f] = S.nic[f] + 1]
                    /\ r = [S.flight EXCEPT ![f] = S.flight[f] + 1]
    OBVIOUS
  <2>3. /\ q \in [Flows -> Int] /\ r \in [Flows -> Int]
        /\ \A h \in Flows : q[h] = T.nic[h] /\ r[h] = T.flight[h]
    BY <1>4, <1>7, <1>14, <2>2
  <2>4. q = T.nic /\ r = T.flight  BY <2>1, <2>3
  <2>5. QED  BY <2>2, <2>4
<1>31. T.serving = S.serving  BY <1>14
<1>32. QED  BY <1>5, <1>6, <1>9, <1>10, <1>29, <1>30, <1>31

-----------------------------------------------------------------------------
(* Polling *)

\* Who waits for a queue changes nothing else.
LEMMA WaitingGood ==
  ASSUME NEW S, NEW g, NEW z, Good(S, g, z), NEW x \in Queues, NEW w \in Seq(Queues),
         IsInjective(w), \A i \in 1..Len(w) : MayWait(x, w[i])
  PROVE  LET T == [S EXCEPT !.waiting[x] = w] IN
         /\ Good(T, g, z) /\ Untouched(S, T) /\ T.waiting[x] = w
         /\ T.held = S.held /\ T.serving = S.serving
<1>1. S \in QueueRecords /\ Sound(S)  BY DEF Good, Sound
<1>2. PICK T : T = [S EXCEPT !.waiting[x] = w]  OBVIOUS
<1>3. PICK waiting2 : waiting2 = [S.waiting EXCEPT ![x] = w]  OBVIOUS
<1>4. S.waiting \in [Queues -> Seq(Queues)] /\ WaitingOK(S.waiting)
  BY <1>1, RecordFields DEF Sound
<1>5. waiting2 \in [Queues -> Seq(Queues)] /\ WaitingOK(waiting2) /\ waiting2[x] = w
  BY <1>3, <1>4 DEF WaitingOK
<1>6. T = [held |-> S.held, serving |-> S.serving, toDst |-> S.toDst, toPort |-> S.toPort,
           waiting |-> waiting2, nic |-> S.nic, sent |-> S.sent, flight |-> S.flight,
           rtx |-> S.rtx, pipe |-> S.pipe]
  <2>1. T = [S EXCEPT !.waiting = waiting2]  BY <1>2, <1>3
  <2>2. QED  BY <1>1, <2>1 DEF QueueRecords
<1>7. T \in QueueRecords  BY <1>1, <1>5, <1>6 DEF QueueRecords
<1>8. /\ T.held = S.held /\ T.serving = S.serving /\ T.toDst = S.toDst /\ T.toPort = S.toPort
      /\ T.waiting = waiting2 /\ T.nic = S.nic /\ T.sent = S.sent /\ T.flight = S.flight
      /\ T.rtx = S.rtx /\ T.pipe = S.pipe
  BY <1>6
<1>9. Sound(T)  BY <1>1, <1>5, <1>7, <1>8 DEF Sound
<1>10. PICK loc : Ledger(S, loc, g, z)  BY DEF Good
<1>11. Ledger(T, loc, g, z)  BY <1>8, <1>10 DEF Ledger
<1>12. QED  BY <1>2, <1>5, <1>8, <1>9, <1>11 DEF Good, Untouched, SameDown

\* A queue waits no longer.
LEMMA NoLongerGood ==
  ASSUME NEW S, NEW g, NEW z, Good(S, g, z), NEW x \in Queues, NEW y
  PROVE  Good(NoLonger(S, x, y), g, z) /\ Untouched(S, NoLonger(S, x, y))
<1>1. S \in QueueRecords /\ WaitingOK(S.waiting)  BY DEF Good, Sound
<1>2. PICK s : s = S.waiting[x]  OBVIOUS
<1>3. s \in Seq(Queues) /\ IsInjective(s) /\ \A i \in 1..Len(s) : MayWait(x, s[i])
  BY <1>1, <1>2, RecordFields DEF WaitingOK
<1>4. PICK w : w = Kept(s, Queues \ {y})  OBVIOUS
<1>5. /\ w \in Seq(Queues) /\ Len(w) \in Nat /\ Len(s) \in Nat
      /\ Members(w) = Members(s) \cap (Queues \ {y}) /\ InOrderOf(w, s)
  BY <1>3, <1>4, KeptElements
<1>6. DOMAIN w = 1..Len(w) /\ DOMAIN s = 1..Len(s)  BY <1>3, <1>5, LenProperties
<1>7. ASSUME NEW i \in 1..Len(w), NEW j \in 1..Len(w), i < j  PROVE w[i] # w[j]
  <2>1. PICK a \in 1..Len(s), b \in 1..Len(s) : a < b /\ w[i] = s[a] /\ w[j] = s[b]
    BY <1>5, <1>7 DEF InOrderOf
  <2>2. a # b  BY <2>1
  <2>3. s[a] # s[b]  BY <1>3, <1>6, <2>2 DEF IsInjective
  <2>4. QED  BY <2>1, <2>3
<1>8. IsInjective(w)
  <2>1. ASSUME NEW i \in 1..Len(w), NEW j \in 1..Len(w), w[i] = w[j]  PROVE i = j
    <3>1. ~(i < j) /\ ~(j < i)  BY <1>7, <2>1
    <3>2. i \in Int /\ j \in Int  OBVIOUS
    <3>3. QED  BY <3>1, <3>2
  <2>2. QED  BY <1>6, <2>1 DEF IsInjective
<1>9. ASSUME NEW i \in 1..Len(w)  PROVE MayWait(x, w[i])
  <2>1. w[i] \in Members(s)  BY <1>5 DEF Members
  <2>2. PICK a \in 1..Len(s) : w[i] = s[a]  BY <2>1 DEF Members
  <2>3. QED  BY <1>3, <2>2
<1>10. NoLonger(S, x, y) = [S EXCEPT !.waiting[x] = w]  BY <1>2, <1>4 DEF NoLonger
<1>11. Good([S EXCEPT !.waiting[x] = w], g, z) /\ Untouched(S, [S EXCEPT !.waiting[x] = w])
  BY <1>5, <1>8, <1>9, WaitingGood
<1>12. QED  BY <1>10, <1>11

\* A queue that waits is polled.
LEMMA PollOneGood ==
  ASSUME NEW S, NEW g, NEW x \in ToRQueues, NEW y \in Queues, MayWait(x, y),
         Good(S, g, slice), slice \in Slices
  PROVE  Good(PollOne(S, x, y), g, slice) /\ Untouched(S, PollOne(S, x, y))
<1>1. S \in QueueRecords /\ x \in Queues  BY DEF Good, Sound, ToRQueues
<1>2. PICK U : U = IF S.serving[y] = <<>> THEN Extract(S, x, y) ELSE S  OBVIOUS
<1>3. ASSUME Connected(x, y)  PROVE Good(U, g, slice) /\ Untouched(S, U)
  <2>1. CASE U = S  BY <2>1 DEF Untouched, SameDown
  <2>2. CASE U # S
    <3>1. S.serving[y] = <<>> /\ U = Extract(S, x, y)  BY <1>2, <2>2
    <3>2. PICK i \in 1..Len(S.held[y]) :
            Accepts(S, x, y, S.held[y][i]) /\ U = Chosen(S, x, y, i)
      BY <1>1, <2>2, <3>1, ExtractForm
    <3>3. ~IsDown(y) /\ (IsNic(y) => y[1] = x[1])  BY DEF MayWait
    <3>4. Good(Chosen(S, x, y, i), g, slice) /\ Untouched(S, Chosen(S, x, y, i))
      BY <1>3, <3>1, <3>2, <3>3, ChosenGood
    <3>5. QED  BY <3>2, <3>4
  <2>3. QED  BY <2>1, <2>2
<1>4. PollOne(S, x, y) = IF ~Connected(x, y) THEN NoLonger(S, x, y)
                         ELSE IF U = S THEN S ELSE NoLonger(U, x, y)
  BY <1>2 DEF PollOne
<1>5. CASE ~Connected(x, y)  BY <1>1, <1>4, <1>5, NoLongerGood
<1>6. CASE Connected(x, y)
  <2>1. CASE U = S  BY <1>4, <1>6, <2>1 DEF Untouched, SameDown
  <2>2. CASE U # S
    <3>1. PollOne(S, x, y) = NoLonger(U, x, y)  BY <1>4, <1>6, <2>2
    <3>2. Good(U, g, slice) /\ Untouched(S, U)  BY <1>3, <1>6
    <3>3. Good(NoLonger(U, x, y), g, slice) /\ Untouched(U, NoLonger(U, x, y))
      BY <1>1, <3>2, NoLongerGood
    <3>4. QED  BY <3>1, <3>2, <3>3 DEF Untouched, SameDown
  <2>3. QED  BY <2>1, <2>2
<1>7. QED  BY <1>5, <1>6

\* The records that polling may lead to.
After(S, g) == {T \in QueueRecords : Good(T, g, slice) /\ Untouched(S, T)}

\* Polling one queue leaves every packet where it was, except one that may start its
\* service: the state stays good and the windows are those before.
LEMMA PollGood ==
  ASSUME NEW S, NEW g, NEW x \in ToRQueues, Good(S, g, slice), slice \in Slices
  PROVE  Good(Poll(S, x), g, slice) /\ Untouched(S, Poll(S, x))
<1> DEFINE w == S.waiting[x]
           n == Len(w)
           A == After(S, g)
           Equation(f) == f = [I \in SUBSET (1..n) |->
                                 IF I = {} THEN S ELSE PollOne(f[I \ {Max(I)}], x, w[Max(I)])]
           iter == CHOOSE f : Equation(f)
           step == [a \in (1..n) \X A |-> PollOne(a[2], x, w[a[1]])]
<1>1. S \in QueueRecords /\ WaitingOK(S.waiting) /\ x \in Queues
  BY DEF Good, Sound, ToRQueues
<1>2. w \in Seq(Queues) /\ n \in Nat /\ \A i \in 1..n : w[i] \in Queues /\ MayWait(x, w[i])
  <2>1. w \in Seq(Queues)  BY <1>1, RecordFields
  <2>2. \A i \in 1..n : MayWait(x, w[i])  BY <1>1 DEF WaitingOK
  <2> HIDE DEF w
  <2>3. QED  BY <2>1, <2>2, LenProperties, ElementOfSeq
<1>3. S \in A  BY <1>1 DEF After, Untouched, SameDown
<1>4. Poll(S, x) = iter[1..n]
  <2>1. DOMAIN w = 1..n  BY <1>2, LenProperties
  <2>2. QED  BY <2>1 DEF Poll, FoldLeft, MapThenFoldSet
<1> HIDE DEF n, w, A
<1>5. ASSUME NEW U \in A, NEW i \in 1..n  PROVE PollOne(U, x, w[i]) \in A
  <2>1. PICK V : V = PollOne(U, x, w[i])  OBVIOUS
  <2>2. Good(U, g, slice) /\ Untouched(S, U)  BY <1>5 DEF A, After
  <2>3. Good(V, g, slice) /\ Untouched(U, V)  BY <1>2, <2>1, <2>2, PollOneGood
  <2>4. V \in QueueRecords  BY <2>3 DEF Good, Sound
  <2>5. QED  BY <2>1, <2>2, <2>3, <2>4 DEF A, After, Untouched, SameDown
<1>6. step \in Steps(A, n)
  <2>1. ASSUME NEW a \in (1..n) \X A  PROVE PollOne(a[2], x, w[a[1]]) \in A
    <3>1. a[1] \in 1..n /\ a[2] \in A  OBVIOUS
    <3>2. QED  BY <1>5, <3>1
  <2>2. QED  BY <2>1 DEF Steps
<1>7. PICK h : StatesOf(h, A, n, S, step)
  <2> HIDE DEF step
  <2>1. QED  BY <1>2, <1>3, <1>6, FoldSolved
<1>8. ASSUME NEW I \in SUBSET (1..n), I # {}
      PROVE  h[I] = PollOne(h[I \ {Max(I)}], x, w[Max(I)])
  <2>1. /\ Max(I) \in 1..n /\ h[I \ {Max(I)}] \in A
        /\ h[I] = step[<<Max(I), h[I \ {Max(I)}]>>]
    BY <1>7, <1>8 DEF StatesOf
  <2>2. QED  BY <2>1
<1>9. Equation(h)
  <2>1. h = [I \in SUBSET (1..n) |-> h[I]] /\ h[{}] = S  BY <1>7 DEF StatesOf
  <2>2. QED  BY <1>8, <2>1
<1>10. Equation(iter)  BY <1>9
<1> HIDE DEF iter
<1>11. iter[1..n] = h[1..n]
  <2>1. iter[{}] = h[{}]
    <3>1. {} \in SUBSET (1..n)  OBVIOUS
    <3>2. h[{}] = S  BY <1>7 DEF StatesOf
    <3>3. QED  BY <1>10, <3>1, <3>2
  <2>2. ASSUME NEW I \in SUBSET (1..n), I # {}, iter[I \ {Max(I)}] = h[I \ {Max(I)}]
        PROVE  iter[I] = h[I]
    BY <1>8, <1>10, <2>2
  <2> HIDE DEF Equation
  <2>3. QED  BY <1>2, <2>1, <2>2, SameFold
<1>12. h[1..n] \in A
  <2>1. 1..n \in SUBSET (1..n)  OBVIOUS
  <2>2. QED  BY <1>7, <2>1 DEF StatesOf
<1>13. QED  BY <1>4, <1>11, <1>12 DEF A, After

\* The next queue of a packet is one, and may have the queue of the packet wait.
LEMMA NextQueueFacts ==
  ASSUME NEW p \in HbHPackets, NEW y \in Queues, ~IsDown(y), slice \in Slices,
         NextQueue(p, y) # <<>>
  PROVE  NextQueue(p, y) \in ToRQueues /\ MayWait(NextQueue(p, y), y)
<1>1. PICK t : t = IF IsNic(y) THEN y[1] ELSE Peer[slice][y[1]][y[2]]  OBVIOUS
<1>2. t # NoToR /\ NextQueue(p, y) = <<t, NextPort(p, y)>>  BY <1>1 DEF NextQueue
<1>3. NextPort(p, y) \in PortsOut
  <2>1. PICK q : q = Placed(p, y)  OBVIOUS
  <2>2. q \in HbHPackets /\ NextPort(p, y) = PortAt(q, q.hop + 1)
    <3>1. LET m == Placed(p, y) IN m \in HbHPackets /\ NextPort(p, y) = PortAt(m, m.hop + 1)
      BY PlacedFacts
    <3>2. QED  BY <2>1, <3>1
  <2>3. QED  BY <2>2, PacketFacts
<1>4. t \in ToR
  <2>1. CASE IsNic(y)  BY <1>1, <2>1, QueueFacts
  <2>2. CASE ~IsNic(y)
    <3>1. y[1] \in ToR /\ y[2] \in Port  BY <2>2, QueueFacts
    <3>2. Peer[slice][y[1]][y[2]] \in ToR \cup {NoToR}  BY <3>1, HbHAssumption
    <3>3. QED  BY <1>1, <1>2, <2>2, <3>2
  <2>3. QED  BY <2>1, <2>2
<1>5. NextQueue(p, y) \in ToRQueues /\ NextQueue(p, y)[1] = t  BY <1>2, <1>3, <1>4, QueueOf
<1>6. IsNic(y) => y[1] = NextQueue(p, y)[1]  BY <1>1, <1>5
<1>7. QED  BY <1>5, <1>6 DEF MayWait

\* A queue asks to be polled.
LEMMA PollMeGood ==
  ASSUME NEW S, NEW g, NEW x \in ToRQueues, NEW y \in Queues, MayWait(x, y),
         Good(S, g, slice), slice \in Slices
  PROVE  Good(PollMe(S, x, y), g, slice) /\ Untouched(S, PollMe(S, x, y))
<1>1. S \in QueueRecords /\ WaitingOK(S.waiting) /\ x \in Queues
  BY DEF Good, Sound, ToRQueues
<1>2. PICK s : s = S.waiting[x]  OBVIOUS
<1>3. s \in Seq(Queues) /\ IsInjective(s) /\ \A i \in 1..Len(s) : MayWait(x, s[i])
  BY <1>1, <1>2, RecordFields DEF WaitingOK
<1>4. Len(s) \in Nat /\ DOMAIN s = 1..Len(s)  BY <1>3, LenProperties
<1>5. PICK w : w = IF Contains(s, y) THEN s ELSE Append(s, y)  OBVIOUS
<1>6. w \in Seq(Queues) /\ IsInjective(w) /\ \A i \in 1..Len(w) : MayWait(x, w[i])
  <2>1. CASE Contains(s, y)  BY <1>3, <1>5, <2>1
  <2>2. CASE ~Contains(s, y)
    <3>1. /\ w \in Seq(Queues) /\ Len(w) = Len(s) + 1
          /\ \A i \in 1..Len(s) : w[i] = s[i]
          /\ w[Len(s) + 1] = y
      BY <1>3, <1>5, <2>2, AppendProperties
    <3>2. DOMAIN w = 1..(Len(s) + 1)  BY <3>1, LenProperties
    <3>3. \A i \in 1..(Len(s) + 1) : i \in 1..Len(s) \/ i = Len(s) + 1  BY <1>4
    <3>4. \A i \in 1..Len(s) : s[i] # y
      <4>1. Contains(s, y) <=> \E i \in 1..Len(s) : s[i] = y  BY DEF Contains
      <4>2. QED  BY <2>2, <4>1
    <3>5. ASSUME NEW i \in 1..(Len(s) + 1), NEW j \in 1..(Len(s) + 1), w[i] = w[j]
          PROVE  i = j
      <4>1. CASE i \in 1..Len(s) /\ j \in 1..Len(s)
        <5>1. s[i] = s[j]  BY <3>1, <3>5, <4>1
        <5>2. QED  BY <1>3, <1>4, <4>1, <5>1 DEF IsInjective
      <4>2. CASE i = Len(s) + 1 /\ j \in 1..Len(s)  BY <3>1, <3>4, <3>5, <4>2
      <4>3. CASE i \in 1..Len(s) /\ j = Len(s) + 1  BY <3>1, <3>4, <3>5, <4>3
      <4>4. QED  BY <3>3, <4>1, <4>2, <4>3
    <3>6. IsInjective(w)  BY <3>2, <3>5 DEF IsInjective
    <3>7. ASSUME NEW i \in 1..Len(w)  PROVE MayWait(x, w[i])
      <4>1. CASE i \in 1..Len(s)  BY <1>3, <3>1, <4>1
      <4>2. CASE i = Len(s) + 1  BY <3>1, <4>2
      <4>3. QED  BY <3>1, <3>3, <4>1, <4>2
    <3>8. QED  BY <3>1, <3>6, <3>7
  <2>3. QED  BY <2>1, <2>2
<1>7. PICK T : T = [S EXCEPT !.waiting[x] = w]  OBVIOUS
<1>8. Good(T, g, slice) /\ Untouched(S, T)  BY <1>1, <1>6, <1>7, WaitingGood
<1>9. Good(Poll(T, x), g, slice) /\ Untouched(T, Poll(T, x))  BY <1>8, PollGood
<1>10. PollMe(S, x, y) = Poll(T, x)
  <2>1. T = [S EXCEPT !.waiting[x] = IF Contains(@, y) THEN @ ELSE Append(@, y)]
    <3>1. S.waiting \in [Queues -> Seq(Queues)]  BY <1>1, RecordFields
    <3>2. QED  BY <1>1, <1>2, <1>5, <1>7, <3>1
  <2>2. QED  BY <2>1 DEF PollMe
<1>11. QED  BY <1>8, <1>9, <1>10 DEF Untouched, SameDown

\* Polling one of the queues that wait for a queue keeps the state good.
LEMMA PollForGood ==
  ASSUME NEW S, NEW g, NEW y \in Queues, ~IsDown(y), NEW p \in HbHPackets,
         Good(S, g, slice), slice \in Slices
  PROVE  Good(PollFor(S, y, p), g, slice) /\ Untouched(S, PollFor(S, y, p))
<1>1. CASE S.serving[y] # <<>> \/ NextQueue(p, y) = <<>>
  BY <1>1 DEF PollFor, Untouched, SameDown
<1>2. CASE ~(S.serving[y] # <<>> \/ NextQueue(p, y) = <<>>)
  <2>1. PICK x : x = NextQueue(p, y)  OBVIOUS
  <2>2. x \in ToRQueues /\ MayWait(x, y)  BY <1>2, <2>1, NextQueueFacts
  <2>3. PollFor(S, y, p) = PollMe(S, x, y)  BY <1>2, <2>1 DEF PollFor
  <2>4. Good(PollMe(S, x, y), g, slice) /\ Untouched(S, PollMe(S, x, y))
    BY <2>2, PollMeGood
  <2>5. QED  BY <2>3, <2>4
<1>3. QED  BY <1>1, <1>2

\* So does polling all of them, one after the other.
LEMMA PollAllGood ==
  ASSUME NEW S, NEW g, NEW y \in Queues, ~IsDown(y), Good(S, g, slice), slice \in Slices
  PROVE  Good(PollAll(S, y), g, slice) /\ Untouched(S, PollAll(S, y))
<1> DEFINE w == S.held[y]
           n == Len(w)
           A == After(S, g)
           Equation(f) == f = [I \in SUBSET (1..n) |->
                                 IF I = {} THEN S ELSE PollFor(f[I \ {Max(I)}], y, w[Max(I)])]
           iter == CHOOSE f : Equation(f)
           step == [a \in (1..n) \X A |-> PollFor(a[2], y, w[a[1]])]
<1>1. S \in QueueRecords  BY DEF Good, Sound
<1>2. w \in Seq(HbHPackets) /\ n \in Nat /\ \A i \in 1..n : w[i] \in HbHPackets
  <2>1. w \in Seq(HbHPackets)  BY <1>1, RecordFields DEF HeldLists
  <2> HIDE DEF w
  <2>2. QED  BY <2>1, LenProperties, ElementOfSeq
<1>3. S \in A  BY <1>1 DEF After, Untouched, SameDown
<1>4. PollAll(S, y) = iter[1..n]
  <2>1. DOMAIN w = 1..n  BY <1>2, LenProperties
  <2>2. QED  BY <2>1 DEF PollAll, FoldLeft, MapThenFoldSet
<1> HIDE DEF n, w, A
<1>5. ASSUME NEW U \in A, NEW i \in 1..n  PROVE PollFor(U, y, w[i]) \in A
  <2>1. PICK V : V = PollFor(U, y, w[i])  OBVIOUS
  <2>2. Good(U, g, slice) /\ Untouched(S, U)  BY <1>5 DEF A, After
  <2>3. Good(V, g, slice) /\ Untouched(U, V)  BY <1>2, <2>1, <2>2, PollForGood
  <2>4. V \in QueueRecords  BY <2>3 DEF Good, Sound
  <2>5. QED  BY <2>1, <2>2, <2>3, <2>4 DEF A, After, Untouched, SameDown
<1>6. step \in Steps(A, n)
  <2>1. ASSUME NEW a \in (1..n) \X A  PROVE PollFor(a[2], y, w[a[1]]) \in A
    <3>1. a[1] \in 1..n /\ a[2] \in A  OBVIOUS
    <3>2. QED  BY <1>5, <3>1
  <2>2. QED  BY <2>1 DEF Steps
<1>7. PICK h : StatesOf(h, A, n, S, step)
  <2> HIDE DEF step
  <2>1. QED  BY <1>2, <1>3, <1>6, FoldSolved
<1>8. ASSUME NEW I \in SUBSET (1..n), I # {}
      PROVE  h[I] = PollFor(h[I \ {Max(I)}], y, w[Max(I)])
  <2>1. /\ Max(I) \in 1..n /\ h[I \ {Max(I)}] \in A
        /\ h[I] = step[<<Max(I), h[I \ {Max(I)}]>>]
    BY <1>7, <1>8 DEF StatesOf
  <2>2. QED  BY <2>1
<1>9. Equation(h)
  <2>1. h = [I \in SUBSET (1..n) |-> h[I]] /\ h[{}] = S  BY <1>7 DEF StatesOf
  <2>2. QED  BY <1>8, <2>1
<1>10. Equation(iter)  BY <1>9
<1> HIDE DEF iter
<1>11. iter[1..n] = h[1..n]
  <2>1. iter[{}] = h[{}]
    <3>1. {} \in SUBSET (1..n)  OBVIOUS
    <3>2. h[{}] = S  BY <1>7 DEF StatesOf
    <3>3. QED  BY <1>10, <3>1, <3>2
  <2>2. ASSUME NEW I \in SUBSET (1..n), I # {}, iter[I \ {Max(I)}] = h[I \ {Max(I)}]
        PROVE  iter[I] = h[I]
    BY <1>8, <1>10, <2>2
  <2> HIDE DEF Equation
  <2>3. QED  BY <1>2, <2>1, <2>2, SameFold
<1>12. h[1..n] \in A
  <2>1. 1..n \in SUBSET (1..n)  OBVIOUS
  <2>2. QED  BY <1>7, <2>1 DEF StatesOf
<1>13. QED  BY <1>4, <1>11, <1>12 DEF A, After

-----------------------------------------------------------------------------
(* Sources *)

\* The source of f gave its NIC a packet.
OneMore(S, T, f) ==
  /\ T.nic = [S.nic EXCEPT ![f] = @ + 1]
  /\ T.flight = [S.flight EXCEPT ![f] = @ + 1]
  /\ SameDown(S, T)

\* The NIC has the packet, and is polled if it is idle.
AtNic(V, p) ==
  LET y == Nic(SrcOf[p.flow])
      T == HeldMore(NicMore(V, p.flow), y, p)
  IN IF T.serving[y] = <<>> THEN PollMe(T, NextQueue(p, y), y) ELSE T

\* A packet put in the NIC's queue is polled if the NIC is idle, and the state stays
\* good.
LEMMA AtNicGood ==
  ASSUME NEW S, NEW g, Good(S, g, slice), slice \in Slices, NEW V, NEW k, NEW p,
         Taken(S, V, k, p), S.nic[p.flow] < MaxNicPackets, S.flight[p.flow] < MaxInflight
  PROVE  Good(AtNic(V, p), g, slice) /\ OneMore(S, AtNic(V, p), p.flow)
<1>1. PICK y : y = Nic(SrcOf[p.flow])  OBVIOUS
<1>2. PICK T : T = HeldMore(NicMore(V, p.flow), y, p)  OBVIOUS
<1>3. Good(T, g, slice) /\ OneMore(S, T, p.flow)
  <2>1. LET U == HeldMore(NicMore(V, p.flow), Nic(SrcOf[p.flow]), p)
        IN /\ Good(U, g, slice)
           /\ U.nic = [S.nic EXCEPT ![p.flow] = @ + 1]
           /\ U.flight = [S.flight EXCEPT ![p.flow] = @ + 1]
           /\ U.serving = S.serving
    BY TakenGood
  <2>2. QED  BY <1>1, <1>2, <2>1 DEF OneMore, SameDown
<1>4. AtNic(V, p) = IF T.serving[y] = <<>> THEN PollMe(T, NextQueue(p, y), y) ELSE T
  BY <1>1, <1>2 DEF AtNic
<1>5. CASE T.serving[y] # <<>>  BY <1>3, <1>4, <1>5
<1>6. CASE T.serving[y] = <<>>
  <2>1. p \in HbHPackets /\ SrcOf[p.flow] \in ToR  BY PacketFacts DEF Taken
  <2>2. y \in Queues /\ IsNic(y) /\ y[1] \in ToR  BY <1>1, <2>1, NicIsQueue
  <2>3. ~IsDown(y)  BY <2>2, QueueFacts
  <2>4. NextQueue(p, y) # <<>>
    <3>1. NoToR \notin ToR  BY HbHAssumption
    <3>2. NextQueue(p, y) = <<y[1], NextPort(p, y)>>  BY <2>2, <3>1 DEF NextQueue
    <3>3. <<y[1], NextPort(p, y)>> # <<>>  OBVIOUS
    <3>4. QED  BY <3>2, <3>3
  <2>5. PICK x : x = NextQueue(p, y)  OBVIOUS
  <2>6. x \in ToRQueues /\ MayWait(x, y)  BY <2>1, <2>2, <2>3, <2>4, <2>5, NextQueueFacts
  <2>7. Good(PollMe(T, x, y), g, slice) /\ Untouched(T, PollMe(T, x, y))
    BY <1>3, <2>2, <2>6, PollMeGood
  <2>8. QED  BY <1>3, <1>4, <1>6, <2>5, <2>7 DEF OneMore, Untouched, SameDown
<1>7. QED  BY <1>5, <1>6

\* Sending a lost packet again keeps the state good, with room at the NIC.
LEMMA SendLostGood ==
  ASSUME NEW S, NEW g, Good(S, g, slice), slice \in Slices, NEW f \in Flows,
         S.nic[f] < MaxNicPackets, S.flight[f] < MaxInflight, S.rtx[f] # <<>>
  PROVE  Good(SendLost(S, f), g, slice) /\ OneMore(S, SendLost(S, f), f)
<1>1. S \in QueueRecords  BY DEF Good, Sound
<1>2. PICK p : p = Head(S.rtx[f])  OBVIOUS
<1>3. PICK loc : Ledger(S, loc, g, slice)  BY DEF Good
<1>4. p \in HbHPackets /\ p.flow = f
  <2>1. Placement(loc, slice) /\ BackOK(S.rtx, loc) /\ S.rtx \in BackLists
    BY <1>1, <1>3, RecordFields DEF Ledger
  <2>2. LET m == Id(Head(S.rtx[f])) IN
        Head(S.rtx[f]) \in HbHPackets /\ Head(S.rtx[f]).flow = f
    BY <2>1, BackPacket
  <2>3. QED  BY <1>2, <2>2
<1>5. PICK V : V = BackLess(S, f)  OBVIOUS
<1>6. /\ V \in QueueRecords /\ V.rtx = [S.rtx EXCEPT ![f] = Tail(S.rtx[f])]
      /\ V.held = S.held /\ V.serving = S.serving /\ V.toDst = S.toDst
      /\ V.toPort = S.toPort /\ V.waiting = S.waiting /\ V.nic = S.nic /\ V.sent = S.sent
      /\ V.flight = S.flight /\ V.pipe = S.pipe
  BY <1>1, <1>5, BackLessFields
<1>7. Taken(S, V, Id(p), p)  BY <1>2, <1>4, <1>6 DEF Taken
<1>8. PICK k : k = Id(p)  OBVIOUS
<1>9. Good(AtNic(V, p), g, slice) /\ OneMore(S, AtNic(V, p), p.flow)
  BY <1>4, <1>7, <1>8, AtNicGood
<1>10. PICK y : y = Nic(SrcOf[p.flow])  OBVIOUS
<1>11. PICK T : T = HeldMore(NicMore(V, p.flow), y, p)  OBVIOUS
<1>12. PICK W : W = [S EXCEPT !.rtx[f] = Tail(@), !.flight[f] = @ + 1]  OBVIOUS
<1>13. PICK X : X = [W EXCEPT !.held[Nic(SrcOf[p.flow])] = Append(@, p), !.nic[p.flow] = @ + 1]
  OBVIOUS
<1>14. X = T
  <2>1. PICK rtx2, flight2, nic2, held2 :
          /\ rtx2 = [S.rtx EXCEPT ![f] = Tail(S.rtx[f])]
          /\ flight2 = [S.flight EXCEPT ![f] = S.flight[f] + 1]
          /\ nic2 = [S.nic EXCEPT ![f] = S.nic[f] + 1]
          /\ held2 = [S.held EXCEPT ![y] = Append(S.held[y], p)]
    OBVIOUS
  <2>2. W = [held |-> S.held, serving |-> S.serving, toDst |-> S.toDst, toPort |-> S.toPort,
             waiting |-> S.waiting, nic |-> S.nic, sent |-> S.sent, flight |-> flight2,
             rtx |-> rtx2, pipe |-> S.pipe]
    <3>1. W = [S EXCEPT !.rtx = rtx2, !.flight = flight2]  BY <1>12, <2>1
    <3>2. QED  BY <1>1, <3>1 DEF QueueRecords
  <2>3. X = [held |-> held2, serving |-> S.serving, toDst |-> S.toDst, toPort |-> S.toPort,
             waiting |-> S.waiting, nic |-> nic2, sent |-> S.sent, flight |-> flight2,
             rtx |-> rtx2, pipe |-> S.pipe]
    <3>1. W.held = S.held /\ W.nic = S.nic  BY <2>2
    <3>2. X = [W EXCEPT !.held = held2, !.nic = nic2]
      BY <1>4, <1>10, <1>13, <2>1, <3>1
    <3>3. QED  BY <2>2, <3>2
  <2>4. V = [held |-> S.held, serving |-> S.serving, toDst |-> S.toDst, toPort |-> S.toPort,
             waiting |-> S.waiting, nic |-> S.nic, sent |-> S.sent, flight |-> S.flight,
             rtx |-> rtx2, pipe |-> S.pipe]
    <3>1. V = [S EXCEPT !.rtx = rtx2]  BY <1>5, <2>1 DEF BackLess
    <3>2. QED  BY <1>1, <3>1 DEF QueueRecords
  <2>5. NicMore(V, p.flow) =
        [held |-> S.held, serving |-> S.serving, toDst |-> S.toDst, toPort |-> S.toPort,
             waiting |-> S.waiting, nic |-> nic2, sent |-> S.sent, flight |-> flight2,
             rtx |-> rtx2, pipe |-> S.pipe]
    <3>1. V.nic = S.nic /\ V.flight = S.flight  BY <2>4
    <3>2. NicMore(V, p.flow) = [V EXCEPT !.nic = nic2, !.flight = flight2]
      BY ZenonT(60), <1>4, <2>1, <3>1 DEF NicMore
    <3>3. QED  BY <2>4, <3>2
  <2>6. T = [held |-> held2, serving |-> S.serving, toDst |-> S.toDst, toPort |-> S.toPort,
             waiting |-> S.waiting, nic |-> nic2, sent |-> S.sent, flight |-> flight2,
             rtx |-> rtx2, pipe |-> S.pipe]
    <3>1. PICK U : U = NicMore(V, p.flow)  OBVIOUS
    <3>2. U.held = S.held  BY <2>5, <3>1
    <3>3. T = [U EXCEPT !.held = held2]  BY <1>11, <2>1, <3>1, <3>2 DEF HeldMore
    <3>4. QED  BY <2>5, <3>1, <3>3
  <2>7. QED  BY <2>3, <2>6
<1>15. SendLost(S, f) = AtNic(V, p)
  <2>1. SendLost(S, f) = NicReceive(W, p)  BY <1>2, <1>12 DEF SendLost
  <2>2. NicReceive(W, p) = IF X.serving[y] = <<>> THEN PollMe(X, NextQueue(p, y), y) ELSE X
    BY <1>10, <1>13 DEF NicReceive
  <2>3. QED  BY <1>10, <1>11, <1>14, <2>1, <2>2 DEF AtNic
<1>16. QED  BY <1>4, <1>9, <1>15

\* So does sending the flow's next packet.
LEMMA SendNewGood ==
  ASSUME NEW S, NEW g, Good(S, g, slice), slice \in Slices, NEW f \in Flows,
         S.nic[f] < MaxNicPackets, S.flight[f] < MaxInflight, S.sent[f] < FlowPackets[f]
  PROVE  Good(SendNew(S, f), g, slice) /\ OneMore(S, SendNew(S, f), f)
<1>1. S \in QueueRecords  BY DEF Good, Sound
<1>2. PICK p : p = [flow |-> f, n |-> S.sent[f] + 1, slice |-> 0, hop |-> -1]  OBVIOUS
<1>3. p \in HbHPackets /\ p.flow = f /\ p.n = S.sent[f] + 1
  <2>1. S.sent[f] \in Nat  BY <1>1, RecordFields
  <2>2. 0 \in Slices  BY HbHAssumption DEF Slices
  <2>3. QED  BY <1>2, <2>1, <2>2 DEF HbHPackets
<1>4. PICK V : V = SentMore(S, f)  OBVIOUS
<1>5. /\ V \in QueueRecords /\ V.sent = [S.sent EXCEPT ![f] = S.sent[f] + 1]
      /\ V.held = S.held /\ V.serving = S.serving /\ V.toDst = S.toDst
      /\ V.toPort = S.toPort /\ V.waiting = S.waiting /\ V.nic = S.nic
      /\ V.flight = S.flight /\ V.rtx = S.rtx /\ V.pipe = S.pipe
  BY <1>1, <1>4, SentMoreFields
<1>6. Taken(S, V, Id(p), p)  BY <1>3, <1>5 DEF Taken
<1>7. PICK k : k = Id(p)  OBVIOUS
<1>8. Good(AtNic(V, p), g, slice) /\ OneMore(S, AtNic(V, p), p.flow)
  BY <1>3, <1>6, <1>7, AtNicGood
<1>9. PICK y : y = Nic(SrcOf[p.flow])  OBVIOUS
<1>10. PICK T : T = HeldMore(NicMore(V, p.flow), y, p)  OBVIOUS
<1>11. PICK W : W = [S EXCEPT !.sent[f] = @ + 1, !.flight[f] = @ + 1]  OBVIOUS
<1>12. PICK X : X = [W EXCEPT !.held[Nic(SrcOf[p.flow])] = Append(@, p), !.nic[p.flow] = @ + 1]
  OBVIOUS
<1>13. X = T
  <2>1. PICK sent2, flight2, nic2, held2 :
          /\ sent2 = [S.sent EXCEPT ![f] = S.sent[f] + 1]
          /\ flight2 = [S.flight EXCEPT ![f] = S.flight[f] + 1]
          /\ nic2 = [S.nic EXCEPT ![f] = S.nic[f] + 1]
          /\ held2 = [S.held EXCEPT ![y] = Append(S.held[y], p)]
    OBVIOUS
  <2>2. W = [held |-> S.held, serving |-> S.serving, toDst |-> S.toDst, toPort |-> S.toPort,
             waiting |-> S.waiting, nic |-> S.nic, sent |-> sent2, flight |-> flight2,
             rtx |-> S.rtx, pipe |-> S.pipe]
    <3>1. W = [S EXCEPT !.sent = sent2, !.flight = flight2]  BY <1>11, <2>1
    <3>2. QED  BY <1>1, <3>1 DEF QueueRecords
  <2>3. X = [held |-> held2, serving |-> S.serving, toDst |-> S.toDst, toPort |-> S.toPort,
             waiting |-> S.waiting, nic |-> nic2, sent |-> sent2, flight |-> flight2,
             rtx |-> S.rtx, pipe |-> S.pipe]
    <3>1. W.held = S.held /\ W.nic = S.nic  BY <2>2
    <3>2. X = [W EXCEPT !.held = held2, !.nic = nic2]
      BY <1>3, <1>9, <1>12, <2>1, <3>1
    <3>3. QED  BY <2>2, <3>2
  <2>4. V = [held |-> S.held, serving |-> S.serving, toDst |-> S.toDst, toPort |-> S.toPort,
             waiting |-> S.waiting, nic |-> S.nic, sent |-> sent2, flight |-> S.flight,
             rtx |-> S.rtx, pipe |-> S.pipe]
    <3>1. V = [S EXCEPT !.sent = sent2]  BY <1>4, <2>1 DEF SentMore
    <3>2. QED  BY <1>1, <3>1 DEF QueueRecords
  <2>5. NicMore(V, p.flow) =
        [held |-> S.held, serving |-> S.serving, toDst |-> S.toDst, toPort |-> S.toPort,
             waiting |-> S.waiting, nic |-> nic2, sent |-> sent2, flight |-> flight2,
             rtx |-> S.rtx, pipe |-> S.pipe]
    <3>1. V.nic = S.nic /\ V.flight = S.flight  BY <2>4
    <3>2. NicMore(V, p.flow) = [V EXCEPT !.nic = nic2, !.flight = flight2]
      BY ZenonT(60), <1>3, <2>1, <3>1 DEF NicMore
    <3>3. QED  BY <2>4, <3>2
  <2>6. T = [held |-> held2, serving |-> S.serving, toDst |-> S.toDst, toPort |-> S.toPort,
             waiting |-> S.waiting, nic |-> nic2, sent |-> sent2, flight |-> flight2,
             rtx |-> S.rtx, pipe |-> S.pipe]
    <3>1. PICK U : U = NicMore(V, p.flow)  OBVIOUS
    <3>2. U.held = S.held  BY <2>5, <3>1
    <3>3. T = [U EXCEPT !.held = held2]  BY <1>10, <2>1, <3>1, <3>2 DEF HeldMore
    <3>4. QED  BY <2>5, <3>1, <3>3
  <2>7. QED  BY <2>3, <2>6
<1>14. SendNew(S, f) = AtNic(V, p)
  <2>1. SendNew(S, f) = NicReceive(W, p)  BY <1>2, <1>11 DEF SendNew
  <2>2. NicReceive(W, p) = IF X.serving[y] = <<>> THEN PollMe(X, NextQueue(p, y), y) ELSE X
    BY <1>9, <1>12 DEF NicReceive
  <2>3. QED  BY <1>9, <1>10, <1>13, <2>1, <2>2 DEF AtNic
<1>15. QED  BY <1>3, <1>8, <1>14

\* So does each turn of the source's loops, whether it sends or not.
LEMMA TrySendGood ==
  ASSUME NEW S, NEW g, Good(S, g, slice), slice \in Slices, NEW f \in Flows
  PROVE  /\ Good(TrySendLost(S, f), g, slice) /\ SameDown(S, TrySendLost(S, f))
         /\ Good(TrySendNew(S, f), g, slice) /\ SameDown(S, TrySendNew(S, f))
<1>1. Good(TrySendLost(S, f), g, slice) /\ SameDown(S, TrySendLost(S, f))
  <2>1. CASE MaySend(S, f) /\ S.rtx[f] # <<>>
    <3>1. S.nic[f] < MaxNicPackets /\ S.flight[f] < MaxInflight  BY <2>1 DEF MaySend
    <3>2. Good(SendLost(S, f), g, slice) /\ SameDown(S, SendLost(S, f))
      BY <2>1, <3>1, SendLostGood DEF OneMore
    <3>3. QED  BY <2>1, <3>2 DEF TrySendLost
  <2>2. CASE ~(MaySend(S, f) /\ S.rtx[f] # <<>>)  BY <2>2 DEF TrySendLost, SameDown
  <2>3. QED  BY <2>1, <2>2
<1>2. Good(TrySendNew(S, f), g, slice) /\ SameDown(S, TrySendNew(S, f))
  <2>1. CASE MaySend(S, f) /\ S.sent[f] < FlowPackets[f]
    <3>1. S.nic[f] < MaxNicPackets /\ S.flight[f] < MaxInflight  BY <2>1 DEF MaySend
    <3>2. Good(SendNew(S, f), g, slice) /\ SameDown(S, SendNew(S, f))
      BY <2>1, <3>1, SendNewGood DEF OneMore
    <3>3. QED  BY <2>1, <3>2 DEF TrySendNew
  <2>2. CASE ~(MaySend(S, f) /\ S.sent[f] < FlowPackets[f])
    BY <2>2 DEF TrySendNew, SameDown
  <2>3. QED  BY <2>1, <2>2
<1>3. QED  BY <1>1, <1>2

\* The records that a source's sending may lead to.
Onward(S, g) == {T \in QueueRecords : Good(T, g, slice) /\ SameDown(S, T)}

\* What was lost is sent while there is room.
LEMMA SendAllLostGood ==
  ASSUME NEW S, NEW g, Good(S, g, slice), slice \in Slices, NEW f \in Flows
  PROVE  Good(SendAllLost(S, f), g, slice) /\ SameDown(S, SendAllLost(S, f))
<1> DEFINE n == MaxNicPackets
           w == Attempts
           A == Onward(S, g)
           Equation(h) == h = [I \in SUBSET (1..n) |->
                                 IF I = {} THEN S ELSE TrySendLost(h[I \ {Max(I)}], f)]
           iter == CHOOSE h : Equation(h)
           step == [a \in (1..n) \X A |-> TrySendLost(a[2], f)]
<1>1. n \in Nat /\ S \in A
  <2>1. S \in QueueRecords  BY DEF Good, Sound
  <2>2. QED  BY <2>1, HbHAssumption DEF Onward, SameDown
<1>2. SendAllLost(S, f) = iter[1..n]
  <2>1. DOMAIN w = 1..n  BY DEF Attempts
  <2>2. QED  BY <2>1 DEF SendAllLost, FoldLeft, MapThenFoldSet
<1> HIDE DEF n, w, A
<1>3. ASSUME NEW U \in A  PROVE TrySendLost(U, f) \in A
  <2>1. PICK V : V = TrySendLost(U, f)  OBVIOUS
  <2>2. Good(U, g, slice) /\ SameDown(S, U)  BY <1>3 DEF A, Onward
  <2>3. Good(V, g, slice) /\ SameDown(U, V)  BY <2>1, <2>2, TrySendGood
  <2>4. V \in QueueRecords  BY <2>3 DEF Good, Sound
  <2>5. QED  BY <2>1, <2>2, <2>3, <2>4 DEF A, Onward, SameDown
<1>4. step \in Steps(A, n)
  <2>1. ASSUME NEW a \in (1..n) \X A  PROVE TrySendLost(a[2], f) \in A
    <3>1. a[2] \in A  OBVIOUS
    <3>2. QED  BY <1>3, <3>1
  <2>2. QED  BY <2>1 DEF Steps
<1>5. PICK h : StatesOf(h, A, n, S, step)
  <2> HIDE DEF step
  <2>1. QED  BY <1>1, <1>4, FoldSolved
<1>6. ASSUME NEW I \in SUBSET (1..n), I # {}
      PROVE  h[I] = TrySendLost(h[I \ {Max(I)}], f)
  <2>1. /\ Max(I) \in 1..n /\ h[I \ {Max(I)}] \in A
        /\ h[I] = step[<<Max(I), h[I \ {Max(I)}]>>]
    BY <1>5, <1>6 DEF StatesOf
  <2>2. QED  BY <2>1
<1>7. Equation(h)
  <2>1. h = [I \in SUBSET (1..n) |-> h[I]] /\ h[{}] = S  BY <1>5 DEF StatesOf
  <2>2. QED  BY <1>6, <2>1
<1>8. Equation(iter)  BY <1>7
<1> HIDE DEF iter
<1>9. iter[1..n] = h[1..n]
  <2>1. iter[{}] = h[{}]
    <3>1. {} \in SUBSET (1..n)  OBVIOUS
    <3>2. h[{}] = S  BY <1>5 DEF StatesOf
    <3>3. QED  BY <1>8, <3>1, <3>2
  <2>2. ASSUME NEW I \in SUBSET (1..n), I # {}, iter[I \ {Max(I)}] = h[I \ {Max(I)}]
        PROVE  iter[I] = h[I]
    BY <1>6, <1>8, <2>2
  <2> HIDE DEF Equation
  <2>3. QED  BY <1>1, <2>1, <2>2, SameFold
<1>10. h[1..n] \in A
  <2>1. 1..n \in SUBSET (1..n)  OBVIOUS
  <2>2. QED  BY <1>5, <2>1 DEF StatesOf
<1>11. QED  BY <1>2, <1>9, <1>10 DEF A, Onward

\* New packets are sent while there is room.
LEMMA SendAllNewGood ==
  ASSUME NEW S, NEW g, Good(S, g, slice), slice \in Slices, NEW f \in Flows
  PROVE  Good(SendAllNew(S, f), g, slice) /\ SameDown(S, SendAllNew(S, f))
<1> DEFINE n == MaxNicPackets
           w == Attempts
           A == Onward(S, g)
           Equation(h) == h = [I \in SUBSET (1..n) |->
                                 IF I = {} THEN S ELSE TrySendNew(h[I \ {Max(I)}], f)]
           iter == CHOOSE h : Equation(h)
           step == [a \in (1..n) \X A |-> TrySendNew(a[2], f)]
<1>1. n \in Nat /\ S \in A
  <2>1. S \in QueueRecords  BY DEF Good, Sound
  <2>2. QED  BY <2>1, HbHAssumption DEF Onward, SameDown
<1>2. SendAllNew(S, f) = iter[1..n]
  <2>1. DOMAIN w = 1..n  BY DEF Attempts
  <2>2. QED  BY <2>1 DEF SendAllNew, FoldLeft, MapThenFoldSet
<1> HIDE DEF n, w, A
<1>3. ASSUME NEW U \in A  PROVE TrySendNew(U, f) \in A
  <2>1. PICK V : V = TrySendNew(U, f)  OBVIOUS
  <2>2. Good(U, g, slice) /\ SameDown(S, U)  BY <1>3 DEF A, Onward
  <2>3. Good(V, g, slice) /\ SameDown(U, V)  BY <2>1, <2>2, TrySendGood
  <2>4. V \in QueueRecords  BY <2>3 DEF Good, Sound
  <2>5. QED  BY <2>1, <2>2, <2>3, <2>4 DEF A, Onward, SameDown
<1>4. step \in Steps(A, n)
  <2>1. ASSUME NEW a \in (1..n) \X A  PROVE TrySendNew(a[2], f) \in A
    <3>1. a[2] \in A  OBVIOUS
    <3>2. QED  BY <1>3, <3>1
  <2>2. QED  BY <2>1 DEF Steps
<1>5. PICK h : StatesOf(h, A, n, S, step)
  <2> HIDE DEF step
  <2>1. QED  BY <1>1, <1>4, FoldSolved
<1>6. ASSUME NEW I \in SUBSET (1..n), I # {}
      PROVE  h[I] = TrySendNew(h[I \ {Max(I)}], f)
  <2>1. /\ Max(I) \in 1..n /\ h[I \ {Max(I)}] \in A
        /\ h[I] = step[<<Max(I), h[I \ {Max(I)}]>>]
    BY <1>5, <1>6 DEF StatesOf
  <2>2. QED  BY <2>1
<1>7. Equation(h)
  <2>1. h = [I \in SUBSET (1..n) |-> h[I]] /\ h[{}] = S  BY <1>5 DEF StatesOf
  <2>2. QED  BY <1>6, <2>1
<1>8. Equation(iter)  BY <1>7
<1> HIDE DEF iter
<1>9. iter[1..n] = h[1..n]
  <2>1. iter[{}] = h[{}]
    <3>1. {} \in SUBSET (1..n)  OBVIOUS
    <3>2. h[{}] = S  BY <1>5 DEF StatesOf
    <3>3. QED  BY <1>8, <3>1, <3>2
  <2>2. ASSUME NEW I \in SUBSET (1..n), I # {}, iter[I \ {Max(I)}] = h[I \ {Max(I)}]
        PROVE  iter[I] = h[I]
    BY <1>6, <1>8, <2>2
  <2> HIDE DEF Equation
  <2>3. QED  BY <1>1, <2>1, <2>2, SameFold
<1>10. h[1..n] \in A
  <2>1. 1..n \in SUBSET (1..n)  OBVIOUS
  <2>2. QED  BY <1>5, <2>1 DEF StatesOf
<1>11. QED  BY <1>2, <1>9, <1>10 DEF A, Onward

\* triggerSending keeps the state good.
LEMMA TriggerGood ==
  ASSUME NEW S, NEW g, Good(S, g, slice), slice \in Slices, NEW f \in Flows
  PROVE  Good(Trigger(S, f), g, slice) /\ SameDown(S, Trigger(S, f))
<1>1. PICK T : T = SendAllLost(S, f)  OBVIOUS
<1>2. Good(T, g, slice) /\ SameDown(S, T)  BY <1>1, SendAllLostGood
<1>3. PICK U : U = SendAllNew(T, f)  OBVIOUS
<1>4. Good(U, g, slice) /\ SameDown(T, U)  BY <1>2, <1>3, SendAllNewGood
<1>5. SameDown(S, U)  BY <1>2, <1>4 DEF SameDown
<1>6. Trigger(S, f) = IF finished[f] THEN S ELSE U  BY <1>1, <1>3 DEF Trigger
<1>7. SameDown(S, S)  BY DEF SameDown
<1>8. QED  BY <1>4, <1>5, <1>6, <1>7

\* The records in which everything that f has sent is at its NIC.
AllAtNic(g, f) == {T \in QueueRecords : Good(T, g, slice) /\ T.nic[f] = T.flight[f]}

\* A flow that starts fills its NIC, which is within its window.
LEMMA SendAllFirstGood ==
  ASSUME NEW S, NEW g, Good(S, g, slice), slice \in Slices, NEW f \in Flows,
         S.nic[f] = S.flight[f]
  PROVE  Good(SendAllFirst(S, f), g, slice)
<1> DEFINE n == MaxNicPackets
           w == Attempts
           A == AllAtNic(g, f)
           Equation(h) == h = [I \in SUBSET (1..n) |->
                                 IF I = {} THEN S ELSE TrySendFirst(h[I \ {Max(I)}], f)]
           iter == CHOOSE h : Equation(h)
           step == [a \in (1..n) \X A |-> TrySendFirst(a[2], f)]
<1>1. n \in Nat /\ S \in A
  <2>1. S \in QueueRecords  BY DEF Good, Sound
  <2>2. QED  BY <2>1, HbHAssumption DEF AllAtNic
<1>2. SendAllFirst(S, f) = iter[1..n]
  <2>1. DOMAIN w = 1..n  BY DEF Attempts
  <2>2. QED  BY <2>1 DEF SendAllFirst, FoldLeft, MapThenFoldSet
<1> HIDE DEF n, w, A
<1>3. ASSUME NEW U \in A  PROVE TrySendFirst(U, f) \in A
  <2>1. U \in QueueRecords /\ Good(U, g, slice) /\ U.nic[f] = U.flight[f]
    BY <1>3 DEF A, AllAtNic
  <2>2. CASE U.nic[f] < MaxNicPackets /\ U.sent[f] < FlowPackets[f]
    <3>1. U.nic \in [Flows -> Int] /\ U.flight \in [Flows -> Int]  BY <2>1, RecordFields
    <3>2. U.flight[f] < MaxInflight
      <4>1. MaxNicPackets \in Nat /\ MaxInflight \in Nat /\ MaxNicPackets <= MaxInflight
        BY HbHAssumption
      <4>2. QED  BY <2>1, <2>2, <3>1, <4>1
    <3>3. PICK T : T = SendNew(U, f)  OBVIOUS
    <3>4. Good(T, g, slice) /\ OneMore(U, T, f)  BY <2>1, <2>2, <3>2, <3>3, SendNewGood
    <3>5. T.nic[f] = U.nic[f] + 1 /\ T.flight[f] = U.flight[f] + 1
      BY <3>1, <3>4 DEF OneMore
    <3>6. T \in QueueRecords  BY <3>4 DEF Good, Sound
    <3>7. T \in A  BY <2>1, <3>4, <3>5, <3>6 DEF A, AllAtNic
    <3>8. TrySendFirst(U, f) = T  BY <2>2, <3>3 DEF TrySendFirst
    <3>9. QED  BY <3>7, <3>8
  <2>3. CASE ~(U.nic[f] < MaxNicPackets /\ U.sent[f] < FlowPackets[f])
    BY <1>3, <2>3 DEF TrySendFirst
  <2>4. QED  BY <2>2, <2>3
<1>4. step \in Steps(A, n)
  <2>1. ASSUME NEW a \in (1..n) \X A  PROVE TrySendFirst(a[2], f) \in A
    <3>1. a[2] \in A  OBVIOUS
    <3>2. QED  BY <1>3, <3>1
  <2>2. QED  BY <2>1 DEF Steps
<1>5. PICK h : StatesOf(h, A, n, S, step)
  <2> HIDE DEF step
  <2>1. QED  BY <1>1, <1>4, FoldSolved
<1>6. ASSUME NEW I \in SUBSET (1..n), I # {}
      PROVE  h[I] = TrySendFirst(h[I \ {Max(I)}], f)
  <2>1. /\ Max(I) \in 1..n /\ h[I \ {Max(I)}] \in A
        /\ h[I] = step[<<Max(I), h[I \ {Max(I)}]>>]
    BY <1>5, <1>6 DEF StatesOf
  <2>2. QED  BY <2>1
<1>7. Equation(h)
  <2>1. h = [I \in SUBSET (1..n) |-> h[I]] /\ h[{}] = S  BY <1>5 DEF StatesOf
  <2>2. QED  BY <1>6, <2>1
<1>8. Equation(iter)  BY <1>7
<1> HIDE DEF iter
<1>9. iter[1..n] = h[1..n]
  <2>1. iter[{}] = h[{}]
    <3>1. {} \in SUBSET (1..n)  OBVIOUS
    <3>2. h[{}] = S  BY <1>5 DEF StatesOf
    <3>3. QED  BY <1>8, <3>1, <3>2
  <2>2. ASSUME NEW I \in SUBSET (1..n), I # {}, iter[I \ {Max(I)}] = h[I \ {Max(I)}]
        PROVE  iter[I] = h[I]
    BY <1>6, <1>8, <2>2
  <2> HIDE DEF Equation
  <2>3. QED  BY <1>1, <2>1, <2>2, SameFold
<1>10. h[1..n] \in A
  <2>1. 1..n \in SUBSET (1..n)  OBVIOUS
  <2>2. QED  BY <1>5, <2>1 DEF StatesOf
<1>11. QED  BY <1>2, <1>9, <1>10 DEF A, AllAtNic

\* startflow keeps the state good.
LEMMA StartGood ==
  ASSUME NEW S, NEW g, Good(S, g, slice), slice \in Slices, NEW f \in Flows, S.sent[f] = 0
  PROVE  Good(SendAllFirst(S, f), g, slice)
<1>1. PICK loc : Ledger(S, loc, g, slice)  BY DEF Good
<1>2. /\ Placement(loc, slice) /\ SentOK(S.sent, loc)
      /\ NicOK(S.nic, loc) /\ FlightOK(S.flight, loc)
  BY <1>1 DEF Ledger
<1>3. ASSUME NEW k \in Ids, k[1] = f  PROVE loc[k].tag = "new" /\ loc[k].in = Nowhere
  <2>1. k[2] \in 1..FlowPackets[k[1]]  BY DEF Ids
  <2>2. k[2] > S.sent[k[1]]  BY <1>3, <2>1
  <2>3. loc[k].tag = "new"  BY <1>2, <2>2 DEF SentOK
  <2>4. QED  BY <1>2, <2>3 DEF Placement, PlaceOK
<1>4. NicOf(loc, f) = {}
  <2>1. Nic(SrcOf[f]) \in Queues
    <3>1. SrcOf[f] \in ToR  BY HbHAssumption
    <3>2. QED  BY <3>1, NicIsQueue
  <2>2. QED  BY <1>3, <2>1, NowhereIsNoQueue DEF NicOf
<1>5. Flying(loc, f) = {}  BY <1>3 DEF Flying, Flights
<1>6. S.nic[f] = S.flight[f]  BY <1>2, <1>4, <1>5 DEF NicOK, FlightOK
<1>7. QED  BY <1>6, SendAllFirstGood

-----------------------------------------------------------------------------
(* The actions *)

\* The inductive invariant: every packet of every flow is in one place, the queues
\* hold what the places say, and every counter is the number of packets it stands
\* for.
HbHTyped ==
  /\ got \in [Flows -> SUBSET Nat] /\ \A f \in Flows : got[f] \subseteq 1..FlowPackets[f]
  /\ finished \in [Flows -> BOOLEAN] /\ slice \in Slices /\ changes \in 0..MaxChanges
HbHIInv == HbHTyped /\ Good(queues, got, slice)

\* A ToR queue has served a packet: it goes on the link, or back to its source from
\* the downlink of another rack, and what the source then sends leaves the queue idle.
LEMMA SentGood ==
  ASSUME NEW S, NEW g, Good(S, g, slice), slice \in Slices, NEW x \in Queues, ~IsNic(x),
         S.serving[x] # <<>>
  PROVE  LET p == S.serving[x][1].pkt
             T == SendFromQueue(Uncount(S, x, p, IF IsDown(x) THEN "none" ELSE NextPort(p, x)), x)
         IN Good(T, g, slice) /\ T.serving[x] = <<>>
<1>1. S \in QueueRecords  BY DEF Good, Sound
<1>2. PICK p : p = S.serving[x][1].pkt  OBVIOUS
<1>3. PICK n : n = IF IsDown(x) THEN "none" ELSE NextPort(p, x)  OBVIOUS
<1>4. PICK U : U = Uncount(S, x, p, n)  OBVIOUS
<1>5. U.serving = S.serving
  <2>1. p \in HbHPackets  BY <1>1, <1>2, ServingType
  <2>2. NextPort(p, x) = PortAt(p, p.hop + 1)  BY DEF NextPort, Placed
  <2>3. IsDown(x) \/ n \in PortsOut  BY <1>3, <2>1, <2>2, PacketFacts
  <2>4. QED  BY <1>1, <1>4, <2>1, <2>3, UncountFields
<1>6. SendFromQueue(U, x) = IF WrongRack(x, p) THEN AddToLost(ServingLess(U, x), p)
                            ELSE PutOnLink(U, x)
  BY <1>2, <1>5 DEF SendFromQueue, ServingLess
<1>7. CASE ~WrongRack(x, p)
  <2>1. LET q == S.serving[x][1].pkt
            T == PutOnLink(Uncount(S, x, q, IF IsDown(x) THEN "none" ELSE NextPort(q, x)), x)
        IN Good(T, g, slice) /\ T.serving[x] = <<>> /\ T.held[x] = S.held[x]
    BY <1>2, <1>7, ServiceDone
  <2>2. QED  BY <1>2, <1>3, <1>4, <1>6, <1>7, <2>1
<1>8. CASE WrongRack(x, p)
  <2>1. IsDown(x) /\ n = "none"  BY <1>3, <1>8 DEF WrongRack
  <2>2. PICK R : R = Returned(S, x)  OBVIOUS
  <2>3. Good(R, g, slice) /\ R.serving = [S.serving EXCEPT ![x] = <<>>] /\ p.flow \in Flows
    BY <1>2, <2>1, <2>2, ReturnedGood
  <2>4. R.serving[x] = <<>>
    <3>1. S.serving \in [Queues -> Seq(Entries)]  BY <1>1, RecordFields DEF Services
    <3>2. QED  BY <2>3, <3>1
  <2>5. PICK T : T = Trigger(R, p.flow)  OBVIOUS
  <2>6. Good(T, g, slice) /\ SameDown(R, T)  BY <2>3, <2>5, TriggerGood
  <2>7. T.serving[x] = <<>>  BY <2>1, <2>4, <2>6 DEF SameDown
  <2>8. SendFromQueue(U, x) = T
    <3>1. R = [ServingLess(U, x) EXCEPT !.flight[p.flow] = @ - 1,
                                        !.rtx[p.flow] = Append(@, p)]
      BY <1>2, <1>4, <2>1, <2>2 DEF Returned
    <3>2. QED  BY <1>6, <1>8, <2>5, <3>1 DEF AddToLost
  <2>9. QED  BY <1>2, <1>3, <1>4, <2>6, <2>7, <2>8
<1>9. QED  BY <1>7, <1>8

\* completeService at a ToR's queue preserves the invariant.
LEMMA CompleteServiceGood ==
  ASSUME HbHIInv, NEW x \in Queues, CompleteService(x)
  PROVE  Good(queues', got', slice')
<1>1. PICK p : p = queues.serving[x][1].pkt  OBVIOUS
<1>2. PICK n : n = IF IsDown(x) THEN "none" ELSE NextPort(p, x)  OBVIOUS
<1>3. PICK S : S = SendFromQueue(Uncount(queues, x, p, n), x)  OBVIOUS
<1>4. /\ ~IsNic(x) /\ queues.serving[x] # <<>> /\ slice' = slice /\ got' = got
      /\ queues' = IF ~IsDown(x) THEN Poll(PollAll(S, x), x)
                   ELSE IF S.held[x] # <<>> THEN ServeDown(S, x) ELSE Poll(S, x)
  BY <1>1, <1>2, <1>3 DEF CompleteService
<1>5. slice \in Slices /\ Good(queues, got, slice)  BY DEF HbHIInv, HbHTyped
<1>6. PICK Q, g : Q = queues /\ g = got  OBVIOUS
<1>7. Good(S, g, slice) /\ S.serving[x] = <<>>
  <2>1. LET q == Q.serving[x][1].pkt
            T == SendFromQueue(Uncount(Q, x, q, IF IsDown(x) THEN "none" ELSE NextPort(q, x)), x)
        IN Good(T, g, slice) /\ T.serving[x] = <<>>
    BY SMTT(30), <1>4, <1>5, <1>6, SentGood
  <2>2. QED  BY <1>1, <1>2, <1>3, <1>6, <2>1
<1>8. x \in ToRQueues  BY <1>4 DEF ToRQueues
<1>9. CASE ~IsDown(x)
  <2>1. PICK T : T = PollAll(S, x)  OBVIOUS
  <2>2. Good(T, g, slice)  BY <1>5, <1>7, <1>9, <2>1, PollAllGood
  <2>3. Good(Poll(T, x), g, slice)  BY <1>5, <1>8, <2>2, PollGood
  <2>4. QED  BY <1>4, <1>6, <1>9, <2>1, <2>3
<1>10. CASE IsDown(x) /\ S.held[x] # <<>>
  <2>1. Good(ServeDown(S, x), g, slice)  BY <1>7, <1>10, ServeDownGood
  <2>2. QED  BY <1>4, <1>6, <1>10, <2>1
<1>11. CASE IsDown(x) /\ S.held[x] = <<>>
  <2>1. Good(Poll(S, x), g, slice)  BY <1>5, <1>7, <1>8, PollGood
  <2>2. QED  BY <1>4, <1>6, <1>11, <2>1
<1>12. QED  BY <1>9, <1>10, <1>11

\* So does completeService at a NIC.
LEMMA CompleteNicGood ==
  ASSUME HbHIInv, NEW x \in Queues, CompleteNic(x)
  PROVE  Good(queues', got', slice')
<1>1. PICK p : p = queues.serving[x][1].pkt  OBVIOUS
<1>2. PICK S : S = PutOnLink([queues EXCEPT !.nic[p.flow] = @ - 1], x)  OBVIOUS
<1>3. /\ IsNic(x) /\ queues.serving[x] # <<>> /\ slice' = slice /\ got' = got
      /\ queues' = Trigger(PollAll(S, x), p.flow)
  BY <1>1, <1>2 DEF CompleteNic
<1>4. slice \in Slices /\ Good(queues, got, slice)  BY DEF HbHIInv, HbHTyped
<1>5. PICK Q, g : Q = queues /\ g = got  OBVIOUS
<1>6. Good(S, g, slice) /\ p.flow \in Flows
  <2>1. LET q == Q.serving[x][1].pkt
        IN Good(PutOnLink([Q EXCEPT !.nic[q.flow] = @ - 1], x), g, slice) /\ q.flow \in Flows
    BY <1>3, <1>4, <1>5, NicServiceDone
  <2>2. QED  BY <1>1, <1>2, <1>5, <2>1
<1>7. ~IsDown(x)  BY <1>3, QueueFacts
<1>8. PICK T : T = PollAll(S, x)  OBVIOUS
<1>9. Good(T, g, slice)  BY <1>4, <1>6, <1>7, <1>8, PollAllGood
<1>10. Good(Trigger(T, p.flow), g, slice)  BY <1>4, <1>6, <1>9, TriggerGood
<1>11. QED  BY <1>3, <1>5, <1>8, <1>10

\* So does the start of a flow.
LEMMA StartFlowGood ==
  ASSUME HbHIInv, NEW f \in Flows, StartFlow(f)
  PROVE  Good(queues', got', slice')
<1>1. /\ queues.sent[f] = 0 /\ queues' = SendAllFirst(queues, f)
      /\ slice' = slice /\ got' = got
  BY DEF StartFlow
<1>2. slice \in Slices /\ Good(queues, got, slice)  BY DEF HbHIInv, HbHTyped
<1>3. PICK Q, g : Q = queues /\ g = got  OBVIOUS
<1>4. Good(SendAllFirst(Q, f), g, slice)  BY <1>1, <1>2, <1>3, StartGood
<1>5. QED  BY <1>1, <1>3, <1>4

\* So does a packet that reaches its receiver.
LEMMA SinkReceivesGood ==
  ASSUME HbHIInv, NEW i \in 1..Len(queues.pipe), SinkReceives(i)
  PROVE  /\ Good(queues', got', slice')
         /\ got' \in [Flows -> SUBSET Nat] /\ \A f \in Flows : got'[f] \subseteq 1..FlowPackets[f]
         /\ finished' \in [Flows -> BOOLEAN]
<1>1. PICK Q, g, g2 : Q = queues /\ g = got /\ g2 = got'  OBVIOUS
<1>2. PICK e : e = Q.pipe[i]  OBVIOUS
<1>3. PICK f : f = e.pkt.flow  OBVIOUS
<1>4. PICK S : S = [Q EXCEPT !.pipe = RemoveAt(@, i), !.flight[f] = @ - 1]  OBVIOUS
<1>5. /\ IsDown(e.from) /\ g2 = [g EXCEPT ![f] = @ \cup {e.pkt.n}] /\ slice' = slice
      /\ finished' = [finished EXCEPT ![f] = @ \/ g2[f] = 1..FlowPackets[f]]
      /\ queues' = S \/ queues' = Trigger(S, f)
  BY <1>1, <1>2, <1>3, <1>4 DEF SinkReceives
<1>6. /\ slice \in Slices /\ Good(Q, g, slice) /\ finished \in [Flows -> BOOLEAN]
      /\ g \in [Flows -> SUBSET Nat] /\ \A h \in Flows : g[h] \subseteq 1..FlowPackets[h]
  BY <1>1 DEF HbHIInv, HbHTyped
<1>7. Good(S, g2, slice) /\ f \in Flows /\ e.pkt.n \in 1..FlowPackets[f]
  <2>1. DOMAIN g = Flows /\ i \in 1..Len(Q.pipe) /\ IsDown(Q.pipe[i].from)
    BY <1>1, <1>2, <1>5, <1>6
  <2>2. LET d == Q.pipe[i]
            h == d.pkt.flow
        IN /\ Good([Q EXCEPT !.pipe = RemoveAt(@, i), !.flight[h] = @ - 1],
                   [g EXCEPT ![h] = g[h] \cup {d.pkt.n}], slice)
           /\ h \in Flows /\ d.pkt.n \in 1..FlowPackets[h]
    BY <1>6, <2>1, SinkGood
  <2>3. QED  BY <1>2, <1>3, <1>4, <1>5, <2>2
<1>8. Good(Trigger(S, f), g2, slice)  BY <1>6, <1>7, TriggerGood
<1>9. Good(queues', g2, slice)  BY <1>5, <1>7, <1>8
<1>10. g2 \in [Flows -> SUBSET Nat] /\ \A h \in Flows : g2[h] \subseteq 1..FlowPackets[h]
  <2>1. 1..FlowPackets[f] \subseteq Nat  OBVIOUS
  <2>2. QED  BY <1>5, <1>6, <1>7, <2>1
<1>11. finished' \in [Flows -> BOOLEAN]  BY <1>5, <1>6
<1>12. QED  BY <1>1, <1>5, <1>9, <1>10, <1>11

\* A packet that a queue does not take, or a link does not carry, goes back.
LEMMA BackGood ==
  ASSUME NEW S, NEW g, Good(S, g, slice), slice \in Slices,
         NEW i \in 1..Len(S.pipe), ~IsDown(S.pipe[i].from),
         NEW q \in HbHPackets, Id(q) = Id(S.pipe[i].pkt), NEW n,
         ~IsDown(S.pipe[i].to) => n = PortAt(S.pipe[i].pkt, S.pipe[i].pkt.hop + 2)
  PROVE  Good(AddToLost(Uncount(PipeLess(S, i), S.pipe[i].to, q, n), q), g, slice)
<1>1. Good(Lost(S, i, q, n), g, slice)  BY LostGood
<1>2. q.flow \in Flows  BY PacketFacts
<1>3. PICK T : T = Lost(S, i, q, n)  OBVIOUS
<1>4. Good(Trigger(T, q.flow), g, slice)  BY <1>1, <1>2, <1>3, TriggerGood
<1>5. AddToLost(Uncount(PipeLess(S, i), S.pipe[i].to, q, n), q) = Trigger(T, q.flow)
  BY <1>3 DEF AddToLost, Lost
<1>6. QED  BY <1>4, <1>5

\* A packet at the end of its link: the queue that expected it is the one it comes
\* to, and it has counted it for the port of the next rack.
LEMMA LinkEnd ==
  ASSUME NEW S, NEW g, Good(S, g, slice), slice \in Slices,
         NEW i \in 1..Len(S.pipe), ~IsDown(S.pipe[i].from)
  PROVE  LET e == S.pipe[i]
             t == IF IsNic(e.from) THEN e.from[1] ELSE Peer[slice][e.from[1]][e.from[2]]
             p == [e.pkt EXCEPT !.hop = @ + 1]
         IN /\ e \in OnLink /\ e.pkt \in HbHPackets /\ e.to \in ToRQueues
            /\ p \in HbHPackets /\ Id(p) = Id(e.pkt)
            /\ t # NoToR => <<t, PortAt(p, p.hop)>> = e.to
            /\ t = NoToR /\ ~IsDown(e.to) =>
                 NextNextPort(e.pkt, e.from) = PortAt(e.pkt, e.pkt.hop + 2)
            /\ NextPort(p, e.to) = PortAt(e.pkt, e.pkt.hop + 2)
<1>1. S \in QueueRecords  BY DEF Good, Sound
<1>2. PICK loc : Ledger(S, loc, g, slice)  BY DEF Good
<1>3. PICK e : e = S.pipe[i]  OBVIOUS
<1>4. PICK t : t = IF IsNic(e.from) THEN e.from[1] ELSE Peer[slice][e.from[1]][e.from[2]]
  OBVIOUS
<1>5. PICK p : p = [e.pkt EXCEPT !.hop = @ + 1]  OBVIOUS
<1>6. PICK k : k = Id(e.pkt)  OBVIOUS
<1>7. /\ k \in Ids /\ loc[k].at = e.from /\ loc[k].item = e /\ e \in OnLink
      /\ loc[k].pkt = e.pkt /\ Bound(loc[k], slice)
  <2>1. Placement(loc, slice) /\ PipeOK(S.pipe, loc) /\ S.pipe \in Seq(OnLink)
    BY <1>1, <1>2, RecordFields DEF Ledger
  <2>2. LET m == Id(S.pipe[i].pkt) IN
        /\ m \in Ids /\ loc[m].tag = "pipe" /\ loc[m].at = S.pipe[i].from
        /\ loc[m].item = S.pipe[i] /\ S.pipe[i] \in OnLink
        /\ loc[m].pkt = S.pipe[i].pkt /\ loc[m].in = Nowhere
        /\ loc[m] \in Place /\ Bound(loc[m], slice)
    BY <2>1, PipePacket
  <2>3. QED  BY <1>3, <1>6, <2>2
<1>8. /\ e.to \in ToRQueues /\ e.to[2] = PortAt(e.pkt, e.pkt.hop + 1)
      /\ LinkTo(e.from, e.to[1], e.old, slice)
  BY <1>3, <1>7 DEF Bound
<1>9. e.pkt \in HbHPackets /\ e.from \in Queues /\ e.to \in Queues  BY <1>7 DEF OnLink
<1>10. /\ p \in HbHPackets /\ Id(p) = Id(e.pkt) /\ p.hop = e.pkt.hop + 1
       /\ p.slice = e.pkt.slice /\ p.flow = e.pkt.flow
  <2>1. e.pkt.hop \in Nat \cup {-1}  BY <1>9, PacketFacts
  <2>2. e.pkt.hop + 1 \in Nat  BY <2>1
  <2>3. QED  BY <1>5, <1>9, <2>2 DEF HbHPackets, Id
<1>11. PortAt(p, p.hop) = e.to[2]
  <2>1. PortAt(p, p.hop) = PortAt(e.pkt, e.pkt.hop + 1)  BY <1>10 DEF PortAt
  <2>2. QED  BY <1>8, <2>1
<1>12. ASSUME t # NoToR  PROVE <<t, PortAt(p, p.hop)>> = e.to
  <2>1. t = e.to[1]  BY <1>4, <1>8, <1>12 DEF LinkTo
  <2>2. e.to = <<e.to[1], e.to[2]>>  BY <1>9, QueueFacts
  <2>3. QED  BY <1>11, <2>1, <2>2
<1>13. ASSUME t = NoToR, ~IsDown(e.to)
       PROVE  NextNextPort(e.pkt, e.from) = PortAt(e.pkt, e.pkt.hop + 2)
  <2>1. ~IsNic(e.from)
    <3>1. e.from[1] \in ToR /\ NoToR \notin ToR  BY <1>9, QueueFacts, HbHAssumption
    <3>2. QED  BY <1>4, <1>13, <3>1
  <2>2. Placed(e.pkt, e.from) = e.pkt  BY <2>1 DEF Placed
  <2>3. NextPort(e.pkt, e.from) = e.to[2]  BY <1>8, <2>2 DEF NextPort
  <2>4. e.to[2] # "down"  BY <1>13 DEF IsDown
  <2>5. QED  BY <2>2, <2>3, <2>4 DEF NextNextPort
<1>14. NextPort(p, e.to) = PortAt(e.pkt, e.pkt.hop + 2)
  <2>1. ~IsNic(e.to)  BY <1>8 DEF ToRQueues
  <2>2. NextPort(p, e.to) = PortAt(p, p.hop + 1)  BY <2>1 DEF NextPort, Placed
  <2>3. p.hop + 1 = e.pkt.hop + 2
    <3>1. e.pkt.hop \in Int  BY <1>9, PacketFacts
    <3>2. QED  BY <1>10, <3>1
  <2>4. PortAt(p, p.hop + 1) = PortAt(e.pkt, e.pkt.hop + 2)  BY <1>10, <2>3 DEF PortAt
  <2>5. QED  BY <2>2, <2>4
<1>15. QED  BY <1>3, <1>4, <1>5, <1>7, <1>8, <1>9, <1>10, <1>12, <1>13, <1>14

\* A queue receives the packet.
LEMMA ReceiveGood ==
  ASSUME NEW S, NEW g, Good(S, g, slice), slice \in Slices,
         NEW i \in 1..Len(S.pipe), ~IsDown(S.pipe[i].from),
         NEW x, NEW p, x = S.pipe[i].to, p = [S.pipe[i].pkt EXCEPT !.hop = @ + 1]
  PROVE  Good(Receive(PipeLess(S, i), x, p), g, slice)
<1>1. S \in QueueRecords  BY DEF Good, Sound
<1>2. /\ x \in ToRQueues /\ p \in HbHPackets /\ Id(p) = Id(S.pipe[i].pkt)
      /\ NextPort(p, x) = PortAt(S.pipe[i].pkt, S.pipe[i].pkt.hop + 2)
  <2>1. LET e == S.pipe[i]
            q == [e.pkt EXCEPT !.hop = @ + 1]
        IN /\ e.to \in ToRQueues /\ q \in HbHPackets /\ Id(q) = Id(e.pkt)
           /\ NextPort(q, e.to) = PortAt(e.pkt, e.pkt.hop + 2)
    BY LinkEnd
  <2>2. QED  BY <2>1
<1>3. x \in Queues /\ ~IsNic(x)  BY <1>2 DEF ToRQueues
<1>4. PICK U : U = PipeLess(S, i)  OBVIOUS
<1>5. U \in QueueRecords  BY <1>1, <1>4, PipeLessFields
<1>6. PICK T : T = HeldMore(U, x, p)  OBVIOUS
<1>7. Good(T, g, slice)
  <2>1. LET e == S.pipe[i]
            q == [e.pkt EXCEPT !.hop = @ + 1]
        IN Good(HeldMore(PipeLess(S, i), e.to, q), g, slice)
    BY ArrivalGood
  <2>2. QED  BY <1>4, <1>6, <2>1
<1>8. T.held[x] # <<>> /\ T.serving = U.serving
  <2>1. /\ T.held = [U.held EXCEPT ![x] = Append(U.held[x], p)]
        /\ T.serving = U.serving
    BY ONLY SMTT(60), <1>2, <1>3, <1>5, <1>6, HeldMoreFields
  <2>2. U.held \in [Queues -> Seq(HbHPackets)]  BY <1>5, RecordFields DEF HeldLists
  <2>3. Append(U.held[x], p) # <<>>
    <3>1. U.held[x] \in Seq(HbHPackets)  BY <1>3, <2>2
    <3>2. PICK s \in Seq(HbHPackets) : s = U.held[x]  BY <3>1
    <3>3. Len(Append(s, p)) = Len(s) + 1 /\ Len(s) \in Nat
      BY ONLY s \in Seq(HbHPackets), <1>2, AppendProperties, LenProperties
    <3>4. Append(s, p) # <<>>  BY <3>3
    <3>5. QED  BY <3>2, <3>4
  <2>4. QED  BY <1>3, <2>1, <2>2, <2>3
<1>9. PICK n : n = NextPort(p, x)  OBVIOUS
<1>10. Good(AddToLost(Uncount(U, x, p, n), p), g, slice)
  <2>1. ~IsDown(S.pipe[i].to) => n = PortAt(S.pipe[i].pkt, S.pipe[i].pkt.hop + 2)
    BY <1>2, <1>9
  <2>2. Good(AddToLost(Uncount(PipeLess(S, i), S.pipe[i].to, p, n), p), g, slice)
    BY <1>2, <2>1, BackGood
  <2>3. QED  BY <1>4, <2>2
<1> DEFINE full == Len(U.held[x]) + Len(U.serving[x]) >= MaxQueue
<1>11. T = [U EXCEPT !.held[x] = Append(@, p)]  BY <1>6 DEF HeldMore
<1>12. Receive(U, x, p) =
         IF full \/ (~IsDown(x) /\ NextQueue(p, x) = <<>>)
         THEN AddToLost(Uncount(U, x, p, n), p)
         ELSE IF U.serving[x] # <<>> THEN T
         ELSE IF IsDown(x) THEN ServeDown(T, x) ELSE PollMe(T, NextQueue(p, x), x)
  BY <1>9, <1>11 DEF Receive
<1> HIDE DEF full
<1>13. CASE full \/ (~IsDown(x) /\ NextQueue(p, x) = <<>>)
  BY <1>4, <1>10, <1>12, <1>13
<1>14. CASE ~(full \/ (~IsDown(x) /\ NextQueue(p, x) = <<>>)) /\ U.serving[x] # <<>>
  BY <1>4, <1>7, <1>12, <1>14
<1>15. CASE ~full /\ U.serving[x] = <<>> /\ IsDown(x)
  <2>1. T.serving[x] = <<>>  BY <1>8, <1>15
  <2>2. Good(ServeDown(T, x), g, slice)  BY <1>3, <1>7, <1>8, <1>15, <2>1, ServeDownGood
  <2>3. QED  BY <1>4, <1>12, <1>15, <2>2
<1>16. CASE ~full /\ ~IsDown(x) /\ NextQueue(p, x) # <<>> /\ U.serving[x] = <<>>
  <2>1. PICK u : u = NextQueue(p, x)  OBVIOUS
  <2>2. u \in ToRQueues /\ MayWait(u, x)  BY <1>2, <1>3, <1>16, <2>1, NextQueueFacts
  <2>3. Good(PollMe(T, u, x), g, slice)  BY <1>3, <1>7, <2>2, PollMeGood
  <2>4. QED  BY <1>4, <1>12, <1>16, <2>1, <2>3
<1>17. QED  BY <1>13, <1>14, <1>15, <1>16

\* So does a packet that reaches the next queue, or is lost at it.
LEMMA PipeDeliversGood ==
  ASSUME HbHIInv, NEW i \in 1..Len(queues.pipe), PipeDelivers(i)
  PROVE  Good(queues', got', slice')
<1> DEFINE Q == queues
           g == got
           e == Q.pipe[i]
           t == IF IsNic(e.from) THEN e.from[1] ELSE Peer[slice][e.from[1]][e.from[2]]
           p == [e.pkt EXCEPT !.hop = @ + 1]
           S == PipeLess(Q, i)
           n == NextNextPort(e.pkt, e.from)
<1>1. Q = queues /\ g = got  OBVIOUS
<1>2. e = Q.pipe[i]  OBVIOUS
<1>3. t = IF IsNic(e.from) THEN e.from[1] ELSE Peer[slice][e.from[1]][e.from[2]]  OBVIOUS
<1>4. p = [e.pkt EXCEPT !.hop = @ + 1]  OBVIOUS
<1>5. S = PipeLess(Q, i)  OBVIOUS
<1>6. n = NextNextPort(e.pkt, e.from)  OBVIOUS
<1>7. /\ ~IsDown(e.from) /\ got' = g /\ slice' = slice
      /\ queues' = IF t = NoToR THEN AddToLost(Uncount(S, e.to, e.pkt, n), e.pkt)
                   ELSE Receive(S, <<t, PortAt(p, p.hop)>>, p)
  BY DEF PipeDelivers, PipeLess
<1> HIDE DEF Q, g, e, t, p, S, n
<1>8. slice \in Slices /\ Good(Q, g, slice)  BY <1>1 DEF HbHIInv, HbHTyped
<1>9. i \in 1..Len(Q.pipe) /\ ~IsDown(Q.pipe[i].from)  BY <1>1, <1>2, <1>7
<1>10. /\ e.pkt \in HbHPackets /\ (t # NoToR => <<t, PortAt(p, p.hop)>> = e.to)
       /\ t = NoToR /\ ~IsDown(e.to) => n = PortAt(e.pkt, e.pkt.hop + 2)
  <2>1. LET d == Q.pipe[i]
            u == IF IsNic(d.from) THEN d.from[1] ELSE Peer[slice][d.from[1]][d.from[2]]
            q == [d.pkt EXCEPT !.hop = @ + 1]
        IN /\ d.pkt \in HbHPackets /\ (u # NoToR => <<u, PortAt(q, q.hop)>> = d.to)
           /\ u = NoToR /\ ~IsDown(d.to) =>
                NextNextPort(d.pkt, d.from) = PortAt(d.pkt, d.pkt.hop + 2)
    BY <1>8, <1>9, LinkEnd
  <2>2. QED  BY <1>2, <1>3, <1>4, <1>6, <2>1
<1>11. CASE t = NoToR
  <2>1. ~IsDown(Q.pipe[i].to) => n = PortAt(Q.pipe[i].pkt, Q.pipe[i].pkt.hop + 2)
    BY <1>2, <1>10, <1>11
  <2>2. PICK q \in HbHPackets : q = e.pkt /\ Id(q) = Id(Q.pipe[i].pkt)  BY <1>2, <1>10
  <2>3. Good(AddToLost(Uncount(PipeLess(Q, i), Q.pipe[i].to, q, n), q), g, slice)
    BY <1>8, <1>9, <2>1, <2>2, BackGood
  <2>4. QED  BY <1>2, <1>5, <1>7, <1>11, <2>2, <2>3
<1>12. CASE t # NoToR
  <2>1. PICK x : x = e.to  OBVIOUS
  <2>2. Good(Receive(PipeLess(Q, i), x, p), g, slice)
    BY <1>2, <1>4, <1>8, <1>9, <2>1, ReceiveGood
  <2>3. QED  BY <1>5, <1>7, <1>10, <1>12, <2>1, <2>2
<1>13. QED  BY <1>11, <1>12

-----------------------------------------------------------------------------
(* The slice changes *)

\* A packet in service or on a link has seen the change.
OnTheWay == {"serving", "pipe"}
Aged(c) == IF c.tag \in OnTheWay THEN [c EXCEPT !.item = [c.item EXCEPT !.old = TRUE]] ELSE c

\* What the start of a slice does to a packet in service leaves it in its place.
LEMMA AgedOK ==
  ASSUME NEW loc, NEW z \in Slices, NEW z2, z2 = (z + 1) % SliceCount, Placement(loc, z),
         NEW k \in Ids, loc[k].tag \in OnTheWay => ~loc[k].item.old
  PROVE  LET c == loc[k]
             d == Aged(c)
         IN /\ d \in Place /\ PlaceOK(k, d, z2)
            /\ d.tag = c.tag /\ d.at = c.at /\ d.in = c.in /\ d.to = c.to /\ d.pkt = c.pkt
            /\ d.item = IF c.tag \in OnTheWay THEN [c.item EXCEPT !.old = TRUE] ELSE c.item
<1>1. PICK c : c = loc[k]  OBVIOUS
<1>2. PICK d : d = Aged(c)  OBVIOUS
<1>3. c \in Place /\ PlaceOK(k, c, z)  BY <1>1 DEF Placement
<1>4. CASE c.tag \notin OnTheWay
  <2>1. d = c  BY <1>2, <1>4 DEF Aged
  <2>2. PlaceOK(k, c, z2)  BY <1>3, <1>4 DEF PlaceOK, OnTheWay
  <2>3. QED  BY <1>1, <1>2, <1>3, <1>4, <2>1, <2>2
<1>5. CASE c.tag \in OnTheWay
  <2>1. PICK e : e = c.item  OBVIOUS
  <2>2. PICK e2 : e2 = [e EXCEPT !.old = TRUE]  OBVIOUS
  <2>3. /\ e.pkt = c.pkt /\ Bound(c, z) /\ (c.tag = "serving" => e \in Entries)
        /\ c.tag = "pipe" => e \in OnLink /\ e.from = c.at /\ ToItsRack(k, c)
    BY <1>3, <1>5, <2>1 DEF PlaceOK, OnTheWay
  <2>4. /\ e2.pkt = e.pkt /\ e2.to = e.to /\ e2.old = TRUE
        /\ c.tag = "serving" => e2 \in Entries
        /\ c.tag = "pipe" => e2 \in OnLink /\ e2.from = e.from
    BY <1>5, <2>2, <2>3 DEF OnTheWay, Entries, OnLink
  <2>5. e2 \in Entries \cup OnLink  BY <1>5, <2>4 DEF OnTheWay
  <2>6. d = [tag |-> c.tag, at |-> c.at, in |-> c.in, to |-> c.to, pkt |-> c.pkt, item |-> e2]
    <3>1. d = [c EXCEPT !.item = e2]  BY <1>2, <1>5, <2>1, <2>2 DEF Aged
    <3>2. QED  BY <1>3, <3>1 DEF Place
  <2>7. d \in Place  BY <1>3, <2>5, <2>6 DEF Place
  <2>8. Bound(d, z2)
    <3>1. CASE IsDown(c.at)  BY <2>3, <2>6, <3>1 DEF Bound
    <3>2. CASE ~IsDown(c.at)
      <4>1. /\ c.to = e.to /\ e.to \in ToRQueues /\ e.to[2] = PortAt(c.pkt, c.pkt.hop + 1)
            /\ LinkTo(c.at, e.to[1], e.old, z)
        BY <2>1, <2>3, <3>2 DEF Bound
      <4>2. LinkTo(c.at, e.to[1], TRUE, z2)
        <5>1. CASE IsNic(c.at)  BY <4>1, <5>1 DEF LinkTo
        <5>2. CASE ~IsNic(c.at)
          <6>1. e.to \in Queues /\ c.at \in Queues  BY <1>3, <4>1 DEF ToRQueues, Place
          <6>2. c.at[1] \in ToR /\ c.at[2] \in Port /\ e.to[1] \in ToR
            BY <3>2, <5>2, <6>1, QueueFacts
          <6>3. ~e.old  BY <1>1, <1>5, <2>1
          <6>4. Peer[z][c.at[1]][c.at[2]] = e.to[1]  BY <4>1, <5>2, <6>3 DEF LinkTo
          <6>5. \/ Peer[z2][c.at[1]][c.at[2]] \in {Peer[z][c.at[1]][c.at[2]], NoToR}
                \/ Peer[z][c.at[1]][c.at[2]] = NoToR
            <7>1. \A s \in Slices, u \in ToR, m \in Port :
                    \/ Peer[(s + 1) % SliceCount][u][m] \in {Peer[s][u][m], NoToR}
                    \/ Peer[s][u][m] = NoToR
              BY HbHAssumption
            <7>2. PICK u \in ToR, m \in Port : u = c.at[1] /\ m = c.at[2]  BY <6>2
            <7>3. QED  BY <7>1, <7>2
          <6>6. NoToR \notin ToR  BY HbHAssumption
          <6>7. QED  BY <5>2, <6>2, <6>4, <6>5, <6>6 DEF LinkTo
        <5>3. QED  BY <5>1, <5>2
      <4>3. d.at = c.at /\ d.to = c.to /\ d.pkt = c.pkt /\ d.item = e2  BY <2>6
      <4>4. e2.old = TRUE /\ e2.to = e.to  BY <2>4
      <4>5. LinkTo(d.at, d.item.to[1], d.item.old, z2)  BY <4>2, <4>3, <4>4
      <4>6. QED  BY <3>2, <4>1, <4>3, <4>4, <4>5 DEF Bound
    <3>3. QED  BY <3>1, <3>2
  <2>9. PlaceOK(k, d, z2)
    <3>1. /\ d.tag = c.tag /\ d.at = c.at /\ d.in = c.in /\ d.to = c.to /\ d.pkt = c.pkt
          /\ d.item = e2
      BY <2>6
    <3>2. e2.pkt = d.pkt /\ c.tag # "held" /\ c.tag # "back"
      BY <1>5, <2>3, <2>4, <3>1 DEF OnTheWay
    <3>3. c.tag = "pipe" => ToItsRack(k, d)  BY <2>3, <3>1 DEF ToItsRack
    <3>4. QED  BY <1>3, <2>3, <2>4, <2>8, <3>1, <3>2, <3>3 DEF PlaceOK
  <2>10. QED  BY <1>1, <1>2, <1>5, <2>1, <2>2, <2>6, <2>7, <2>9
<1>6. QED  BY <1>4, <1>5

\* Where the packets are counted stays the same.
LEMMA SameCounts ==
  ASSUME NEW loc, NEW loc2,
         \A k \in Ids : /\ loc2[k].tag = loc[k].tag /\ loc2[k].at = loc[k].at
                        /\ loc2[k].in = loc[k].in /\ loc2[k].to = loc[k].to
                        /\ loc2[k].pkt = loc[k].pkt
  PROVE  /\ \A x : HeldAt(loc2, x) = HeldAt(loc, x) /\ ServingAt(loc2, x) = ServingAt(loc, x)
         /\ OnLinks(loc2) = OnLinks(loc) /\ \A f : BackOf(loc2, f) = BackOf(loc, f)
         /\ \A x, t : DstIn(loc2, x, t) = DstIn(loc, x, t) /\ DstTo(loc2, x, t) = DstTo(loc, x, t)
         /\ \A x, n : /\ PortIn(loc2, x, n) = PortIn(loc, x, n)
                      /\ PortTo(loc2, x, n) = PortTo(loc, x, n)
         /\ \A f : NicOf(loc2, f) = NicOf(loc, f) /\ Flying(loc2, f) = Flying(loc, f)
<1>1. \A x : HeldAt(loc2, x) = HeldAt(loc, x) /\ ServingAt(loc2, x) = ServingAt(loc, x)
  BY DEF HeldAt, ServingAt
<1>2. OnLinks(loc2) = OnLinks(loc) /\ \A f : BackOf(loc2, f) = BackOf(loc, f)
  BY DEF OnLinks, BackOf
<1>3. \A x, t : DstIn(loc2, x, t) = DstIn(loc, x, t) /\ DstTo(loc2, x, t) = DstTo(loc, x, t)
  BY DEF DstIn, DstTo
<1>4. \A x, n : PortIn(loc2, x, n) = PortIn(loc, x, n) /\ PortTo(loc2, x, n) = PortTo(loc, x, n)
  BY DEF PortIn, PortTo, InFor, ToFor
<1>5. \A f : NicOf(loc2, f) = NicOf(loc, f) /\ Flying(loc2, f) = Flying(loc, f)
  BY DEF NicOf, Flying
<1>6. QED  BY <1>1, <1>2, <1>3, <1>4, <1>5

\* The start of a slice preserves the invariant.
LEMMA ChangeSliceGood ==
  ASSUME HbHIInv, ChangeSlice
  PROVE  Good(queues', got', slice') /\ slice' \in Slices /\ changes' \in 0..MaxChanges
<1>1. PICK Q, g, z, z2 : Q = queues /\ g = got /\ z = slice /\ z2 = slice'  OBVIOUS
<1>2. PICK serving2 : serving2 = [x \in Queues |->
                        IF Q.serving[x] = <<>> THEN <<>>
                        ELSE <<[Q.serving[x][1] EXCEPT !.old = TRUE]>>]
  OBVIOUS
<1>3. PICK pipe2 : pipe2 = [i \in 1..Len(Q.pipe) |-> [Q.pipe[i] EXCEPT !.old = TRUE]]
  OBVIOUS
<1>4. PICK T : T = [Q EXCEPT !.serving = serving2, !.pipe = pipe2]  OBVIOUS
<1>5. /\ z2 = (z + 1) % SliceCount /\ queues' = T /\ got' = g
      /\ \A i \in 1..Len(Q.pipe) : ~Q.pipe[i].old
      /\ \A x \in Queues : Q.serving[x] # <<>> => ~Q.serving[x][1].old
  BY <1>1, <1>2, <1>3, <1>4 DEF ChangeSlice
<1>6. z \in Slices /\ Good(Q, g, z)  BY <1>1 DEF HbHIInv, HbHTyped
<1>7. z2 \in Slices
  <2>1. SliceCount \in Nat \ {0}  BY HbHAssumption
  <2>2. z + 1 \in Int  BY <1>6 DEF Slices
  <2>3. (z + 1) % SliceCount \in 0..(SliceCount - 1)  BY <2>1, <2>2
  <2>4. QED  BY <1>5, <2>3 DEF Slices
<1>8. changes' \in 0..MaxChanges
  <2>1. changes \in 0..MaxChanges /\ MaxChanges \in Nat
    BY HbHAssumption DEF HbHIInv, HbHTyped
  <2>2. changes < MaxChanges /\ changes' = changes + 1  BY DEF ChangeSlice
  <2>3. QED  BY <2>1, <2>2
<1>9. Q \in QueueRecords /\ Sound(Q)  BY <1>6 DEF Good, Sound
<1>10. PICK loc : Ledger(Q, loc, g, z)  BY <1>6 DEF Good
<1>11. /\ Placement(loc, z) /\ HeldOK(Q.held, loc) /\ ServingOK(Q.serving, loc)
       /\ PipeOK(Q.pipe, loc) /\ BackOK(Q.rtx, loc) /\ SentOK(Q.sent, loc) /\ GotOK(g, loc)
       /\ DstOK(Q.toDst, loc) /\ PortOK(Q.toPort, loc)
       /\ NicOK(Q.nic, loc) /\ FlightOK(Q.flight, loc)
  BY <1>10 DEF Ledger
<1>12. Q.serving \in Services /\ Q.pipe \in Seq(OnLink) /\ Len(Q.pipe) \in Nat
  BY <1>9, RecordFields, LenProperties
<1>13. ASSUME NEW k \in Ids, loc[k].tag \in OnTheWay  PROVE ~loc[k].item.old
  <2>1. CASE loc[k].tag = "serving"
    <3>1. PICK x : x = loc[k].at  OBVIOUS
    <3>2. x \in Queues  BY <1>11, <3>1 DEF Placement, Place
    <3>3. k \in ServingAt(loc, x)  BY <2>1, <3>1 DEF ServingAt
    <3>4. PICK m \in Ids : Q.serving[x] = <<loc[m].item>> /\ ServingAt(loc, x) = {m}
      BY <1>11, <3>2, <3>3 DEF ServingOK
    <3>5. m = k /\ Q.serving[x] # <<>> /\ Q.serving[x][1] = loc[k].item  BY <3>3, <3>4
    <3>6. QED  BY <1>5, <3>2, <3>5
  <2>2. CASE loc[k].tag = "pipe"
    <3>1. k \in OnLinks(loc)  BY <2>2 DEF OnLinks
    <3>2. PICK i \in 1..Len(Q.pipe) : loc[k].item = Q.pipe[i]
      BY <1>11, <3>1 DEF PipeOK, Lists
    <3>3. QED  BY <1>5, <3>2
  <2>3. QED  BY <1>13, <2>1, <2>2 DEF OnTheWay
<1>14. PICK loc2 : loc2 = [k \in Ids |-> Aged(loc[k])]  OBVIOUS
<1>15. \A k \in Ids :
         /\ loc2[k] \in Place /\ PlaceOK(k, loc2[k], z2)
         /\ loc2[k].tag = loc[k].tag /\ loc2[k].at = loc[k].at
         /\ loc2[k].in = loc[k].in /\ loc2[k].to = loc[k].to
         /\ loc2[k].pkt = loc[k].pkt
         /\ loc2[k].item = IF loc[k].tag \in OnTheWay
                           THEN [loc[k].item EXCEPT !.old = TRUE] ELSE loc[k].item
  <2>1. ASSUME NEW k \in Ids
        PROVE  LET c == loc[k]
                   d == Aged(c)
               IN /\ d \in Place /\ PlaceOK(k, d, z2)
                  /\ d.tag = c.tag /\ d.at = c.at /\ d.in = c.in /\ d.to = c.to
                  /\ d.pkt = c.pkt
                  /\ d.item = IF c.tag \in OnTheWay THEN [c.item EXCEPT !.old = TRUE]
                              ELSE c.item
    BY <1>5, <1>6, <1>11, <1>13, AgedOK
  <2>2. QED  BY <1>14, <2>1
<1>16. Placement(loc2, z2)
  <2>1. loc2 \in [Ids -> Place]  BY <1>14, <1>15
  <2>2. QED  BY <1>15, <2>1 DEF Placement
<1>17. /\ \A x : HeldAt(loc2, x) = HeldAt(loc, x) /\ ServingAt(loc2, x) = ServingAt(loc, x)
       /\ OnLinks(loc2) = OnLinks(loc) /\ \A f : BackOf(loc2, f) = BackOf(loc, f)
       /\ \A x, t : DstIn(loc2, x, t) = DstIn(loc, x, t) /\ DstTo(loc2, x, t) = DstTo(loc, x, t)
       /\ \A x, n : /\ PortIn(loc2, x, n) = PortIn(loc, x, n)
                    /\ PortTo(loc2, x, n) = PortTo(loc, x, n)
       /\ \A f : NicOf(loc2, f) = NicOf(loc, f) /\ Flying(loc2, f) = Flying(loc, f)
  BY <1>15, SameCounts
<1>18. ASSUME NEW k \in Ids, loc[k].tag \notin OnTheWay  PROVE loc2[k] = loc[k]
  BY <1>14, <1>18 DEF Aged
<1>19. HeldOK(Q.held, loc2)
  <2>1. ASSUME NEW x \in Queues  PROVE Lists(Q.held[x], loc2, HeldAt(loc2, x))
    <3>1. \A k \in HeldAt(loc, x) : loc2[k] = loc[k]  BY <1>18 DEF HeldAt, OnTheWay
    <3>2. Lists(Q.held[x], loc, HeldAt(loc, x))  BY <1>11 DEF HeldOK
    <3>3. Lists(Q.held[x], loc2, HeldAt(loc, x))  BY <3>1, <3>2, ListsKept
    <3>4. QED  BY <1>17, <3>3
  <2>2. QED  BY <2>1 DEF HeldOK
<1>20. BackOK(Q.rtx, loc2)
  <2>1. ASSUME NEW f \in Flows  PROVE Lists(Q.rtx[f], loc2, BackOf(loc2, f))
    <3>1. \A k \in BackOf(loc, f) : loc2[k] = loc[k]  BY <1>18 DEF BackOf, OnTheWay
    <3>2. Lists(Q.rtx[f], loc, BackOf(loc, f))  BY <1>11 DEF BackOK
    <3>3. Lists(Q.rtx[f], loc2, BackOf(loc, f))  BY <3>1, <3>2, ListsKept
    <3>4. QED  BY <1>17, <3>3
  <2>2. QED  BY <2>1 DEF BackOK
<1>21. ServingOK(serving2, loc2)
  <2>1. ASSUME NEW x \in Queues
        PROVE  \/ serving2[x] = <<>> /\ ServingAt(loc2, x) = {}
               \/ \E k \in Ids : serving2[x] = <<loc2[k].item>> /\ ServingAt(loc2, x) = {k}
    <3>1. CASE Q.serving[x] = <<>> /\ ServingAt(loc, x) = {}
      BY <1>2, <1>17, <3>1
    <3>2. ASSUME NEW k \in Ids, Q.serving[x] = <<loc[k].item>>, ServingAt(loc, x) = {k}
          PROVE  serving2[x] = <<loc2[k].item>> /\ ServingAt(loc2, x) = {k}
      <4>1. Q.serving[x] # <<>> /\ Q.serving[x][1] = loc[k].item  BY <3>2
      <4>2. loc[k].tag \in OnTheWay  BY <3>2 DEF ServingAt, OnTheWay
      <4>3. loc2[k].item = [loc[k].item EXCEPT !.old = TRUE]  BY <1>15, <4>2
      <4>4. serving2[x] = <<[Q.serving[x][1] EXCEPT !.old = TRUE]>>  BY <1>2, <4>1
      <4>5. QED  BY <1>17, <3>2, <4>1, <4>3, <4>4
    <3>3. QED  BY <1>11, <3>1, <3>2 DEF ServingOK
  <2>2. QED  BY <2>1 DEF ServingOK
<1>22. pipe2 \in Seq(OnLink) /\ Len(pipe2) = Len(Q.pipe)
  <2>1. ASSUME NEW i \in 1..Len(Q.pipe)  PROVE [Q.pipe[i] EXCEPT !.old = TRUE] \in OnLink
    <3>1. Q.pipe[i] \in OnLink  BY <1>12, ElementOfSeq
    <3>2. QED  BY <3>1 DEF OnLink
  <2>2. pipe2 \in [1..Len(Q.pipe) -> OnLink]  BY <1>3, <2>1
  <2>3. QED  BY <1>12, <2>2, FunctionIsSeq
<1>23. PipeOK(pipe2, loc2)
  <2>1. ASSUME NEW k \in OnLinks(loc)
        PROVE  k \in Ids /\ loc2[k].item = [loc[k].item EXCEPT !.old = TRUE]
    <3>1. k \in Ids /\ loc[k].tag \in OnTheWay  BY DEF OnLinks, OnTheWay
    <3>2. QED  BY <1>15, <3>1
  <2>2. Lists(Q.pipe, loc, OnLinks(loc))  BY <1>11 DEF PipeOK
  <2>3. ASSUME NEW i \in 1..Len(pipe2)  PROVE \E k \in OnLinks(loc2) : loc2[k].item = pipe2[i]
    <3>1. PICK k \in OnLinks(loc) : loc[k].item = Q.pipe[i]  BY <1>22, <2>2 DEF Lists
    <3>2. pipe2[i] = [Q.pipe[i] EXCEPT !.old = TRUE]  BY <1>3, <1>22
    <3>3. loc2[k].item = pipe2[i]  BY <2>1, <3>1, <3>2
    <3>4. QED  BY <1>17, <3>3
  <2>4. ASSUME NEW k \in OnLinks(loc2)
        PROVE  \E i \in 1..Len(pipe2) : loc2[k].item = pipe2[i]
    <3>1. k \in OnLinks(loc)  BY <1>17
    <3>2. PICK i \in 1..Len(Q.pipe) : loc[k].item = Q.pipe[i]  BY <2>2, <3>1 DEF Lists
    <3>3. pipe2[i] = [Q.pipe[i] EXCEPT !.old = TRUE]  BY <1>3
    <3>4. loc2[k].item = pipe2[i]  BY <2>1, <3>1, <3>2, <3>3
    <3>5. QED  BY <1>22, <3>4
  <2>5. ASSUME NEW i \in 1..Len(pipe2), NEW j \in 1..Len(pipe2), pipe2[i] = pipe2[j]
        PROVE  i = j
    <3>1. PICK a, b : a = Q.pipe[i] /\ b = Q.pipe[j]  OBVIOUS
    <3>2. a \in OnLink /\ b \in OnLink  BY <1>12, <1>22, <3>1, ElementOfSeq
    <3>3. [a EXCEPT !.old = TRUE] = [b EXCEPT !.old = TRUE]  BY <1>3, <1>22, <2>5, <3>1
    <3>4. ~a.old /\ ~b.old  BY <1>5, <1>22, <3>1
    <3>5. a.pkt = b.pkt /\ a.to = b.to /\ a.from = b.from
      <4>1. PICK c, d : c = [a EXCEPT !.old = TRUE] /\ d = [b EXCEPT !.old = TRUE]  OBVIOUS
      <4>2. /\ c.pkt = a.pkt /\ c.to = a.to /\ c.from = a.from
            /\ d.pkt = b.pkt /\ d.to = b.to /\ d.from = b.from
        BY <3>2, <4>1 DEF OnLink
      <4>3. c = d  BY <3>3, <4>1
      <4>4. QED  BY <4>2, <4>3
    <3>6. a.old = FALSE /\ b.old = FALSE
      <4>1. a.old \in BOOLEAN /\ b.old \in BOOLEAN  BY <3>2 DEF OnLink
      <4>2. QED  BY <3>4, <4>1
    <3>7. a = b
      <4>1. /\ a = [pkt |-> a.pkt, to |-> a.to, old |-> a.old, from |-> a.from]
            /\ b = [pkt |-> b.pkt, to |-> b.to, old |-> b.old, from |-> b.from]
        BY <3>2 DEF OnLink
      <4>2. QED  BY <3>5, <3>6, <4>1
    <3>8. QED  BY <1>22, <2>2, <3>1, <3>7 DEF Lists
  <2>6. QED  BY <2>3, <2>4, <2>5 DEF PipeOK, Lists
<1>24. serving2 \in Services
  <2>1. ASSUME NEW x \in Queues  PROVE serving2[x] \in Seq(Entries)
    <3>1. CASE Q.serving[x] = <<>>
      <4>1. <<>> \in Seq(Entries)  BY EmptySeq
      <4>2. QED  BY <1>2, <3>1, <4>1
    <3>2. CASE Q.serving[x] # <<>>
      <4>1. Q.serving[x][1] \in Entries  BY <1>9, <3>2, ServingType
      <4>2. PICK e : e = [Q.serving[x][1] EXCEPT !.old = TRUE]  OBVIOUS
      <4>3. e \in Entries  BY <4>1, <4>2 DEF Entries
      <4>4. <<e>> \in Seq(Entries)  BY <4>3
      <4>5. QED  BY <1>2, <3>2, <4>2, <4>4
    <3>3. QED  BY <3>1, <3>2
  <2>2. QED  BY <1>2, <2>1 DEF Services
<1>25. T = [held |-> Q.held, serving |-> serving2, toDst |-> Q.toDst, toPort |-> Q.toPort,
            waiting |-> Q.waiting, nic |-> Q.nic, sent |-> Q.sent, flight |-> Q.flight,
            rtx |-> Q.rtx, pipe |-> pipe2]
  BY <1>4, <1>9 DEF QueueRecords
<1>26. T \in QueueRecords  BY <1>9, <1>22, <1>24, <1>25 DEF QueueRecords
<1>27. /\ T.held = Q.held /\ T.serving = serving2 /\ T.toDst = Q.toDst /\ T.toPort = Q.toPort
       /\ T.waiting = Q.waiting /\ T.nic = Q.nic /\ T.sent = Q.sent /\ T.flight = Q.flight
       /\ T.rtx = Q.rtx /\ T.pipe = pipe2
  BY <1>25
<1>28. Sound(T)  BY <1>9, <1>26, <1>27 DEF Sound
<1>29. SentOK(Q.sent, loc2) /\ GotOK(g, loc2)  BY ZenonT(60), <1>11, <1>15 DEF SentOK, GotOK
<1>30. DstOK(Q.toDst, loc2) /\ PortOK(Q.toPort, loc2)  BY <1>11, <1>17 DEF DstOK, PortOK
<1>31. NicOK(Q.nic, loc2) /\ FlightOK(Q.flight, loc2)  BY <1>11, <1>17 DEF NicOK, FlightOK
<1>32. Ledger(T, loc2, g, z2)
  BY <1>16, <1>19, <1>20, <1>21, <1>23, <1>27, <1>29, <1>30, <1>31 DEF Ledger
<1>33. Good(T, g, z2)  BY <1>28, <1>32 DEF Good
<1>34. QED  BY <1>1, <1>5, <1>7, <1>8, <1>33

-----------------------------------------------------------------------------
(* The invariant *)

\* At the start no packet is sent.
LEMMA InitGood == HbHInit => HbHIInv
<1> DEFINE Start(k) == [flow |-> k[1], n |-> k[2], slice |-> 0, hop |-> -1]
           c(k) == [tag |-> "new", at |-> Nic(SrcOf[k[1]]), in |-> Nowhere, to |-> Nowhere,
                    pkt |-> Start(k), item |-> Start(k)]
           none == [x \in Queues |-> <<>>]
           loc == [k \in Ids |-> c(k)]
<1> SUFFICES ASSUME HbHInit  PROVE HbHIInv  OBVIOUS
<1>1. PICK S, g : S = queues /\ g = got  OBVIOUS
<1>2. PICK zero, zeros, ports, empty :
        /\ zero = [f \in Flows |-> 0] /\ zeros = [x \in Queues |-> [t \in ToR |-> 0]]
        /\ ports = [x \in Queues |-> [p \in PortsOut |-> 0]] /\ empty = [f \in Flows |-> <<>>]
  OBVIOUS
<1>3. S = [held |-> none, serving |-> none, toDst |-> zeros, toPort |-> ports,
           waiting |-> none, nic |-> zero, sent |-> zero, flight |-> zero, rtx |-> empty,
           pipe |-> <<>>]
  BY <1>1, <1>2 DEF HbHInit, PortsOut
<1>4. g = [f \in Flows |-> {}] /\ finished = [f \in Flows |-> FALSE] /\ slice = 0 /\ changes = 0
  BY <1>1 DEF HbHInit
<1>5. HbHTyped
  <2>1. 0 \in Slices /\ MaxChanges \in Nat  BY HbHAssumption DEF Slices
  <2>2. QED  BY <1>1, <1>4, <2>1 DEF HbHTyped
<1>6. /\ S.held = none /\ S.serving = none /\ S.toDst = zeros /\ S.toPort = ports
      /\ S.waiting = none /\ S.nic = zero /\ S.sent = zero /\ S.flight = zero
      /\ S.rtx = empty /\ S.pipe = <<>>
  BY <1>3
<1>7. S \in QueueRecords
  <2>1. /\ <<>> \in Seq(HbHPackets) /\ <<>> \in Seq(Entries) /\ <<>> \in Seq(Queues)
        /\ <<>> \in Seq(OnLink)
    BY EmptySeq
  <2>2. none \in HeldLists /\ none \in Services /\ none \in [Queues -> Seq(Queues)]
    BY <2>1 DEF HeldLists, Services
  <2>3. empty \in BackLists  BY <1>2, <2>1 DEF BackLists
  <2>4. zero \in [Flows -> Int] /\ zero \in [Flows -> Nat]  BY <1>2
  <2>5. zeros \in [Queues -> [ToR -> Int]] /\ ports \in [Queues -> [PortsOut -> Int]]
    BY <1>2
  <2> HIDE DEF none
  <2>6. QED  BY <1>3, <2>1, <2>2, <2>3, <2>4, <2>5 DEF QueueRecords
<1>8. Sound(S)
  <2>1. WaitingOK(S.waiting)
    <3>1. ASSUME NEW x \in Queues  PROVE S.waiting[x] = <<>>  BY <1>6
    <3>2. Len(<<>>) = 0 /\ IsInjective(<<>>)  BY EmptySeq DEF IsInjective
    <3>3. QED  BY <3>1, <3>2 DEF WaitingOK
  <2>2. Unused(S.toDst, S.toPort)  BY <1>2, <1>6 DEF Unused
  <2>3. Limits(S.toDst, S.toPort)
    <3>1. D \in Nat /\ P \in Nat  BY HbHAssumption
    <3>2. Uplinks \subseteq Queues  BY DEF Queues
    <3>3. QED  BY <1>2, <1>6, <3>1, <3>2 DEF Limits, PortsOut
  <2>4. Windows(S.nic, S.sent, S.flight)
    <3>1. /\ MaxNicPackets \in Nat /\ MaxInflight \in Nat
          /\ \A f \in Flows : FlowPackets[f] \in Nat
      BY HbHAssumption
    <3>2. QED  BY <1>2, <1>6, <3>1 DEF Windows
  <2>5. QED  BY <1>7, <2>1, <2>2, <2>3, <2>4 DEF Sound
<1>9. ASSUME NEW k \in Ids
      PROVE  /\ loc[k] \in Place /\ PlaceOK(k, loc[k], slice)
             /\ loc[k].tag = "new" /\ loc[k].in = Nowhere /\ loc[k].to = Nowhere
  <2>1. k[1] \in Flows /\ k[2] \in Nat /\ k = <<k[1], k[2]>>  BY DEF Ids
  <2>2. 0 \in Slices  BY HbHAssumption DEF Slices
  <2>3. Start(k) \in HbHPackets /\ Id(Start(k)) = k  BY <2>1, <2>2 DEF HbHPackets, Id
  <2>4. Nic(SrcOf[k[1]]) \in Queues
    <3>1. SrcOf[k[1]] \in ToR  BY <2>1, HbHAssumption
    <3>2. QED  BY <3>1, NicIsQueue
  <2>5. PICK d : d = c(k)  OBVIOUS
  <2>6. /\ d.tag = "new" /\ d.in = Nowhere /\ d.to = Nowhere /\ d.pkt = Start(k)
        /\ d.item = Start(k)
    BY <2>5
  <2>7. d \in Place  BY <2>3, <2>4, <2>5 DEF Place
  <2>8. PlaceOK(k, d, slice)  BY <2>3, <2>6 DEF PlaceOK
  <2>9. QED  BY <2>5, <2>6, <2>7, <2>8
<1>10. loc \in [Ids -> Place]
  <2>1. \A k \in Ids : c(k) \in Place  BY <1>9
  <2>2. QED  BY <2>1
<1> HIDE DEF loc, c, Start
<1>11. Placement(loc, slice)  BY <1>9, <1>10 DEF Placement
<1>12. /\ \A x \in Queues : HeldAt(loc, x) = {} /\ ServingAt(loc, x) = {}
       /\ OnLinks(loc) = {} /\ \A f \in Flows : BackOf(loc, f) = {} /\ Flying(loc, f) = {}
  BY <1>9 DEF HeldAt, ServingAt, OnLinks, BackOf, Flying, Flights
<1>13. \A K : K = {} => Lists(<<>>, loc, K)
  <2>1. Len(<<>>) = 0  BY EmptySeq
  <2>2. QED  BY <2>1 DEF Lists
<1>14. HeldOK(S.held, loc) /\ ServingOK(S.serving, loc)
  BY <1>6, <1>12, <1>13 DEF HeldOK, ServingOK
<1>15. PipeOK(S.pipe, loc) /\ BackOK(S.rtx, loc)
  BY <1>2, <1>6, <1>12, <1>13 DEF PipeOK, BackOK
<1>16. SentOK(S.sent, loc)
  <2>1. ASSUME NEW k \in Ids  PROVE loc[k].tag = "new" <=> k[2] > S.sent[k[1]]
    <3>1. k[1] \in Flows /\ k[2] \in 1..FlowPackets[k[1]]  BY DEF Ids
    <3>2. S.sent[k[1]] = 0 /\ k[2] > 0  BY <1>2, <1>6, <3>1
    <3>3. QED  BY <1>9, <3>2
  <2>2. QED  BY <2>1 DEF SentOK
<1>17. GotOK(g, loc)
  <2>1. ASSUME NEW k \in Ids  PROVE k[2] \notin g[k[1]]
    <3>1. k[1] \in Flows  BY DEF Ids
    <3>2. QED  BY <1>4, <3>1
  <2>2. QED  BY <1>9, <2>1 DEF GotOK
<1>18. \A x \in Queues : /\ \A t : DstIn(loc, x, t) = {} /\ DstTo(loc, x, t) = {}
                         /\ \A n : PortIn(loc, x, n) = {} /\ PortTo(loc, x, n) = {}
  BY <1>9, NowhereIsNoQueue DEF DstIn, DstTo, PortIn, PortTo, InFor, ToFor
<1>19. Cardinality({}) = 0  BY FS_EmptySet
<1>20. DstOK(S.toDst, loc) /\ PortOK(S.toPort, loc)
  <2>1. ToRQueues \subseteq Queues /\ Uplinks \subseteq Queues  BY DEF ToRQueues, Queues
  <2>2. ASSUME NEW x \in ToRQueues, NEW t \in ToR
        PROVE  S.toDst[x][t] = Cardinality(DstIn(loc, x, t)) + Cardinality(DstTo(loc, x, t))
    <3>1. S.toDst[x][t] = 0  BY <1>2, <1>6, <2>1
    <3>2. DstIn(loc, x, t) = {} /\ DstTo(loc, x, t) = {}  BY <1>18, <2>1
    <3>3. QED  BY <1>19, <3>1, <3>2
  <2>3. ASSUME NEW x \in Uplinks, NEW n \in PortsOut
        PROVE  S.toPort[x][n] = Cardinality(PortIn(loc, x, n)) + Cardinality(PortTo(loc, x, n))
    <3>1. S.toPort[x][n] = 0  BY <1>2, <1>6, <2>1
    <3>2. PortIn(loc, x, n) = {} /\ PortTo(loc, x, n) = {}  BY <1>18, <2>1
    <3>3. QED  BY <1>19, <3>1, <3>2
  <2>4. QED  BY <2>2, <2>3 DEF DstOK, PortOK
<1>21. NicOK(S.nic, loc) /\ FlightOK(S.flight, loc)
  <2>1. ASSUME NEW f \in Flows  PROVE NicOf(loc, f) = {}
    <3>1. SrcOf[f] \in ToR  BY HbHAssumption
    <3>2. Nic(SrcOf[f]) \in Queues  BY <3>1, NicIsQueue
    <3>3. QED  BY <1>9, <3>2, NowhereIsNoQueue DEF NicOf
  <2>2. QED  BY <1>2, <1>6, <1>12, <1>19, <2>1 DEF NicOK, FlightOK
<1>22. Ledger(S, loc, g, slice)
  BY <1>11, <1>14, <1>15, <1>16, <1>17, <1>20, <1>21 DEF Ledger
<1>23. QED  BY <1>1, <1>5, <1>8, <1>22 DEF HbHIInv, Good

\* Every step keeps the invariant.
LEMMA StepGood == HbHIInv /\ [HbHNext]_hbhVars => HbHIInv'
<1> SUFFICES ASSUME HbHIInv, [HbHNext]_hbhVars  PROVE HbHIInv'  OBVIOUS
<1>1. HbHTyped /\ Good(queues, got, slice)  BY DEF HbHIInv
<1>2. ASSUME UNCHANGED <<got, finished, slice, changes>>  PROVE HbHTyped'
  BY <1>1, <1>2 DEF HbHTyped
<1>3. ASSUME NEW f \in Flows, StartFlow(f)  PROVE HbHIInv'
  <2>1. UNCHANGED <<got, finished, slice, changes>>  BY <1>3 DEF StartFlow
  <2>2. Good(queues', got', slice')  BY <1>3, StartFlowGood
  <2>3. QED  BY <1>2, <2>1, <2>2 DEF HbHIInv
<1>4. ASSUME NEW x \in Queues, CompleteService(x)  PROVE HbHIInv'
  <2>1. UNCHANGED <<got, finished, slice, changes>>  BY <1>4 DEF CompleteService
  <2>2. Good(queues', got', slice')  BY <1>4, CompleteServiceGood
  <2>3. QED  BY <1>2, <2>1, <2>2 DEF HbHIInv
<1>5. ASSUME NEW x \in Queues, CompleteNic(x)  PROVE HbHIInv'
  <2>1. UNCHANGED <<got, finished, slice, changes>>  BY <1>5 DEF CompleteNic
  <2>2. Good(queues', got', slice')  BY <1>5, CompleteNicGood
  <2>3. QED  BY <1>2, <2>1, <2>2 DEF HbHIInv
<1>6. ASSUME NEW i \in 1..Len(queues.pipe), PipeDelivers(i)  PROVE HbHIInv'
  <2>1. UNCHANGED <<got, finished, slice, changes>>  BY <1>6 DEF PipeDelivers
  <2>2. Good(queues', got', slice')  BY <1>6, PipeDeliversGood
  <2>3. QED  BY <1>2, <2>1, <2>2 DEF HbHIInv
<1>7. ASSUME NEW i \in 1..Len(queues.pipe), SinkReceives(i)  PROVE HbHIInv'
  <2>1. slice' = slice /\ changes' = changes  BY <1>7 DEF SinkReceives
  <2>2. /\ Good(queues', got', slice')
        /\ got' \in [Flows -> SUBSET Nat] /\ \A f \in Flows : got'[f] \subseteq 1..FlowPackets[f]
        /\ finished' \in [Flows -> BOOLEAN]
    BY <1>7, SinkReceivesGood
  <2>3. HbHTyped'  BY <1>1, <2>1, <2>2 DEF HbHTyped
  <2>4. QED  BY <2>2, <2>3 DEF HbHIInv
<1>8. ASSUME ChangeSlice  PROVE HbHIInv'
  <2>1. got' = got /\ finished' = finished  BY <1>8 DEF ChangeSlice
  <2>2. Good(queues', got', slice') /\ slice' \in Slices /\ changes' \in 0..MaxChanges
    BY <1>8, ChangeSliceGood
  <2>3. HbHTyped'  BY <1>1, <2>1, <2>2 DEF HbHTyped
  <2>4. QED  BY <2>2, <2>3 DEF HbHIInv
<1>9. CASE UNCHANGED hbhVars
  <2>1. queues' = queues /\ got' = got /\ slice' = slice /\ finished' = finished /\ changes' = changes
    BY <1>9 DEF hbhVars
  <2>2. HbHTyped'  BY <1>2, <2>1
  <2>3. Good(queues', got', slice')  BY <1>1, <2>1
  <2>4. QED  BY <2>2, <2>3 DEF HbHIInv
<1>10. QED
  BY <1>3, <1>4, <1>5, <1>6, <1>7, <1>8, <1>9 DEF HbHNext, Complete, Arrive

\* The invariant holds in every reachable state.
THEOREM HbHInvariance == HbHSpec => []HbHIInv
<1>1. HbHInit => HbHIInv  BY InitGood
<1>2. HbHIInv /\ [HbHNext]_hbhVars => HbHIInv'  BY StepGood
<1>3. QED  BY <1>1, <1>2, PTL DEF HbHSpec

-----------------------------------------------------------------------------
(* What the invariant says of the properties of the model *)

\* The packets of some places.
PacketsAt(loc, K) == {loc[k].pkt : k \in K}

\* They are as many as the places.
LEMMA AsManyPackets ==
  ASSUME NEW loc, NEW z, Placement(loc, z), NEW K \in SUBSET Ids
  PROVE  Cardinality(PacketsAt(loc, K)) = Cardinality(K)
<1> DEFINE F == PacketsAt(loc, K)
           m == [k \in K |-> loc[k].pkt]
<1>1. \A k \in K : Id(loc[k].pkt) = k  BY DEF Placement, PlaceOK
<1>2. m \in Injection(K, F)
  <2>1. m \in [K -> F]  BY DEF PacketsAt
  <2>2. \A a, b \in K : m[a] = m[b] => a = b  BY <1>1
  <2>3. QED  BY <2>1, <2>2 DEF Injection, IsInjective
<1>3. m \in Surjection(K, F)  BY DEF Surjection, PacketsAt
<1>4. ExistsBijection(K, F)  BY <1>2, <1>3 DEF ExistsBijection, Bijection
<1>5. IsFiniteSet(K)  BY IdsFinite, FS_Subset
<1>6. QED  BY <1>4, <1>5, FS_Bijection

\* The packets inside a queue, and the ones that come to it.
LEMMA InsideComing ==
  ASSUME NEW loc, Ledger(queues, loc, got, slice), queues \in QueueRecords, NEW x \in Queues
  PROVE  /\ Inside(x) = PacketsAt(loc, {k \in Ids : loc[k].in = x})
         /\ Coming(x) = PacketsAt(loc, {k \in Ids : loc[k].to = x})
<1>1. PICK S : S = queues  OBVIOUS
<1>2. /\ Placement(loc, slice) /\ HeldOK(S.held, loc) /\ ServingOK(S.serving, loc)
      /\ PipeOK(S.pipe, loc)
  BY <1>1 DEF Ledger
<1>3. S.held \in HeldLists /\ S.serving \in Services /\ S.pipe \in Seq(OnLink)
  BY <1>1, RecordFields
<1>4. \A k \in Ids : loc[k] \in Place /\ PlaceOK(k, loc[k], slice)  BY <1>2 DEF Placement
<1>5. x # Nowhere  BY NowhereIsNoQueue
<1>6. ASSUME NEW y \in Queues, S.serving[y] # <<>>
      PROVE  /\ Len(S.serving[y]) = 1 /\ \E k \in Ids : /\ loc[k].tag = "serving" /\ loc[k].at = y
                                                        /\ loc[k].item = S.serving[y][1]
                                                        /\ loc[k].pkt = S.serving[y][1].pkt
                                                        /\ loc[k].in = y
                                                        /\ Bound(loc[k], slice)
  <2>1. PICK k \in Ids : S.serving[y] = <<loc[k].item>> /\ ServingAt(loc, y) = {k}
    BY <1>2, <1>6 DEF ServingOK
  <2>2. loc[k].tag = "serving" /\ loc[k].at = y  BY <2>1 DEF ServingAt
  <2>3. loc[k].in = y /\ loc[k].item.pkt = loc[k].pkt /\ Bound(loc[k], slice)
    BY <1>4, <2>2 DEF PlaceOK
  <2>4. QED  BY <2>1, <2>2, <2>3
<1>7. ASSUME NEW k \in Ids, loc[k].tag = "serving"
      PROVE  /\ loc[k].at \in Queues /\ S.serving[loc[k].at] = <<loc[k].item>>
             /\ loc[k].item.pkt = loc[k].pkt
  <2>1. loc[k].at \in Queues  BY <1>4 DEF Place
  <2>2. k \in ServingAt(loc, loc[k].at)  BY <1>7 DEF ServingAt
  <2>3. PICK m \in Ids : /\ S.serving[loc[k].at] = <<loc[m].item>>
                         /\ ServingAt(loc, loc[k].at) = {m}
    BY <1>2, <2>1, <2>2 DEF ServingOK
  <2>4. m = k  BY <2>2, <2>3
  <2>5. loc[k].item.pkt = loc[k].pkt  BY <1>4, <1>7 DEF PlaceOK
  <2>6. QED  BY <2>1, <2>3, <2>4, <2>5
<1>8. ASSUME NEW p  PROVE p \in Inside(x) <=> p \in PacketsAt(loc, {k \in Ids : loc[k].in = x})
  <2>1. ASSUME p \in Inside(x)  PROVE \E k \in Ids : loc[k].in = x /\ loc[k].pkt = p
    <3>1. CASE \E i \in 1..Len(S.held[x]) : p = S.held[x][i]
      <4>1. PICK i \in 1..Len(S.held[x]) : p = S.held[x][i]  BY <3>1
      <4>2. LET k == Id(S.held[x][i]) IN
            k \in Ids /\ loc[k].pkt = S.held[x][i] /\ loc[k].in = x
        BY <1>2, <1>3, HeldPacket
      <4>3. QED  BY <4>1, <4>2
    <3>2. CASE \E i \in 1..Len(S.serving[x]) : p = S.serving[x][i].pkt
      <4>1. PICK i \in 1..Len(S.serving[x]) : p = S.serving[x][i].pkt  BY <3>2
      <4>2. S.serving[x] # <<>>  BY <4>1
      <4>3. i = 1  BY <1>6, <4>1, <4>2
      <4>4. QED  BY <1>6, <4>1, <4>2, <4>3
    <3>3. QED  BY <1>1, <2>1, <3>1, <3>2 DEF Inside
  <2>2. ASSUME NEW k \in Ids, loc[k].in = x, loc[k].pkt = p  PROVE p \in Inside(x)
    <3>1. /\ loc[k].tag \in {"held", "serving"} /\ loc[k].at = x
      BY <1>4, <1>5, <2>2 DEF PlaceOK, Place
    <3>2. CASE loc[k].tag = "held"
      <4>1. k \in HeldAt(loc, x) /\ loc[k].item = p
        BY <1>4, <2>2, <3>1, <3>2 DEF HeldAt, PlaceOK
      <4>2. PICK i \in 1..Len(S.held[x]) : loc[k].item = S.held[x][i]
        BY <1>2, <4>1 DEF HeldOK, Lists
      <4>3. QED  BY <1>1, <4>1, <4>2 DEF Inside
    <3>3. CASE loc[k].tag = "serving"
      <4>1. S.serving[x] = <<loc[k].item>> /\ loc[k].item.pkt = p
        BY <1>7, <2>2, <3>1, <3>3
      <4>2. S.serving[x][1].pkt = p /\ 1 \in 1..Len(S.serving[x])  BY <4>1
      <4>3. QED  BY <1>1, <4>2 DEF Inside
    <3>4. QED  BY <3>1, <3>2, <3>3
  <2>3. QED  BY <2>1, <2>2 DEF PacketsAt
<1>9. ASSUME NEW p  PROVE p \in Coming(x) <=> p \in PacketsAt(loc, {k \in Ids : loc[k].to = x})
  <2>1. ASSUME p \in Coming(x)  PROVE \E k \in Ids : loc[k].to = x /\ loc[k].pkt = p
    <3>1. CASE \E y \in Queues : /\ ~IsDown(y) /\ S.serving[y] # <<>> /\ S.serving[y][1].to = x
                                 /\ p = S.serving[y][1].pkt
      <4>1. PICK y \in Queues : /\ ~IsDown(y) /\ S.serving[y] # <<>> /\ S.serving[y][1].to = x
                                /\ p = S.serving[y][1].pkt
        BY <3>1
      <4>2. PICK k \in Ids : /\ loc[k].at = y /\ loc[k].item = S.serving[y][1]
                             /\ loc[k].pkt = S.serving[y][1].pkt /\ Bound(loc[k], slice)
        BY <1>6, <4>1
      <4>3. loc[k].to = x  BY <4>1, <4>2 DEF Bound
      <4>4. QED  BY <4>1, <4>2, <4>3
    <3>2. CASE \E i \in 1..Len(S.pipe) : /\ ~IsDown(S.pipe[i].from) /\ S.pipe[i].to = x
                                         /\ p = S.pipe[i].pkt
      <4>1. PICK i \in 1..Len(S.pipe) : /\ ~IsDown(S.pipe[i].from) /\ S.pipe[i].to = x
                                        /\ p = S.pipe[i].pkt
        BY <3>2
      <4>2. LET k == Id(S.pipe[i].pkt) IN
            /\ k \in Ids /\ loc[k].at = S.pipe[i].from /\ loc[k].item = S.pipe[i]
            /\ loc[k].pkt = S.pipe[i].pkt /\ Bound(loc[k], slice)
        BY <1>2, <1>3, PipePacket
      <4>3. loc[Id(S.pipe[i].pkt)].to = x  BY <4>1, <4>2 DEF Bound
      <4>4. QED  BY <4>1, <4>2, <4>3
    <3>3. QED  BY <1>1, <2>1, <3>1, <3>2 DEF Coming
  <2>2. ASSUME NEW k \in Ids, loc[k].to = x, loc[k].pkt = p  PROVE p \in Coming(x)
    <3>1. loc[k].tag \in {"serving", "pipe"}  BY <1>4, <1>5, <2>2 DEF PlaceOK, Place
    <3>2. Bound(loc[k], slice) /\ loc[k].item.pkt = p  BY <1>4, <2>2, <3>1 DEF PlaceOK
    <3>3. ~IsDown(loc[k].at) /\ loc[k].item.to = x  BY <1>5, <2>2, <3>2 DEF Bound
    <3>4. CASE loc[k].tag = "serving"
      <4>1. PICK y \in Queues : y = loc[k].at  BY <1>7, <3>4
      <4>2. S.serving[y] = <<loc[k].item>>  BY <1>7, <3>4, <4>1
      <4>3. S.serving[y] # <<>> /\ S.serving[y][1] = loc[k].item  BY <4>2
      <4>4. QED  BY <1>1, <3>2, <3>3, <4>1, <4>3 DEF Coming
    <3>5. CASE loc[k].tag = "pipe"
      <4>1. k \in OnLinks(loc)  BY <3>5 DEF OnLinks
      <4>2. PICK i \in 1..Len(S.pipe) : loc[k].item = S.pipe[i]
        BY <1>2, <4>1 DEF PipeOK, Lists
      <4>3. loc[k].item.from = loc[k].at  BY <1>4, <3>5 DEF PlaceOK
      <4>4. QED  BY <1>1, <3>2, <3>3, <4>2, <4>3 DEF Coming
    <3>6. QED  BY <3>1, <3>4, <3>5
  <2>3. QED  BY <2>1, <2>2 DEF PacketsAt
<1>10. QED  BY <1>8, <1>9

\* The counters count what is in the queues and on the way to them: each set of
\* packets has as many members as there are packets placed there.
LEMMA CountsFollow == HbHIInv => CountsMatch
<1> SUFFICES ASSUME HbHIInv  PROVE CountsMatch  OBVIOUS
<1>1. Good(queues, got, slice) /\ queues \in QueueRecords  BY DEF HbHIInv, Good, Sound
<1>2. PICK loc : Ledger(queues, loc, got, slice)  BY <1>1 DEF Good
<1>3. Placement(loc, slice) /\ DstOK(queues.toDst, loc) /\ PortOK(queues.toPort, loc)
  BY <1>2 DEF Ledger
<1>4. \A k \in Ids : Id(loc[k].pkt) = k /\ loc[k].pkt.flow = k[1]
  BY <1>3 DEF Placement, PlaceOK, Id
<1>5. ASSUME NEW x \in Queues
      PROVE  /\ Inside(x) = PacketsAt(loc, {k \in Ids : loc[k].in = x})
             /\ Coming(x) = PacketsAt(loc, {k \in Ids : loc[k].to = x})
  BY <1>1, <1>2, InsideComing
<1>6. ASSUME NEW x \in Queues, ~IsNic(x), NEW t \in ToR
      PROVE  queues.toDst[x][t] = Cardinality({p \in Inside(x) : DstOf[p.flow] = t})
                                  + Cardinality({p \in Coming(x) : DstOf[p.flow] = t})
  <2>1. {p \in Inside(x) : DstOf[p.flow] = t} = PacketsAt(loc, DstIn(loc, x, t))
    BY <1>4, <1>5 DEF PacketsAt, DstIn
  <2>2. {p \in Coming(x) : DstOf[p.flow] = t} = PacketsAt(loc, DstTo(loc, x, t))
    BY <1>4, <1>5 DEF PacketsAt, DstTo
  <2>3. DstIn(loc, x, t) \in SUBSET Ids /\ DstTo(loc, x, t) \in SUBSET Ids
    BY DEF DstIn, DstTo
  <2>4. /\ Cardinality(PacketsAt(loc, DstIn(loc, x, t))) = Cardinality(DstIn(loc, x, t))
        /\ Cardinality(PacketsAt(loc, DstTo(loc, x, t))) = Cardinality(DstTo(loc, x, t))
    BY <1>3, <2>3, AsManyPackets
  <2>5. queues.toDst[x][t] = Cardinality(DstIn(loc, x, t)) + Cardinality(DstTo(loc, x, t))
    BY <1>3, <1>6 DEF DstOK, ToRQueues
  <2>6. QED  BY <2>1, <2>2, <2>4, <2>5
<1>7. ASSUME NEW x \in Queues, ~IsNic(x), ~IsDown(x), NEW n \in Port \cup {"down"}
      PROVE  queues.toPort[x][n] = Cardinality({p \in Inside(x) : PortAt(p, p.hop + 1) = n})
                                   + Cardinality({p \in Coming(x) : PortAt(p, p.hop + 2) = n})
  <2>1. {p \in Inside(x) : PortAt(p, p.hop + 1) = n} = PacketsAt(loc, PortIn(loc, x, n))
    BY <1>5 DEF PacketsAt, PortIn, InFor
  <2>2. {p \in Coming(x) : PortAt(p, p.hop + 2) = n} = PacketsAt(loc, PortTo(loc, x, n))
    BY <1>5 DEF PacketsAt, PortTo, ToFor
  <2>3. PortIn(loc, x, n) \in SUBSET Ids /\ PortTo(loc, x, n) \in SUBSET Ids
    BY DEF PortIn, PortTo
  <2>4. /\ Cardinality(PacketsAt(loc, PortIn(loc, x, n))) = Cardinality(PortIn(loc, x, n))
        /\ Cardinality(PacketsAt(loc, PortTo(loc, x, n))) = Cardinality(PortTo(loc, x, n))
    BY <1>3, <2>3, AsManyPackets
  <2>5. x \in Uplinks  BY <1>7, QueueFacts
  <2>6. queues.toPort[x][n] = Cardinality(PortIn(loc, x, n)) + Cardinality(PortTo(loc, x, n))
    BY <1>3, <2>5 DEF PortOK, PortsOut
  <2>7. QED  BY <2>1, <2>2, <2>4, <2>6
<1>8. QED  BY <1>6, <1>7 DEF CountsMatch

\* The invariant implies the types: no count is negative.
LEMMA TypesFollow == HbHIInv => HbHTypeOK
<1> SUFFICES ASSUME HbHIInv  PROVE HbHTypeOK  OBVIOUS
<1>1. PICK S : S = queues  OBVIOUS
<1>2. HbHTyped /\ Good(S, got, slice)  BY <1>1 DEF HbHIInv
<1>3. /\ S \in QueueRecords /\ WaitingOK(S.waiting) /\ Unused(S.toDst, S.toPort)
      /\ Windows(S.nic, S.sent, S.flight)
  BY <1>2 DEF Good, Sound
<1>4. PICK loc : Ledger(S, loc, got, slice)  BY <1>2 DEF Good
<1>5. /\ ServingOK(S.serving, loc) /\ DstOK(S.toDst, loc) /\ PortOK(S.toPort, loc)
      /\ NicOK(S.nic, loc) /\ FlightOK(S.flight, loc)
  BY <1>4 DEF Ledger
<1>6. \A K : K \subseteq Ids => Cardinality(K) \in Nat
  <2>1. \A K : K \subseteq Ids => IsFiniteSet(K)  BY IdsFinite, FS_Subset
  <2>2. QED  BY <2>1, FS_CardinalityType
<1>7. /\ S.toDst \in [Queues -> [ToR -> Int]] /\ S.toPort \in [Queues -> [PortsOut -> Int]]
      /\ S.nic \in [Flows -> Int] /\ S.sent \in [Flows -> Nat] /\ S.flight \in [Flows -> Int]
  BY <1>3, RecordFields
<1>8. ASSUME NEW x \in Queues, NEW t \in ToR  PROVE S.toDst[x][t] \in Nat
  <2>1. CASE IsNic(x)
    <3>1. S.toDst[x][t] = 0  BY <1>3, <2>1 DEF Unused
    <3>2. QED  BY <3>1
  <2>2. CASE ~IsNic(x)
    <3>1. DstIn(loc, x, t) \subseteq Ids /\ DstTo(loc, x, t) \subseteq Ids
      BY DEF DstIn, DstTo
    <3>2. Cardinality(DstIn(loc, x, t)) \in Nat /\ Cardinality(DstTo(loc, x, t)) \in Nat
      BY <1>6, <3>1
    <3>3. S.toDst[x][t] = Cardinality(DstIn(loc, x, t)) + Cardinality(DstTo(loc, x, t))
      BY <1>5, <2>2 DEF DstOK, ToRQueues
    <3>4. QED  BY <3>2, <3>3
  <2>3. QED  BY <2>1, <2>2
<1>9. ASSUME NEW x \in Queues, NEW n \in PortsOut  PROVE S.toPort[x][n] \in Nat
  <2>1. CASE x \notin Uplinks
    <3>1. S.toPort[x][n] = 0  BY <1>3, <2>1 DEF Unused
    <3>2. QED  BY SMTT(30), <3>1
  <2>2. CASE x \in Uplinks
    <3>1. PortIn(loc, x, n) \subseteq Ids /\ PortTo(loc, x, n) \subseteq Ids
      BY DEF PortIn, PortTo
    <3>2. Cardinality(PortIn(loc, x, n)) \in Nat /\ Cardinality(PortTo(loc, x, n)) \in Nat
      BY <1>6, <3>1
    <3>3. S.toPort[x][n] = Cardinality(PortIn(loc, x, n)) + Cardinality(PortTo(loc, x, n))
      BY <1>5, <2>2 DEF PortOK
    <3>4. QED  BY <3>2, <3>3
  <2>3. QED  BY <2>1, <2>2
<1>10. ASSUME NEW x \in Queues
       PROVE  /\ S.toDst[x] \in [ToR -> Nat] /\ S.toPort[x] \in [Port \cup {"down"} -> Nat]
              /\ Len(S.serving[x]) <= 1 /\ IsInjective(S.waiting[x])
  <2>1. S.toDst[x] \in [ToR -> Nat]
    <3>1. S.toDst[x] \in [ToR -> Int]  BY <1>7
    <3>2. QED  BY <1>8, <3>1
  <2>2. S.toPort[x] \in [Port \cup {"down"} -> Nat]
    <3>1. S.toPort[x] \in [PortsOut -> Int]  BY <1>7
    <3>2. QED  BY <1>9, <3>1 DEF PortsOut
  <2>3. Len(S.serving[x]) <= 1
    <3>1. CASE S.serving[x] = <<>>
      <4>1. Len(S.serving[x]) = 0  BY <3>1, EmptySeq
      <4>2. QED  BY <4>1
    <3>2. CASE \E k \in Ids : S.serving[x] = <<loc[k].item>>  BY <3>2
    <3>3. QED  BY <1>5, <3>1, <3>2 DEF ServingOK
  <2>4. IsInjective(S.waiting[x])  BY <1>3 DEF WaitingOK
  <2>5. QED  BY <2>1, <2>2, <2>3, <2>4
<1>11. ASSUME NEW f \in Flows
       PROVE  /\ S.nic[f] \in 0..MaxNicPackets /\ S.sent[f] \in 0..FlowPackets[f]
              /\ S.flight[f] \in 0..MaxInflight
  <2>1. MaxNicPackets \in Nat /\ MaxInflight \in Nat /\ FlowPackets[f] \in Nat
    BY HbHAssumption
  <2>2. NicOf(loc, f) \subseteq Ids /\ Flying(loc, f) \subseteq Ids  BY DEF NicOf, Flying
  <2>3. S.nic[f] \in Nat /\ S.flight[f] \in Nat
    <3>1. Cardinality(NicOf(loc, f)) \in Nat /\ Cardinality(Flying(loc, f)) \in Nat
      BY <1>6, <2>2
    <3>2. QED  BY <1>5, <3>1 DEF NicOK, FlightOK
  <2>4. S.sent[f] \in Nat  BY <1>7
  <2>5. S.nic[f] <= MaxNicPackets /\ S.flight[f] <= MaxInflight /\ S.sent[f] <= FlowPackets[f]
    BY <1>3 DEF Windows
  <2>6. QED  BY <2>1, <2>3, <2>4, <2>5
<1>12. /\ \A f \in Flows : got[f] \subseteq 1..FlowPackets[f]
       /\ DOMAIN got = Flows /\ finished \in [Flows -> BOOLEAN]
       /\ slice \in Slices /\ changes \in 0..MaxChanges
  BY <1>2 DEF HbHTyped
<1>13. QED  BY <1>1, <1>10, <1>11, <1>12 DEF HbHTypeOK

\* The numbers of some packets of f.
NumbersOf(K) == {k[2] : k \in K}

\* There are as many numbers as packets: two packets of one flow differ in number.
LEMMA AsManyNumbers ==
  ASSUME NEW f \in Flows, NEW K \in SUBSET Ids, \A k \in K : k[1] = f
  PROVE  Cardinality(NumbersOf(K)) = Cardinality(K)
<1> DEFINE F == NumbersOf(K)
           m == [k \in K |-> k[2]]
<1>1. \A k \in K : k = <<f, k[2]>>  BY DEF Ids
<1>2. m \in Injection(K, F)
  <2>1. m \in [K -> F]  BY DEF NumbersOf
  <2>2. \A a, b \in K : m[a] = m[b] => a = b  BY <1>1
  <2>3. QED  BY <2>1, <2>2 DEF Injection, IsInjective
<1>3. m \in Surjection(K, F)  BY DEF Surjection, NumbersOf
<1>4. ExistsBijection(K, F)  BY <1>2, <1>3 DEF ExistsBijection, Bijection
<1>5. IsFiniteSet(K)  BY IdsFinite, FS_Subset
<1>6. QED  BY <1>4, <1>5, FS_Bijection

\* The packets of a flow in the network are the ones in a queue, on the way to one
\* or on the link of a downlink.
LEMMA FlyingPackets ==
  ASSUME HbHIInv, NEW loc, Ledger(queues, loc, got, slice), NEW f \in Flows
  PROVE  LET everywhere == UNION {{p \in Inside(x) \cup Coming(x) : p.flow = f} : x \in Queues}
             links == {i \in 1..Len(queues.pipe) :
                         queues.pipe[i].pkt.flow = f /\ IsDown(queues.pipe[i].from)}
         IN {p.n : p \in everywhere} \cup {queues.pipe[i].pkt.n : i \in links}
            = NumbersOf(Flying(loc, f))
<1> DEFINE everywhere == UNION {{p \in Inside(x) \cup Coming(x) : p.flow = f} : x \in Queues}
           links == {i \in 1..Len(queues.pipe) :
                       queues.pipe[i].pkt.flow = f /\ IsDown(queues.pipe[i].from)}
           N == {p.n : p \in everywhere} \cup {queues.pipe[i].pkt.n : i \in links}
<1>1. queues \in QueueRecords  BY DEF HbHIInv, Good, Sound
<1>2. Placement(loc, slice) /\ PipeOK(queues.pipe, loc) /\ queues.pipe \in Seq(OnLink)
  BY <1>1, RecordFields DEF Ledger
<1>3. \A k \in Ids : loc[k] \in Place /\ PlaceOK(k, loc[k], slice)  BY <1>2 DEF Placement
<1>4. \A k \in Ids : /\ Id(loc[k].pkt) = k /\ loc[k].pkt.flow = k[1] /\ loc[k].pkt.n = k[2]
  BY <1>3 DEF PlaceOK, Id
<1>5. ASSUME NEW x \in Queues
      PROVE  /\ Inside(x) = PacketsAt(loc, {k \in Ids : loc[k].in = x})
             /\ Coming(x) = PacketsAt(loc, {k \in Ids : loc[k].to = x})
  BY <1>1, InsideComing
<1>6. ASSUME NEW k \in Ids, k[1] = f, loc[k].pkt \in everywhere  PROVE k[2] \in N
  BY <1>4, <1>6
<1>7. ASSUME NEW k \in Flying(loc, f)  PROVE k[2] \in N
  <2>1. k \in Ids /\ k[1] = f /\ loc[k].tag \in Flights  BY DEF Flying
  <2>2. loc[k].at \in Queues /\ loc[k].pkt.flow = f  BY <1>3, <1>4, <2>1 DEF Place
  <2>3. CASE loc[k].tag \in {"held", "serving"}
    <3>1. PICK x \in Queues : x = loc[k].at  BY <2>2
    <3>2. loc[k].in = x  BY <1>3, <2>1, <2>3, <3>1 DEF PlaceOK
    <3>3. loc[k].pkt \in Inside(x)  BY <1>5, <2>1, <3>2 DEF PacketsAt
    <3>4. loc[k].pkt \in everywhere  BY <2>2, <3>3
    <3>5. QED  BY <1>6, <2>1, <3>4
  <2>4. CASE loc[k].tag = "pipe"
    <3>1. /\ Bound(loc[k], slice) /\ loc[k].item.from = loc[k].at
          /\ loc[k].item.pkt = loc[k].pkt
      BY <1>3, <2>1, <2>4 DEF PlaceOK
    <3>2. CASE IsDown(loc[k].at)
      <4>1. k \in OnLinks(loc)  BY <2>1, <2>4 DEF OnLinks
      <4>2. PICK i \in 1..Len(queues.pipe) : loc[k].item = queues.pipe[i]
        BY <1>2, <4>1 DEF PipeOK, Lists
      <4>3. i \in links  BY <2>2, <3>1, <3>2, <4>2
      <4>4. queues.pipe[i].pkt.n = k[2]  BY <1>4, <2>1, <3>1, <4>2
      <4>5. QED  BY <4>3, <4>4
    <3>3. CASE ~IsDown(loc[k].at)
      <4>1. PICK x \in Queues : loc[k].to = x  BY <3>1, <3>3 DEF Bound, ToRQueues
      <4>2. loc[k].pkt \in Coming(x)  BY <1>5, <2>1, <4>1 DEF PacketsAt
      <4>3. loc[k].pkt \in everywhere  BY <2>2, <4>2
      <4>4. QED  BY <1>6, <2>1, <4>3
    <3>4. QED  BY <3>2, <3>3
  <2>5. QED  BY <2>1, <2>3, <2>4 DEF Flights
<1>8. ASSUME NEW n \in N  PROVE n \in NumbersOf(Flying(loc, f))
  <2>1. CASE \E p \in everywhere : n = p.n
    <3>1. PICK p \in everywhere : n = p.n  BY <2>1
    <3>2. PICK x \in Queues : p \in Inside(x) \cup Coming(x) /\ p.flow = f  BY <3>1
    <3>3. PICK k \in Ids : loc[k].pkt = p /\ (loc[k].in = x \/ loc[k].to = x)
      BY <1>5, <3>2 DEF PacketsAt
    <3>4. loc[k].tag \in Flights
      BY <1>3, <3>3, NowhereIsNoQueue DEF PlaceOK, Place, Flights
    <3>5. k \in Flying(loc, f) /\ k[2] = n  BY <1>4, <3>1, <3>2, <3>3, <3>4 DEF Flying
    <3>6. QED  BY <3>5 DEF NumbersOf
  <2>2. CASE \E i \in links : n = queues.pipe[i].pkt.n
    <3>1. PICK i \in links : n = queues.pipe[i].pkt.n  BY <2>2
    <3>2. i \in 1..Len(queues.pipe) /\ queues.pipe[i].pkt.flow = f  BY <3>1
    <3>3. PICK k : k = Id(queues.pipe[i].pkt)  OBVIOUS
    <3>4. k \in Ids /\ loc[k].tag = "pipe"
      <4>1. LET m == Id(queues.pipe[i].pkt) IN m \in Ids /\ loc[m].tag = "pipe"
        BY <1>2, <3>2, PipePacket
      <4>2. QED  BY <3>3, <4>1
    <3>5. k[1] = f /\ k[2] = n  BY <3>1, <3>2, <3>3 DEF Id
    <3>6. k \in Flying(loc, f)  BY <3>4, <3>5 DEF Flying, Flights
    <3>7. QED  BY <3>5, <3>6 DEF NumbersOf
  <2>3. QED  BY <2>1, <2>2
<1>9. N = NumbersOf(Flying(loc, f))
  <2>1. ASSUME NEW n \in NumbersOf(Flying(loc, f))  PROVE n \in N
    <3>1. PICK k \in Flying(loc, f) : n = k[2]  BY DEF NumbersOf
    <3>2. QED  BY <1>7, <3>1
  <2> HIDE DEF N
  <2>2. QED  BY <1>8, <2>1
<1>10. QED  BY <1>9

\* Every packet a flow has sent is in exactly one place, so nothing is lost.
LEMMA NothingLostFollows == HbHIInv => NothingLost
<1> SUFFICES ASSUME HbHIInv, NEW f \in Flows
    PROVE  LET everywhere == UNION {{p \in Inside(x) \cup Coming(x) : p.flow = f} : x \in Queues}
               links == {i \in 1..Len(queues.pipe) :
                           queues.pipe[i].pkt.flow = f /\ IsDown(queues.pipe[i].from)}
               inside == {p.n : p \in everywhere} \cup {queues.pipe[i].pkt.n : i \in links}
               back == {queues.rtx[f][i].n : i \in 1..Len(queues.rtx[f])}
           IN /\ inside \cup back \cup got[f] = 1..queues.sent[f]
              /\ queues.flight[f] = Cardinality(inside)
              /\ inside \cap back = {} /\ got[f] \cap (inside \cup back) = {}
              /\ \A i \in links : queues.pipe[i].from = Down(DstOf[f])
  BY DEF NothingLost
<1>1. PICK loc : Ledger(queues, loc, got, slice)  BY DEF HbHIInv, Good
<1> DEFINE everywhere == UNION {{p \in Inside(x) \cup Coming(x) : p.flow = f} : x \in Queues}
           links == {i \in 1..Len(queues.pipe) :
                       queues.pipe[i].pkt.flow = f /\ IsDown(queues.pipe[i].from)}
           inside == {p.n : p \in everywhere} \cup {queues.pipe[i].pkt.n : i \in links}
           back == {queues.rtx[f][i].n : i \in 1..Len(queues.rtx[f])}
<1>2. inside = NumbersOf(Flying(loc, f))  BY <1>1, FlyingPackets
<1>3. /\ Placement(loc, slice) /\ BackOK(queues.rtx, loc) /\ SentOK(queues.sent, loc)
      /\ GotOK(got, loc) /\ FlightOK(queues.flight, loc)
  BY <1>1 DEF Ledger
<1>4. \A k \in Ids : loc[k] \in Place /\ PlaceOK(k, loc[k], slice)  BY <1>3 DEF Placement
<1>5. back = NumbersOf(BackOf(loc, f))
  <2>1. Lists(queues.rtx[f], loc, BackOf(loc, f))  BY <1>3 DEF BackOK
  <2>2. \A k \in BackOf(loc, f) : loc[k].item.n = k[2]
    <3>1. ASSUME NEW k \in BackOf(loc, f)  PROVE loc[k].item.n = k[2]
      <4>1. k \in Ids /\ loc[k].tag = "back"  BY DEF BackOf
      <4>2. loc[k].item = loc[k].pkt /\ Id(loc[k].pkt) = k  BY <1>4, <4>1 DEF PlaceOK
      <4>3. QED  BY <4>2 DEF Id
    <3>2. QED  BY <3>1
  <2>3. ASSUME NEW n  PROVE n \in back <=> n \in NumbersOf(BackOf(loc, f))
    <3>1. ASSUME n \in back  PROVE n \in NumbersOf(BackOf(loc, f))
      <4>1. PICK i \in 1..Len(queues.rtx[f]) : n = queues.rtx[f][i].n  BY <3>1
      <4>2. PICK k \in BackOf(loc, f) : loc[k].item = queues.rtx[f][i]  BY <2>1 DEF Lists
      <4>3. QED  BY <2>2, <4>1, <4>2 DEF NumbersOf
    <3>2. ASSUME n \in NumbersOf(BackOf(loc, f))  PROVE n \in back
      <4>1. PICK k \in BackOf(loc, f) : n = k[2]  BY <3>2 DEF NumbersOf
      <4>2. PICK i \in 1..Len(queues.rtx[f]) : loc[k].item = queues.rtx[f][i]
        BY <2>1 DEF Lists
      <4>3. QED  BY <2>2, <4>1, <4>2
    <3>3. QED  BY <3>1, <3>2
  <2> HIDE DEF back
  <2>4. QED  BY <2>3
<1> HIDE DEF inside, back
<1>6. queues.sent[f] \in Nat /\ queues.sent[f] <= FlowPackets[f] /\ FlowPackets[f] \in Nat
  <2>1. queues \in QueueRecords /\ Windows(queues.nic, queues.sent, queues.flight)
    BY DEF HbHIInv, Good, Sound
  <2>2. queues.sent \in [Flows -> Nat]  BY <2>1, RecordFields
  <2>3. QED  BY <2>1, <2>2, HbHAssumption DEF Windows
<1>7. got[f] \subseteq 1..FlowPackets[f]  BY DEF HbHIInv, HbHTyped
<1>8. ASSUME NEW n \in 1..FlowPackets[f]
      PROVE  /\ n \in inside <=> loc[<<f, n>>].tag \in Flights
             /\ n \in back <=> loc[<<f, n>>].tag = "back"
             /\ n \in got[f] <=> loc[<<f, n>>].tag = "got"
             /\ n \in 1..queues.sent[f] <=> loc[<<f, n>>].tag # "new"
             /\ loc[<<f, n>>].tag \in {"new", "held", "serving", "pipe", "back", "got"}
  <2> DEFINE k == <<f, n>>
  <2>1. k \in Ids /\ k[1] = f /\ k[2] = n
    <3>1. n \in Nat /\ k \in Flows \X Nat  BY <1>6
    <3>2. QED  BY <3>1 DEF Ids
  <2>2. \A m \in Ids : m[1] = f /\ m[2] = n => m = k  BY <2>1 DEF Ids
  <2>3. n \in inside <=> loc[k].tag \in Flights
    BY <1>2, <2>1, <2>2 DEF NumbersOf, Flying
  <2>4. n \in back <=> loc[k].tag = "back"  BY <1>5, <2>1, <2>2 DEF NumbersOf, BackOf
  <2>5. n \in got[f] <=> loc[k].tag = "got"  BY <1>3, <2>1 DEF GotOK
  <2>6. n \in 1..queues.sent[f] <=> loc[k].tag # "new"
    <3>1. loc[k].tag = "new" <=> n > queues.sent[f]  BY <1>3, <2>1 DEF SentOK
    <3>2. QED  BY <1>6, <3>1
  <2>7. loc[k].tag \in {"new", "held", "serving", "pipe", "back", "got"}
    BY <1>4, <2>1 DEF Place
  <2>8. QED  BY <2>1, <2>3, <2>4, <2>5, <2>6, <2>7
<1>9. inside \subseteq 1..FlowPackets[f] /\ back \subseteq 1..FlowPackets[f]
  <2>1. \A k \in Ids : k[1] = f => k[2] \in 1..FlowPackets[f]  BY DEF Ids
  <2>2. QED  BY <1>2, <1>5, <2>1 DEF NumbersOf, Flying, BackOf
<1>10. 1..queues.sent[f] \subseteq 1..FlowPackets[f]  BY <1>6
<1>11. inside \cup back \cup got[f] = 1..queues.sent[f]
  <2>1. ASSUME NEW n \in inside \cup back \cup got[f]  PROVE n \in 1..queues.sent[f]
    <3>1. n \in 1..FlowPackets[f]  BY <1>7, <1>9
    <3>2. QED  BY <1>8, <3>1 DEF Flights
  <2>2. ASSUME NEW n \in 1..queues.sent[f]  PROVE n \in inside \cup back \cup got[f]
    <3>1. n \in 1..FlowPackets[f]  BY <1>10
    <3>2. QED  BY <1>8, <3>1 DEF Flights
  <2>3. QED  BY <2>1, <2>2
<1>12. inside \cap back = {} /\ got[f] \cap (inside \cup back) = {}
  BY <1>7, <1>8, <1>9 DEF Flights
<1>13. queues.flight[f] = Cardinality(inside)
  <2>1. Flying(loc, f) \in SUBSET Ids /\ \A k \in Flying(loc, f) : k[1] = f  BY DEF Flying
  <2>2. Cardinality(NumbersOf(Flying(loc, f))) = Cardinality(Flying(loc, f))
    BY <2>1, AsManyNumbers
  <2>3. queues.flight[f] = Cardinality(Flying(loc, f))  BY <1>3 DEF FlightOK
  <2>4. QED  BY <1>2, <2>2, <2>3
<1>14. ASSUME NEW i \in links  PROVE queues.pipe[i].from = Down(DstOf[f])
  <2>1. PipeOK(queues.pipe, loc) /\ queues.pipe \in Seq(OnLink)
    <3>1. queues \in QueueRecords  BY DEF HbHIInv, Good, Sound
    <3>2. QED  BY <1>1, <3>1, RecordFields DEF Ledger
  <2>2. i \in 1..Len(queues.pipe) /\ IsDown(queues.pipe[i].from) /\ queues.pipe[i].pkt.flow = f
    OBVIOUS
  <2>3. IsDown(queues.pipe[i].from) =>
          queues.pipe[i].from = Down(DstOf[Id(queues.pipe[i].pkt)[1]])
    BY <1>3, <2>1, <2>2, PipePacket
  <2>4. Id(queues.pipe[i].pkt)[1] = f  BY <2>2 DEF Id
  <2>5. QED  BY <2>2, <2>3, <2>4
<1>15. QED  BY <1>11, <1>12, <1>13, <1>14 DEF inside, back

\* The counts that are limited are those of the packets, which stay within limits.
LEMMA LimitsFollow == HbHIInv => LimitsHold
  BY DEF HbHIInv, Good, Sound, Limits, LimitsHold, PortsOut

\* The counters of every queue are the packets in it and on the way to it, and are
\* within their types: an unsigned counter never goes below zero
\* (HbHQueue::completeService, packetWasDropped).
THEOREM HbHCountsMatch == HbHSpec => []HbHInv
<1>1. HbHIInv => HbHInv  BY TypesFollow, CountsFollow DEF HbHInv
<1>2. QED  BY <1>1, HbHInvariance, PTL

\* Backpressure holds at every queue (HbHQueue::poll accepts within _D and _P).
THEOREM HbHLimitsHold == HbHSpec => []LimitsHold
<1>1. QED  BY LimitsFollow, HbHInvariance, PTL

\* No packet is lost or doubled, however links go down, queues fill and rotors turn
\* under the packets that wait for them (HbHSrc::addToLost, Queue::sendFromQueue).
THEOREM HbHNothingLost == HbHSpec => []NothingLost
<1>1. QED  BY NothingLostFollows, HbHInvariance, PTL

=============================================================================
