----------------------------- MODULE TrimQueue ------------------------------
(***************************************************************************)
(* The trimming queue of NDP, as the Clos simulator has it: data waits in  *)
(* a low queue, headers and feedback in a high one.  Data that does not    *)
(* fit is cut down to its header, or cuts down the data that came last;    *)
(* a header that does not fit is returned to its sender, and dropped if    *)
(* it has been returned before.  While both queues hold packets, _crt      *)
(* shares the link between them.                                           *)
(*                                                                         *)
(* A packet of the low queue is its size; all headers have one size, so    *)
(* the high queue is their number.  The head of a sequence is served next  *)
(* (the back of the code's list).                                          *)
(***************************************************************************)
EXTENDS Integers, Sequences, SequencesExt, FiniteSetsExt, PacketLists

CONSTANTS
  MaxSize,     \* _maxsize, of each of the two queues
  Header,      \* size of a header
  DataSizes,   \* sizes of data packets
  RatioHigh, RatioLow   \* _ratio_high and _ratio_low

ASSUME TrimAssumption ==
  /\ {MaxSize, Header, RatioHigh, RatioLow} \subseteq Nat \ {0} /\ Header <= MaxSize
  /\ DataSizes # {} /\ DataSizes \subseteq (Header + 1)..MaxSize

\* The code has 640 and 1500 bytes, and headers of 64.  Were a header longer
\* than _ratio_low, headers could end a turn before data is served.
ASSUME TurnAssumption == Header <= RatioLow

\* The drivers give the size in packets, 46 unless told otherwise.  If it
\* could not hold two, the data that came last could be the data in service.
ASSUME RoomAssumption == \A a, b \in DataSizes : a + b <= MaxSize

VARIABLES
  low,         \* _enqueued_low
  high,        \* _enqueued_high, the number of packets
  serv,        \* _serv: "none", "low", "high" (or "rlb")
  crt,         \* _crt
  timed,       \* size of the packet the pending event was timed for
  passed       \* packets sent from one of the queues in a row while the
               \* other one waited (no code reads it)

trimVars == <<low, high, serv, crt, timed, passed>>

TrimInit ==
  /\ low = <<>> /\ high = 0 /\ serv = "none" /\ crt = 0 /\ timed = 0
  /\ passed = [queue |-> "none", count |-> 0]

Bytes(q) == SumSeq(q)
HeaderBytes(h) == Header * h

\* beginService for queues l and h that are not both empty.
\* Mutant: the turn is not started again.
TurnWithoutReset == crt

Turn == IF crt >= RatioHigh + RatioLow THEN 0 ELSE crt

BeginService(l, h) ==
  \/ /\ l # <<>> /\ h > 0 /\ Turn < RatioHigh
     /\ serv' = "high" /\ timed' = Header /\ crt' = Turn + Header
  \/ /\ l # <<>> /\ h > 0 /\ Turn >= RatioHigh
     /\ serv' = "low" /\ timed' = Head(l) /\ crt' = Turn + Head(l)
  \/ /\ l = <<>> /\ h > 0
     /\ serv' = "high" /\ timed' = Header /\ UNCHANGED crt
  \/ /\ l # <<>> /\ h = 0
     /\ serv' = "low" /\ timed' = Head(l) /\ UNCHANGED crt

\* The high queue once a header of this kind has come.
FitsHeader(h) == HeaderBytes(h) + Header <= MaxSize
OneMoreHeader == IF FitsHeader(high) THEN high + 1 ELSE high

\* A header or feedback, or data cut down on arrival.  What does not fit is
\* returned to its sender, or dropped if it has been returned: gone from here.
HeaderArrives ==
  /\ high' = OneMoreHeader
  /\ UNCHANGED <<low, passed>>
  /\ IF serv = "none" /\ FitsHeader(high)
     THEN BeginService(low, high')
     ELSE UNCHANGED <<serv, crt, timed>>

Fits(size) == Bytes(low) + size <= MaxSize

\* The data that came last is cut down to make room, if it is large enough.
MakesRoom(size) == Last(low) >= size

\* Mutant: the data that came first is cut down.
FirstCut(size) == Append(Tail(low), size)

LastCut(size) == Append(Front(low), size)

DataArrives(size) ==
  \/ /\ Fits(size)
     /\ low' = Append(low, size) /\ UNCHANGED <<high, passed>>
     /\ IF serv = "none" THEN BeginService(low', high') ELSE UNCHANGED <<serv, crt, timed>>
  \/ /\ ~ Fits(size) /\ MakesRoom(size)
     /\ low' = LastCut(size) /\ high' = OneMoreHeader
     /\ UNCHANGED passed
     /\ IF serv = "none" THEN BeginService(low', high') ELSE UNCHANGED <<serv, crt, timed>>
  \/ /\ ~ Fits(size)
     /\ HeaderArrives

\* completeService, up to the beginning of the next service.
Sent(queue, waits) ==
  passed' = [queue |-> queue,
             count |-> IF ~ waits THEN 0 ELSE IF passed.queue = queue THEN passed.count + 1 ELSE 1]

SendLow ==
  /\ serv = "low"
  /\ low' = Tail(low) /\ Sent("low", high > 0)
  /\ UNCHANGED high

SendHigh ==
  /\ serv = "high"
  /\ high' = high - 1 /\ Sent("high", low # <<>>)
  /\ UNCHANGED low

-----------------------------------------------------------------------------

\* Every variable has the type the code declares for it, and the byte counts
\* stay within the buffers.
TrimTypeOK ==
  /\ low \in Seq(DataSizes) /\ Bytes(low) <= MaxSize
  /\ high \in Nat /\ HeaderBytes(high) <= MaxSize
  /\ serv \in {"none", "low", "high", "rlb"}
  /\ crt \in 0..(RatioHigh + RatioLow + Max(DataSizes)) /\ timed \in Nat
  /\ passed \in [queue : {"none", "low", "high"}, count : Nat]

Rounds(a, b) == (a + b - 1) \div b

\* Neither queue starves the other: while both wait, at most the headers of
\* one turn and the one in service pass the data, and at most the data that
\* fits in one turn passes a header.  (The data may be small, and _crt keeps
\* its value through the times when only one of the queues is used.)
NoStarvation ==
  /\ passed.queue = "high" => passed.count <= Rounds(RatioHigh, Header) + 1
  /\ passed.queue = "low" => passed.count <= Rounds(RatioLow, Min(DataSizes)) + 1

\* A packet leaves after the time its own size takes on the link: data that
\* is cut down or added meanwhile never replaces the packet in service.
ServedAsTimed ==
  [][/\ serv = "low" /\ Len(low') < Len(low) => Head(low) = timed
     /\ serv = "high" /\ high' < high => Header = timed]_trimVars

=============================================================================
