--------------------------- MODULE MCCreditQueue ---------------------------
(***************************************************************************)
(* Instances of CreditQueue for TLC, of the Opera simulator or of the Clos *)
(* simulator, and the properties that need to remember more than the code  *)
(* does: when the last credits were started, and since when the packet at  *)
(* the head of the data queue waits.                                       *)
(***************************************************************************)
EXTENDS CreditQueue, ClosCreditQueue, PacketLists, TLC

\* Credits are small: a full bucket of them, the one being sent and one more
\* take less than a Spacing (of 64 bytes each, and at least 1500 a Spacing).
ASSUME PaceAssumption == (MaxAvailCred + 2) * CredSize <= Spacing

MCProbHops == 1 :> "always" @@ 2 :> "sometimes"

VARIABLES
  clos,      \* the queue is one of the Clos simulator
  starts,    \* start times of the last MaxAvailCred + 2 credits
  headSince  \* since when the head of dataQ waits, -1 if none waits

mcVars == <<vars, clos, starts, headSince>>

MCInit == clos \in BOOLEAN /\ (IF clos THEN ClosInit ELSE Init) /\ starts = <<>> /\ headSince = -1

CreditStarts == txNext' = "CRED" /\ nextSchedTx' # nextSchedTx

History ==
  /\ starts' = IF ~ CreditStarts THEN starts
               ELSE IF Len(starts) <= MaxAvailCred + 1 THEN Append(starts, now)
               ELSE Append(Tail(starts), now)
  /\ headSince' = IF dataQ' = <<>> \/ txNext' = "DATA" THEN -1
                  ELSE IF headSince = -1 THEN now ELSE headSince

MCNext == ((~clos /\ Next) \/ (clos /\ ClosNext)) /\ History /\ UNCHANGED clos
MCSpec == MCInit /\ [][MCNext]_mcVars

\* Short-term pacing: the bucket lets at most MaxAvailCred saved credits and
\* one new one go at once; the next one is more than a Spacing after the first.
BurstPace ==
  Len(starts) = MaxAvailCred + 2 => starts[MaxAvailCred + 2] > starts[1] + Spacing

\* Credits have strict priority over data, yet paced credits cannot starve
\* it: the packet at the head is started within one Spacing and the time of
\* the credits the bucket allows.
DataNotStarved ==
  headSince # -1 => now - headSince <= Spacing + (MaxAvailCred + 1) * CredSize

\* The bytes of the packets of some types in a queue.
BytesIn(q, types) ==
  SumSeq([i \in 1..Len(q) |-> IF q[i].type \in types THEN q[i].size ELSE 0])
Bytes(types) == BytesIn(dataQ, types)

\* _queuesize, kept by increments, is the number of bytes queued and never
\* exceeds the buffer; the Aeolus threshold keeps room in it: unscheduled
\* data alone can never fill it beyond MaxSizeUnsched.
BufferBytes ==
  /\ queueSize = Bytes({"XPDATA", "UNSCHED", "XPCTL"})
  /\ queueSize <= MaxSize
  /\ Bytes({"UNSCHED"}) <= MaxSizeUnsched

\* The queue keeps its bounds of time and of bytes: credits go neither expired
\* nor in too long a burst, data waits only so long, and the buffer is counted.
WithinBounds == BurstPace /\ (~clos => CreditsFresh) /\ DataNotStarved /\ BufferBytes

=============================================================================
