------------------------------ MODULE MCQueues ------------------------------
(***************************************************************************)
(* The instance of the queues that TLC checks: an uplink's trimming queue  *)
(* with RLB, or one of the queues TCP flows go through.                    *)
(***************************************************************************)
EXTENDS CompositeQueue, SignalQueue

VARIABLE trims   \* the queue is a CompositeQueue

mcVars == <<vars, signalVars, trims>>

MCInit == Init /\ SignalInit /\ trims \in BOOLEAN /\ (trims => kind = "queue")
MCNext ==
  \/ trims /\ Next /\ UNCHANGED <<signalVars, trims>>
  \/ ~trims /\ SignalNext /\ UNCHANGED <<vars, trims>>
MCSpec == MCInit /\ [][MCNext]_mcVars

\* Of whichever queue: types, byte counts within the buffers, a service
\* whenever a packet waits, no RLB packet on a wrong link, sources warned of
\* congestion, and increases granted only out of unused capacity.
EachInv == Inv /\ SignalInv

\* Of whichever queue: what waits is passed by a bounded number of packets.
EachNoStarvation == NoStarvation /\ AckWaitsForOne

\* Of whichever queue: a packet leaves after the time its own size takes, and
\* congestion of an ECNQueue is marked.
EachServedAsTimed == ServedAsTimed /\ LeavesAsTimed

=============================================================================
