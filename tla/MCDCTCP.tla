------------------------------ MODULE MCDCTCP -------------------------------
(***************************************************************************)
(* The instance of TCP that TLC checks: a flow of DCTCP, HPCC or Bolt, in  *)
(* the Opera simulator or in the Clos simulator.  Bolt's flows have no SYN *)
(* and HPCC's have one, as in the drivers; both have one fault less than   *)
(* DCTCP's.                                                                *)
(***************************************************************************)
EXTENDS RateTCP

VARIABLES
  clos,   \* the flow is one of the Clos simulator
  class   \* of its source

mcVars == <<rateVars, clos, class>>

Is(c, simulator) == class = c /\ clos = (simulator = "clos")
Opera == Is("dctcp", "opera") /\ UNCHANGED <<dropped, own, clos, class>>
Clos  == Is("dctcp", "clos") /\ UNCHANGED <<own, clos, class>>
Same  == UNCHANGED <<clos, class>>

MCInit ==
  /\ RateInit /\ clos \in BOOLEAN /\ class \in {"dctcp", "hpcc", "bolt"}
  /\ bypass = (class = "hpcc" \/ (clos /\ class = "bolt"))
  /\ class # "dctcp" => established = (class = "bolt")

\* Bound: the faults of a flow.
FaultsLeft == class # "dctcp" => faults' < MaxFaults

StartsFlow ==
  \/ Opera /\ \E s \in Slices : StartFlow(s)
  \/ Clos /\ ClosStartFlow
  \/ Is("hpcc", "opera") /\ HPCCStartFlow /\ Same
  \/ Is("bolt", "opera") /\ BoltStartFlow /\ Same
  \/ Is("hpcc", "clos") /\ ClosHPCCStartFlow /\ Same
  \/ Is("bolt", "clos") /\ ClosBoltStartFlow /\ Same

Timeouts ==
  \/ Opera /\ \E s \in Slices : Timeout(s)
  \/ Clos /\ ClosTimeout
  \/ Is("hpcc", "opera") /\ HPCCTimeout /\ Same
  \/ Is("bolt", "opera") /\ BoltTimeout /\ Same
  \/ clos /\ class # "dctcp" /\ ClosRateTimeout /\ Same

Timers ==
  \/ Opera /\ RtxTimerHook /\ UNCHANGED ecn
  \/ Clos /\ ClosTimerHook
  \/ ~clos /\ class # "dctcp" /\ RtxTimerHook /\ UNCHANGED <<ecn, dropped, own>> /\ FaultsLeft /\ Same
  \/ clos /\ class # "dctcp" /\ ClosTimerHook /\ UNCHANGED own /\ FaultsLeft /\ Same

ReceivesAck ==
  \/ Opera /\ \E a \in BagToSet(acks), w, s \in Slices, e \in BOOLEAN : ReceiveAck(a, w, s, e)
  \/ Clos /\ \E a \in BagToSet(acks), e \in BOOLEAN : ClosReceiveAck(a, e)
  \/ Is("hpcc", "opera") /\ (\E a \in BagToSet(acks) : HPCCReceiveAck(a)) /\ Same
  \/ Is("bolt", "opera") /\ (\E a \in BagToSet(acks), i \in BOOLEAN : BoltReceiveAck(a, i)) /\ Same
  \/ Is("hpcc", "clos") /\ (\E a \in BagToSet(acks) : ClosHPCCReceiveAck(a)) /\ Same
  \/ Is("bolt", "clos") /\ (\E a \in BagToSet(acks), i \in BOOLEAN : ClosBoltReceiveAck(a, i)) /\ Same

ReceivesData ==
  \/ Opera /\ \E p \in BagToSet(net) : ReceiveData(p) /\ UNCHANGED ecn
  \/ Clos /\ \E p \in BagToSet(net) : ClosReceiveData(p)
  \/ ~clos /\ class # "dctcp" /\ (\E p \in BagToSet(net) : ReceiveData(p)) /\ UNCHANGED <<ecn, dropped, own>> /\ Same
  \/ clos /\ class # "dctcp" /\ (\E p \in BagToSet(net) : ClosReceiveData(p)) /\ UNCHANGED own /\ Same

Loses ==
  \/ Opera /\ Lose /\ UNCHANGED ecn
  \/ Clos /\ ClosLose
  \/ ~clos /\ class # "dctcp" /\ Lose /\ UNCHANGED <<ecn, dropped, own>> /\ FaultsLeft /\ Same
  \/ clos /\ class # "dctcp" /\ ClosLose /\ UNCHANGED own /\ FaultsLeft /\ Same

EarlyFeedback ==
  \/ Is("bolt", "opera") /\ HandleSRC /\ Same
  \/ Is("bolt", "clos") /\ ClosHandleSRC /\ Same

MCOver == Over /\ UNCHANGED <<dropped, own, clos, class>>

MCNext ==
  StartsFlow \/ Timeouts \/ Timers \/ ReceivesAck \/ ReceivesData \/ Loses \/ EarlyFeedback \/ MCOver

\* As FairSpec, for all of them; feedback of queues is not owed.
MCFairSpec ==
  /\ MCInit /\ [][MCNext]_mcVars
  /\ WF_mcVars(StartsFlow) /\ WF_mcVars(Timeouts) /\ WF_mcVars(Timers)
  /\ WF_mcVars(ReceivesAck) /\ WF_mcVars(ReceivesData)

=============================================================================
