-------------------------------- MODULE MCNDP -------------------------------
(***************************************************************************)
(* The instance of NDP that TLC checks: a flow of the Opera simulator or   *)
(* one of the Clos simulator, which differ in a few handlers.              *)
(***************************************************************************)
EXTENDS ClosNDP

VARIABLE clos   \* the flow is one of the Clos simulator

mcVars == <<vars, closVars, clos>>

Opera == ~clos /\ UNCHANGED <<closVars, clos>>
Clos  == clos /\ UNCHANGED clos

MCInit == ClosInit /\ clos \in BOOLEAN
MCNext == (Opera /\ Next) \/ (Clos /\ ClosNext)

\* As FairSpec, for both.
MCFairSpec ==
  /\ MCInit /\ [][MCNext]_mcVars
  /\ WF_mcVars((Opera /\ StartFlow) \/ (Clos /\ ClosStartFlow))
  /\ WF_mcVars((Opera /\ PacerEvent) \/ (Clos /\ ClosPacerEvent))
  /\ WF_mcVars(Opera /\ \E k \in 1..Len(sentTimes) : Timeout(k))
  /\ WF_mcVars((Opera /\ \E f \in feedback : ReceivePull(f) \/ ReceiveAck(f) \/ ReceiveNack(f))
                 \/ (Clos /\ ClosFeedback))
  /\ WF_mcVars((Opera /\ \E p \in DOMAIN net :
                           ReceiveBounced(p) \/ ReceiveHeader(p) \/ ReceiveData(p))
                 \/ (Clos /\ ClosPacket))

\* NotForgotten of both simulators.
NeverForgotten == NotForgotten /\ (clos => ClosNotForgotten)

\* Completes of both simulators.
EachCompletes == (~clos => Completes) /\ (clos => ClosCompletes)

=============================================================================
