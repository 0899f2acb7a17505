------------------------------- MODULE MCXPass -------------------------------
(***************************************************************************)
(* The instance of XPass that TLC checks: a flow of the Opera simulator or *)
(* one of the Clos simulator.                                              *)
(***************************************************************************)
EXTENDS ClosXPass

VARIABLE clos   \* the flow is one of the Clos simulator

mcVars == <<vars, dataLost, clos>>

Opera == ~clos /\ UNCHANGED <<dataLost, clos>>
Clos  == clos /\ UNCHANGED clos

MCInit == ClosInit /\ clos \in BOOLEAN
MCNext == (Opera /\ Next) \/ (Clos /\ ClosNext)

\* As FairSpec, for both.
MCFairSpec ==
  /\ MCInit /\ [][MCNext]_mcVars
  /\ WF_mcVars((Opera /\ StartFlow) \/ (Clos /\ ClosStartFlow))
  /\ WF_mcVars((Opera /\ SendCredit) \/ (Clos /\ ClosSendCredit))
  /\ WF_mcVars((Opera /\ \E p \in net : ReceiveData(p))
                 \/ (Clos /\ \E p \in net : ClosReceiveData(p)))
  /\ WF_mcVars(Opera /\ \E ack \in ctls : ReceiveCtl(ack))
  /\ SF_mcVars((Opera /\ \E i \in DOMAIN credits : ReceiveCredit(i))
                 \/ (Clos /\ \E i \in DOMAIN credits : ClosReceiveCredit(i)))

\* NothingLostForGood of both simulators.
NothingLost == (~clos => NothingLostForGood) /\ (clos => ClosNothingLost)

\* Completes of both simulators.
EachCompletes == (~clos => Completes) /\ (clos => ClosCompletes)

\* ImplementsTransfer of both; the last packet of a Clos flow may be longer
\* than what is left of the flow.
EachTransfer ==
  INSTANCE FlowTransfer WITH
    Sizes <- FlowSizes, size <- flowSize, arrived <- Arrived \cap 1..(flowSize + 1),
    outcome <- CASE fcts = 0 /\ ~ finished -> "running"
                 [] fcts = 0 /\ finished   -> "givenUp"
                 [] fcts = 1               -> "delivered"
                 [] fcts > 1               -> "delivered again"
EachImplementsTransfer == EachTransfer!Spec

=============================================================================
