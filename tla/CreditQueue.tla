---------------------------- MODULE CreditQueue ----------------------------
(***************************************************************************)
(* The egress queue of a ToR port (CreditQueue of creditqueue.cpp), and of *)
(* a host whose receiver does not rank its credits: credits are a FIFO.    *)
(*                                                                         *)
(* The queue is an event source.  At most one of its events should be      *)
(* outstanding: the end of a transmission (nextSchedTx) or the credit      *)
(* timer.  doNextEvent tells the two apart only by comparing the clock     *)
(* with nextSchedTx, which is what makes the scheduling delicate.          *)
(***************************************************************************)
EXTENDS CreditLink

Expired(expiry) == now + CredSize > expiry

\* next_cred drops credits from the head until one can still be sent in time;
\* k credits are dropped from cq.
NextCred(cq, k) ==
  /\ \A i \in 1..k : Expired(cq[i])
  /\ k < Len(cq) => ~ Expired(cq[k + 1])

BeginService(dq, cq, evs, st) ==
  \E k \in 0..Len(cq) :
    LET fresh == SubSeq(cq, k + 1, Len(cq))
        ready == Tokens > 0
    IN /\ NextCred(cq, k)
       /\ credQ' = fresh
       /\ dataQ' = dq
       /\ creds' = [st EXCEPT !.timeout = @ + k]
       /\ availCred' = TokensLeft
       /\ lastCredT' = TokenTime
       /\ \/ ready /\ fresh # <<>> /\ SendCredit(evs)
          \/ ~ (ready /\ fresh # <<>>) /\ dq # <<>> /\ SendData(Head(dq), evs)
          \/ ~ ready /\ fresh # <<>> /\ dq = <<>> /\ AwaitToken(evs)
          \/ fresh = <<>> /\ dq = <<>> /\ NothingToSend(evs)

-----------------------------------------------------------------------------
(* receivePacket for a credit (handleCredit included) *)

CreditAdmitted(c) ==
  /\ ~ Overflows /\ ~ RefusedAsTent(c)
  /\ IsShaped(c) => ProbHops[c.hops] \in {"sometimes", "always"}
  /\ LET cq == Append(credQ, now + CredTimeout)
         st == [creds EXCEPT !.tot = @ + 1]
     IN IF IsEmpty
        THEN BeginService(dataQ, cq, events, st)
        ELSE /\ credQ' = cq /\ creds' = st
             /\ UpdateAvailCredit
             /\ UNCHANGED <<dataQ, serviceVars>>
  /\ UNCHANGED <<now, queueSize, datas, aborted>>

ReceiveCredit(c) ==
  /\ creds.tot < MaxCredits /\ now <= ArrivalWindow
  /\ \/ CreditOverflow(c)
     \/ CreditTentative(c)
     \/ CreditShaped(c)
     \/ CreditAdmitted(c)

-----------------------------------------------------------------------------
(* receivePacket for any other packet *)

\* Mutant: data that finds the link idle starts it, though a timer is pending.
DataAdmittedWhenIdle(p) ==
  /\ ~ NoRoom(p) /\ ~ IsAeolus(p)
  /\ queueSize' = queueSize + p.size
  /\ datas' = [datas EXCEPT !.tot = @ + 1]
  /\ LET dq == Append(dataQ, p)
     IN IF txNext = "NONE"
        THEN BeginService(dq, credQ, events, creds)
        ELSE /\ dataQ' = dq
             /\ UpdateAvailCredit
             /\ UNCHANGED <<credQ, serviceVars, creds>>
  /\ UNCHANGED <<now, aborted>>

DataAdmitted(p) ==
  /\ ~ NoRoom(p) /\ ~ IsAeolus(p)
  /\ queueSize' = queueSize + p.size
  /\ datas' = [datas EXCEPT !.tot = @ + 1]
  /\ LET dq == Append(dataQ, p)
     IN IF IsEmpty
        THEN BeginService(dq, credQ, events, creds)
        ELSE /\ dataQ' = dq
             /\ UpdateAvailCredit
             /\ UNCHANGED <<credQ, serviceVars, creds>>
  /\ UNCHANGED <<now, aborted>>

ReceiveData(p) ==
  /\ datas.tot < MaxData /\ now <= ArrivalWindow
  /\ DataOverflow(p) \/ DataUnscheduled(p) \/ DataAdmitted(p)

-----------------------------------------------------------------------------
(* doNextEvent, for the event e of this queue that is due *)

\* completeService: the packet leaves for the pipe and the next one starts.
CompleteService(evs) ==
  LET isCred == txNext = "CRED"
      dq == IF isCred THEN dataQ ELSE Tail(dataQ)
      cq == IF isCred THEN Tail(credQ) ELSE credQ
      st == IF isCred THEN [creds EXCEPT !.tx = @ + 1] ELSE creds
  IN /\ queueSize' = IF isCred THEN queueSize ELSE queueSize - Head(dataQ).size
     /\ datas' = IF isCred THEN datas ELSE [datas EXCEPT !.tx = @ + 1]
     /\ IF dq = <<>> /\ cq = <<>>
        THEN /\ dataQ' = dq /\ credQ' = cq /\ creds' = st
             /\ NothingToSend(evs) /\ UNCHANGED clockVars
        ELSE BeginService(dq, cq, evs, st)

TxDone(e) ==
  /\ e.at = now /\ now = nextSchedTx
  /\ CompleteService(events \ {e})
  /\ UNCHANGED <<now, aborted>>

CreditTimer(e) ==
  /\ e.at = now /\ now # nextSchedTx
  /\ IF timerPending /\ txNext = "NONE"
     THEN BeginService(dataQ, credQ, events \ {e}, creds)
     ELSE /\ events' = events \ {e}
          /\ UNCHANGED <<dataQ, credQ, creds, clockVars, nextSchedTx, txNext,
                         nextPrio, timerPending>>
  /\ UNCHANGED <<now, queueSize, datas, aborted>>

Next ==
  \/ \E c \in Credits : ReceiveCredit(c)
  \/ \E p \in DataPkts : ReceiveData(p)
  \/ \E e \in events : TxDone(e)
  \/ \E e \in events : CreditTimer(e)
  \/ Tick
  \/ Quiet

Spec == Init /\ [][Next]_vars

-----------------------------------------------------------------------------
(* Properties *)

\* Every variable has the type the code declares for it.
TypeOK ==
  /\ now \in Nat
  /\ dataQ \in Seq(DataPkts) /\ queueSize \in Int
  /\ credQ \in Seq(Nat)
  /\ availCred \in 0..MaxAvailCred /\ lastCredT \in Nat
  /\ nextSchedTx \in Nat \cup {NoPendingTx}
  /\ txNext \in {"NONE", "DATA", "CRED"}
  /\ nextPrio \in {-1, 0} /\ timerPending \in BOOLEAN
  /\ events \subseteq [kind : {"tx", "timer"}, at : Nat, copy : {1, 2}]
  /\ creds \in CreditCounters
  /\ datas \in [tot : Nat, tx : Nat, drop : Nat]
  /\ aborted \in Nat

\* The credit being sent arrives at the end of the link before it expires,
\* and no expired credit hides behind a fresh one, where next_cred, which
\* stops at the first fresh credit, would not see it.
CreditsFresh ==
  /\ txNext = "CRED" => nextSchedTx <= credQ[1]
  /\ \A i, j \in 1..Len(credQ) : i < j => credQ[i] <= credQ[j]

=============================================================================
