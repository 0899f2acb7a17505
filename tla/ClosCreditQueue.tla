-------------------------- MODULE ClosCreditQueue ---------------------------
(***************************************************************************)
(* The credit queue of the Clos simulator (src/src/clos/creditqueue.cpp),  *)
(* of its switches and its hosts: the older one, that credits neither      *)
(* leave by expiring nor are refused for anything but want of room.        *)
(*                                                                         *)
(* Here the token bucket is asked only when a credit waits, so that data   *)
(* spends no token, and a timer that is set is not set again.  There is    *)
(* one list of credits (nextPrio stays at its only value while one waits), *)
(* and no time is noted with a credit that is queued.                      *)
(***************************************************************************)
EXTENDS CreditLink

NoExpiry == 0

ClosInit == Init

\* updateAvailCredit and credit_ready are those of CreditLink.
ClosUpdateAvailCredit == UpdateAvailCredit
CreditReady == Tokens > 0

\* scheduleCredit, which beginService only calls with no transmission pending.
ClosScheduleCredit(evs) ==
  IF timerPending THEN NothingToSend(evs) ELSE AwaitToken(evs)

\* beginService; credit_ready moves the bucket on, the callers say what becomes
\* of it if it is not asked.
ClosBeginService(dq, cq, evs) ==
  /\ dataQ' = dq /\ credQ' = cq
  /\ \/ /\ cq # <<>> /\ CreditReady
        /\ availCred' = TokensLeft /\ lastCredT' = TokenTime
        /\ SendCredit(evs)
     \/ /\ cq # <<>> /\ ~ CreditReady
        /\ ClosUpdateAvailCredit
        /\ IF dq # <<>> THEN SendData(Head(dq), evs) ELSE ClosScheduleCredit(evs)
     \/ cq = <<>> /\ dq # <<>> /\ SendData(Head(dq), evs)   \* not asked

-----------------------------------------------------------------------------
(* receivePacket, which moves the bucket on for every packet *)

\* The packet that has been queued starts an idle queue.
StartIfIdle(dq, cq) ==
  IF IsEmpty
  THEN /\ ClosBeginService(dq, cq, events)
       /\ cq = <<>> => ClosUpdateAvailCredit
  ELSE /\ dataQ' = dq /\ credQ' = cq /\ ClosUpdateAvailCredit /\ UNCHANGED serviceVars

ClosReceiveCredit ==
  /\ creds.tot < MaxCredits /\ now <= ArrivalWindow
  /\ \/ \E c \in Credits : CreditOverflow(c)
     \/ /\ ~ Overflows
        /\ StartIfIdle(dataQ, Append(credQ, NoExpiry))
        /\ creds' = [creds EXCEPT !.tot = @ + 1]
        /\ UNCHANGED <<now, queueSize, datas, aborted>>

\* Any other packet: none is unscheduled, and its type makes no difference.  A
\* flow of ExpressPass is not told of the data that is dropped.
ClosData == {p \in DataPkts : p.type = "XPDATA"}
ClosReceiveData(p) ==
  /\ datas.tot < MaxData /\ now <= ArrivalWindow
  /\ \/ NoRoom(p) /\ DropData /\ UNCHANGED aborted
     \/ /\ ~ NoRoom(p)
        /\ StartIfIdle(Append(dataQ, p), credQ)
        /\ queueSize' = queueSize + p.size
        /\ datas' = [datas EXCEPT !.tot = @ + 1]
        /\ UNCHANGED <<now, creds, aborted>>

-----------------------------------------------------------------------------
(* doNextEvent, for the event e of this queue that is due *)

ClosCompleteService(evs) ==
  LET isCred == txNext = "CRED"
      dq == IF isCred THEN dataQ ELSE Tail(dataQ)
      cq == IF isCred THEN Tail(credQ) ELSE credQ
  IN /\ queueSize' = IF isCred THEN queueSize ELSE queueSize - Head(dataQ).size
     /\ creds' = IF isCred THEN [creds EXCEPT !.tx = @ + 1] ELSE creds
     /\ datas' = IF isCred THEN datas ELSE [datas EXCEPT !.tx = @ + 1]
     /\ IF dq = <<>> /\ cq = <<>>
        THEN dataQ' = dq /\ credQ' = cq /\ NothingToSend(evs)
        ELSE ClosBeginService(dq, cq, evs)
     /\ cq = <<>> => UNCHANGED clockVars

ClosTxDone(e) ==
  /\ e.at = now /\ now = nextSchedTx
  /\ ClosCompleteService(events \ {e})
  /\ UNCHANGED <<now, aborted>>

ClosCreditTimer(e) ==
  /\ e.at = now /\ now # nextSchedTx
  /\ IF timerPending /\ txNext = "NONE"
     THEN ClosBeginService(dataQ, credQ, events \ {e})
     ELSE /\ events' = events \ {e}
          /\ UNCHANGED <<dataQ, credQ, clockVars, nextSchedTx, txNext, nextPrio, timerPending>>
  /\ UNCHANGED <<now, queueSize, creds, datas, aborted>>

ClosNext ==
  \/ ClosReceiveCredit
  \/ \E p \in ClosData : ClosReceiveData(p)
  \/ \E e \in events : ClosTxDone(e) \/ ClosCreditTimer(e)
  \/ Tick
  \/ Quiet

=============================================================================
