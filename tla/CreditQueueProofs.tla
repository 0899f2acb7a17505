------------------------- MODULE CreditQueueProofs -------------------------
(***************************************************************************)
(* Theorems about the credit queues, for every value of the constants.     *)
(*                                                                         *)
(* The first part is about the link that all of them share: the states it  *)
(* can be in (Serving), the balance of the token bucket (Bucket), and the  *)
(* step of beginService that starts the next transmission.                 *)
(*                                                                         *)
(* The second part is about CreditQueue and rests on one inductive         *)
(* invariant, IInv: the types, Serving, where packets went (Conservation)  *)
(* and Bucket.                                                             *)
(*                                                                         *)
(* The third part is about the queues of both simulators as MCCreditQueue  *)
(* puts them together: IInv holds in the Clos simulator as well, and both  *)
(* queues keep their bounds of time and of bytes (BothInv).  Every step of *)
(* either queue is one of a few moves of the link (Moves), and the bounds  *)
(* of time follow from the moves alone.                                    *)
(*                                                                         *)
(* The last part is about NICCreditQueue, whose inductive invariant        *)
(* (NICIInv) adds the ranks of the credits to the state of the link.       *)
(***************************************************************************)
EXTENDS MCCreditQueue, NICCreditQueue, PacketListFacts, SequenceTheorems, TLAPS

Sending(kind, queue) ==
  /\ txNext = kind /\ queue # <<>>
  /\ nextSchedTx >= now /\ nextSchedTx # NoPendingTx
  /\ events = {Event("tx", nextSchedTx)}

Waiting ==
  /\ txNext = "NONE" /\ credQ # <<>> /\ nextPrio = 0 /\ timerPending
  /\ nextSchedTx = NoPendingTx
  /\ \E e \in events : /\ events = {e} /\ e.kind = "timer"
                       /\ now <= e.at /\ e.at <= now + Spacing

Resting == IsEmpty /\ txNext = "NONE" /\ nextSchedTx = NoPendingTx /\ events = {}

Serving ==
  \/ Sending("CRED", credQ) /\ nextPrio = 0
  \/ Sending("DATA", dataQ)
  \/ Waiting
  \/ Resting

\* Tokens handed out and tokens at hand never exceed the first token and one
\* per Spacing up to the time of the last one.
TokensTime(n) == n * Spacing
InService == IF txNext = "CRED" THEN 1 ELSE 0
Bucket ==
  /\ lastCredT <= now
  /\ TokensTime(creds.tx + InService + availCred - 1) <= lastCredT

-----------------------------------------------------------------------------
(* Arithmetic of the token clock *)

\* Division of a time by Spacing.
LEMMA DivMod ==
  ASSUME NEW a \in Nat
  PROVE  /\ a \div Spacing \in Nat
         /\ a % Spacing \in 0..(Spacing - 1)
         /\ a % Spacing <= a
         /\ a - (a % Spacing) = (a \div Spacing) * Spacing
  BY CreditQueueAssumption

\* More tokens take more time.
LEMMA TimesMonotone ==
  ASSUME NEW a \in Int, NEW b \in Int, a <= b
  PROVE  TokensTime(a) <= TokensTime(b)
  BY CreditQueueAssumption DEF TokensTime

\* Bringing the bucket up to date adds a token per Spacing gone by, so the
\* balance of tokens and time can only improve; it stays a legal bucket.
LEMMA TokenFacts ==
  ASSUME availCred \in 0..MaxAvailCred, lastCredT \in Nat, now \in Nat,
         lastCredT <= now,
         NEW n \in Int, TokensTime(n + availCred) <= lastCredT
  PROVE  /\ Tokens \in 0..MaxAvailCred
         /\ TokenTime \in Nat
         /\ TokenTime <= now /\ now < TokenTime + Spacing
         /\ TokensTime(n + Tokens) <= TokenTime
<1> DEFINE gone == now - lastCredT
           new  == gone \div Spacing
<1>1. gone \in Nat  OBVIOUS
<1>2. /\ new \in Nat /\ gone % Spacing \in 0..(Spacing - 1)
      /\ gone % Spacing <= gone
      /\ gone - (gone % Spacing) = new * Spacing
  BY <1>1, DivMod
<1>3. TokenTime = now - (gone % Spacing) /\ TokenTime = lastCredT + new * Spacing
  <2> HIDE DEF new
  <2>1. TokenTime = now - (gone % Spacing)  BY DEF TokenTime
  <2>2. QED  BY <2>1, <1>1, <1>2, CreditQueueAssumption
<1>4. Tokens \in 0..MaxAvailCred /\ Tokens <= availCred + new
  <2>1. Tokens = LesserOf(availCred + new, MaxAvailCred)  BY DEF Tokens
  <2> HIDE DEF new
  <2>2. QED  BY <2>1, <1>2, CreditQueueAssumption DEF LesserOf
<1>5. TokensTime(n + Tokens) <= TokensTime(n + availCred) + new * Spacing
  <2> HIDE DEF new
  <2>1. TokensTime(n + availCred) + new * Spacing = TokensTime(n + availCred + new)
    BY <1>2, CreditQueueAssumption DEF TokensTime
  <2>2. n + Tokens \in Int /\ n + availCred + new \in Int
        /\ n + Tokens <= n + availCred + new
    BY <1>2, <1>4, CreditQueueAssumption
  <2>3. QED  BY <2>1, <2>2, TimesMonotone
<1>6. TokenTime <= now /\ now < TokenTime + Spacing /\ TokenTime \in Nat
  <2> HIDE DEF new, gone
  <2>1. gone % Spacing \in 0..(Spacing - 1) /\ gone % Spacing <= gone  BY <1>2
  <2>2. gone \in Nat /\ gone <= now  BY <1>1 DEF gone
  <2>3. QED  BY <1>3, <2>1, <2>2, CreditQueueAssumption
<1>7. TokensTime(n + Tokens) <= TokenTime
  <2> HIDE DEF new
  <2>1. TokensTime(n + Tokens) \in Int /\ TokensTime(n + availCred) \in Int
        /\ new * Spacing \in Int
    BY <1>2, <1>4, CreditQueueAssumption DEF TokensTime
  <2>2. QED  BY <2>1, <1>3, <1>5
<1>8. QED  BY <1>4, <1>6, <1>7

-----------------------------------------------------------------------------
(* The state of the link *)

\* Arrivals that change no queue keep the link's state.
LEMMA SameLink ==
  ASSUME Serving, UNCHANGED <<now, dataQ, credQ, serviceVars>>
  PROVE  Serving'
  BY DEF Serving, Sending, Waiting, Resting, IsEmpty, serviceVars

\* So do arrivals at the tail of a queue that is being served.
LEMMA LongerQueues ==
  ASSUME Serving, ~ IsEmpty, UNCHANGED <<now, serviceVars>>,
         dataQ # <<>> => dataQ' # <<>>, credQ # <<>> => credQ' # <<>>
  PROVE  Serving'
  BY DEF Serving, Sending, Waiting, Resting, IsEmpty, serviceVars

\* A link with nothing queued rests.
LEMMA RestingWhenEmpty ==
  ASSUME Serving, IsEmpty
  PROVE  txNext = "NONE" /\ events = {}
  BY DEF Serving, Sending, Waiting, Resting, IsEmpty

ServiceTypes ==
  /\ nextSchedTx \in Nat \cup {NoPendingTx}
  /\ txNext \in {"NONE", "DATA", "CRED"}
  /\ nextPrio \in {-1, 0} /\ timerPending \in BOOLEAN
  /\ events \subseteq [kind : {"tx", "timer"}, at : Nat, copy : {1, 2}]

\* Whichever branch beginService takes, the link ends up in a legal state.
LEMMA LinkStep ==
  ASSUME ServiceTypes, now \in Nat, now' = now,
         TokenTime \in Nat, TokenTime <= now, now < TokenTime + Spacing,
         NEW ready \in BOOLEAN,
         dataQ' # <<>> => Head(dataQ').size \in Nat,
         \/ ready /\ credQ' # <<>> /\ SendCredit({})
         \/ ~ (ready /\ credQ' # <<>>) /\ dataQ' # <<>> /\ SendData(Head(dataQ'), {})
         \/ ~ ready /\ credQ' # <<>> /\ dataQ' = <<>> /\ AwaitToken({})
         \/ credQ' = <<>> /\ dataQ' = <<>> /\ NothingToSend({})
  PROVE  ServiceTypes' /\ Serving' /\ (txNext' = "CRED" => ready)
<1> now \in Nat /\ CredSize \in Nat \ {0} /\ Spacing \in Nat
  BY CreditQueueAssumption
<1> nextPrio \in {-1, 0} /\ timerPending \in BOOLEAN
  BY DEF ServiceTypes
<1>0. ASSUME NEW kind, NEW time
      PROVE  Scheduled({}, kind, time) = {Event(kind, time)}
  BY DEF Scheduled, Event
<1> USE DEF Event, ServiceTypes, NoPendingTx
<1>1. CASE ready /\ credQ' # <<>> /\ SendCredit({})
  <2>1. /\ nextSchedTx' = now + CredSize /\ txNext' = "CRED" /\ nextPrio' = 0
        /\ timerPending' = FALSE
        /\ events' = {Event("tx", nextSchedTx')}
    BY <1>0, <1>1 DEF SendCredit
  <2>2. Sending("CRED", credQ)'  BY <1>1, <2>1 DEF Sending
  <2>3. Serving'  BY <2>1, <2>2 DEF Serving
  <2>4. nextSchedTx' \in Nat  BY <2>1
  <2>5. ServiceTypes'
    <3>1. timerPending' \in BOOLEAN  BY <1>1 DEF SendCredit
    <3>2. events' = {Event("tx", nextSchedTx')} /\ nextPrio' = 0 /\ txNext' = "CRED"
      BY <2>1
    <3>3. QED  BY <2>4, <3>1, <3>2
  <2>6. QED  BY <1>1, <2>3, <2>5
<1>2. CASE ~ (ready /\ credQ' # <<>>) /\ dataQ' # <<>> /\ SendData(Head(dataQ'), {})
  <2>2. Head(dataQ').size \in Nat  BY <1>2
  <2>3. /\ nextSchedTx' = now + Head(dataQ').size /\ txNext' = "DATA"
        /\ UNCHANGED <<nextPrio, timerPending>>
        /\ events' = {Event("tx", nextSchedTx')}
    BY <1>0, <1>2 DEF SendData
  <2>4. Sending("DATA", dataQ)'  BY <1>2, <2>2, <2>3 DEF Sending
  <2>5. QED  BY <2>2, <2>3, <2>4 DEF Serving
<1>3. CASE ~ ready /\ credQ' # <<>> /\ dataQ' = <<>> /\ AwaitToken({})
  <2>1. /\ timerPending' = TRUE /\ nextPrio' = 0
        /\ nextSchedTx' = NoPendingTx /\ txNext' = "NONE"
        /\ events' = {Event("timer", TokenTime + Spacing)}
    BY <1>0, <1>3 DEF AwaitToken
  <2>2. Waiting'  BY <1>3, <2>1 DEF Waiting
  <2>3. QED  BY <2>1, <2>2 DEF Serving
<1>4. CASE credQ' = <<>> /\ dataQ' = <<>> /\ NothingToSend({})
  <2>1. Resting'  BY <1>4 DEF NothingToSend, Resting, IsEmpty
  <2>2. QED  BY <1>4, <2>1 DEF NothingToSend, Serving
<1>5. QED  BY <1>1, <1>2, <1>3, <1>4

\* Time that passes does not change the state of the link: it never passes an
\* event.
LEMMA TickServing ==
  ASSUME Serving, ServiceTypes, now \in Nat, Tick
  PROVE  Serving'
<1>1. /\ now' = now + 1 /\ \A e \in events : now < e.at
      /\ UNCHANGED <<dataQ, credQ, serviceVars>>
  BY DEF Tick
<1>2. CASE Sending("CRED", credQ) /\ nextPrio = 0
  <2>1. now' <= nextSchedTx  BY <1>1, <1>2 DEF Sending, Event, ServiceTypes
  <2>2. QED  BY <1>1, <1>2, <2>1 DEF Serving, Sending, serviceVars
<1>3. CASE Sending("DATA", dataQ)
  <2>1. now' <= nextSchedTx  BY <1>1, <1>3 DEF Sending, Event, ServiceTypes
  <2>2. QED  BY <1>1, <1>3, <2>1 DEF Serving, Sending, serviceVars
<1>4. CASE Waiting
  <2>1. PICK e \in events : /\ events = {e} /\ e.kind = "timer"
                            /\ now <= e.at /\ e.at <= now + Spacing
    BY <1>4 DEF Waiting
  <2>2. now < e.at /\ e.at \in Nat  BY <1>1 DEF ServiceTypes
  <2>3. now' <= e.at /\ e.at <= now' + Spacing
    BY <1>1, <2>1, <2>2, CreditQueueAssumption
  <2>4. Waiting'  BY <1>1, <1>4, <2>1, <2>3 DEF Waiting, serviceVars
  <2>5. QED  BY <2>4 DEF Serving
<1>5. CASE Resting
  BY <1>1, <1>5 DEF Serving, Resting, IsEmpty, serviceVars
<1>6. QED  BY <1>2, <1>3, <1>4, <1>5 DEF Serving

-----------------------------------------------------------------------------
(* The queues of the ToR ports *)

IInv == TypeOK /\ Serving /\ Conservation /\ Bucket

-----------------------------------------------------------------------------
(* beginService *)

DropsIn(st) == st.overflow + st.timeout + st.shaping + st.tentative
Accounted(st, queued) == st \in CreditCounters /\ st.tot = st.tx + DropsIn(st) + queued

\* Credits that time out leave the queue and are counted.
LEMMA TimeoutsAccounted ==
  ASSUME NEW st, NEW n \in Nat, NEW k \in 0..n, Accounted(st, n)
  PROVE  /\ Accounted([st EXCEPT !.timeout = @ + k], n - k)
         /\ [st EXCEPT !.timeout = @ + k].tx = st.tx
  BY DEF Accounted, DropsIn, CreditCounters

\* A credit received is counted and queued.
LEMMA ReceivedAccounted ==
  ASSUME NEW st, NEW n \in Nat, Accounted(st, n)
  PROVE  /\ Accounted([st EXCEPT !.tot = @ + 1], n + 1)
         /\ [st EXCEPT !.tot = @ + 1].tx = st.tx
  BY DEF Accounted, DropsIn, CreditCounters

\* A credit sent is counted and leaves the queue.
LEMMA SentAccounted ==
  ASSUME NEW st, NEW n \in Nat, Accounted(st, n), n > 0
  PROVE  /\ Accounted([st EXCEPT !.tx = @ + 1], n - 1)
         /\ [st EXCEPT !.tx = @ + 1].tx = st.tx + 1
  BY DEF Accounted, DropsIn, CreditCounters

\* A credit counted under any of the reasons to refuse it is not queued.
LEMMA DropAccounted ==
  ASSUME NEW st, NEW n \in Nat, Accounted(st, n + 1)
  PROVE  /\ Accounted([st EXCEPT !.overflow = @ + 1], n)
         /\ Accounted([st EXCEPT !.tentative = @ + 1], n)
         /\ Accounted([st EXCEPT !.shaping = @ + 1], n)
         /\ [st EXCEPT !.overflow = @ + 1].tx = st.tx
         /\ [st EXCEPT !.tentative = @ + 1].tx = st.tx
         /\ [st EXCEPT !.shaping = @ + 1].tx = st.tx
<1>1. Accounted([st EXCEPT !.overflow = @ + 1], n)
  BY DEF Accounted, DropsIn, CreditCounters
<1>2. Accounted([st EXCEPT !.tentative = @ + 1], n)
  BY DEF Accounted, DropsIn, CreditCounters
<1>3. Accounted([st EXCEPT !.shaping = @ + 1], n)
  BY DEF Accounted, DropsIn, CreditCounters
<1>4. QED  BY <1>1, <1>2, <1>3 DEF Accounted, CreditCounters

\* A refused credit is counted twice: as received and as refused.
LEMMA DroppedAccounted ==
  ASSUME NEW st, NEW n \in Nat, Accounted(st, n), NEW st2,
         \/ st2 = [st EXCEPT !.tot = @ + 1, !.overflow = @ + 1]
         \/ st2 = [st EXCEPT !.tot = @ + 1, !.tentative = @ + 1]
         \/ st2 = [st EXCEPT !.tot = @ + 1, !.shaping = @ + 1]
  PROVE  Accounted(st2, n) /\ st2.tx = st.tx
<1> DEFINE st1 == [st EXCEPT !.tot = @ + 1]
<1>1. \/ st2 = [st1 EXCEPT !.overflow = @ + 1]
      \/ st2 = [st1 EXCEPT !.tentative = @ + 1]
      \/ st2 = [st1 EXCEPT !.shaping = @ + 1]
  BY DEF Accounted, CreditCounters
<1>2. Accounted(st1, n + 1) /\ st1.tx = st.tx  BY ReceivedAccounted
<1> HIDE DEF st1
<1>3. QED  BY ONLY <1>1, <1>2, n \in Nat, DropAccounted

\* A service that spends a token (one is at hand whenever a credit starts)
\* keeps the balance of the bucket.
LEMMA SpendToken ==
  ASSUME NEW tokens \in 0..MaxAvailCred, NEW sent \in Int, NEW started \in {0, 1},
         started = 1 => tokens > 0,
         NEW left, left = IF tokens > 0 THEN tokens - 1 ELSE tokens,
         NEW time \in Int, TokensTime(sent - 1 + tokens) <= time
  PROVE  left \in 0..MaxAvailCred /\ TokensTime(sent + started + left - 1) <= time
<1>1. left \in 0..MaxAvailCred /\ started + left <= tokens
  BY CreditQueueAssumption
<1>2. sent + started + left - 1 <= sent - 1 + tokens
      /\ sent + started + left - 1 \in Int /\ sent - 1 + tokens \in Int
  BY <1>1, CreditQueueAssumption
<1>3. TokensTime(sent + started + left - 1) <= TokensTime(sent - 1 + tokens)
  BY <1>2, TimesMonotone
<1>4. TokensTime(sent + started + left - 1) \in Int /\ TokensTime(sent - 1 + tokens) \in Int
  BY <1>2, CreditQueueAssumption DEF TokensTime
<1>5. QED  BY <1>1, <1>3, <1>4

\* From a queue that holds something and has no event outstanding,
\* beginService leaves exactly one event, or an empty queue and none, and
\* spends no token it does not have.
LEMMA BeginServiceStep ==
  ASSUME TypeOK, lastCredT <= now, now' = now,
         NEW dq \in Seq(DataPkts), NEW cq \in Seq(Nat), NEW st,
         Accounted(st, Len(cq)),
         TokensTime(st.tx - 1 + availCred) <= lastCredT,
         BeginService(dq, cq, {}, st)
  PROVE  /\ dataQ' = dq /\ credQ' \in Seq(Nat)
         /\ availCred' \in 0..MaxAvailCred /\ lastCredT' \in Nat
         /\ ServiceTypes' /\ Serving'
         /\ Accounted(creds', Len(credQ'))
         /\ Bucket'
<1> DEFINE ready == Tokens > 0
<1>1. PICK k \in 0..Len(cq) :
        /\ credQ' = SubSeq(cq, k + 1, Len(cq))
        /\ dataQ' = dq
        /\ creds' = [st EXCEPT !.timeout = @ + k]
        /\ availCred' = TokensLeft
        /\ lastCredT' = TokenTime
        /\ \/ ready /\ credQ' # <<>> /\ SendCredit({})
           \/ ~ (ready /\ credQ' # <<>>) /\ dataQ' # <<>> /\ SendData(Head(dataQ'), {})
           \/ ~ ready /\ credQ' # <<>> /\ dataQ' = <<>> /\ AwaitToken({})
           \/ credQ' = <<>> /\ dataQ' = <<>> /\ NothingToSend({})
  BY DEF BeginService
<1>2. st.tx \in Nat  BY DEF Accounted, CreditCounters
<1>3. /\ Tokens \in 0..MaxAvailCred
      /\ TokenTime \in Nat
      /\ TokenTime <= now /\ now < TokenTime + Spacing
      /\ TokensTime(st.tx - 1 + Tokens) <= TokenTime
  <2>1. st.tx - 1 \in Int  BY <1>2
  <2>2. availCred \in 0..MaxAvailCred /\ lastCredT \in Nat /\ now \in Nat  BY DEF TypeOK
  <2>3. QED  BY <2>1, <2>2, TokenFacts
<1>4. credQ' \in Seq(Nat) /\ Len(credQ') = Len(cq) - k
  <2>1. credQ' = SubSeq(cq, k + 1, Len(cq))  BY <1>1
  <2>2. Len(cq) \in Nat /\ k \in Nat /\ k <= Len(cq)  OBVIOUS
  <2>3. SubSeq(cq, k + 1, Len(cq)) \in Seq(Nat)
        /\ Len(SubSeq(cq, k + 1, Len(cq))) = Len(cq) - k
    <3>1. k + 1 \in 1..(Len(cq) + 1) /\ Len(cq) \in k..Len(cq)  BY <2>2
    <3> HIDE DEF ready
    <3>2. QED  BY <2>2, <3>1, SubSeqProperties
  <2>4. QED  BY <2>1, <2>3
<1>5. Accounted(creds', Len(credQ')) /\ creds'.tx = st.tx
  <2>1. Len(cq) \in Nat  OBVIOUS
  <2>2. /\ Accounted([st EXCEPT !.timeout = @ + k], Len(cq) - k)
        /\ [st EXCEPT !.timeout = @ + k].tx = st.tx
    BY <2>1, TimeoutsAccounted
  <2>3. creds' = [st EXCEPT !.timeout = @ + k]  BY <1>1
  <2>4. QED  BY <1>4, <2>2, <2>3, Zenon
<1>6. dataQ' = dq /\ lastCredT' = TokenTime /\ availCred' = TokensLeft
  BY <1>1
<1>7. ServiceTypes' /\ Serving' /\ (txNext' = "CRED" => ready)
  <2> HIDE DEF ready
  <2>1. dataQ' \in Seq(DataPkts)  BY <1>6
  <2>2. dataQ' # <<>> => Head(dataQ').size \in Nat
    <3>1. dataQ' # <<>> => Head(dataQ') \in DataPkts  BY <2>1, HeadTailProperties
    <3>2. \A p \in DataPkts : p.size \in Nat  BY CreditQueueAssumption DEF DataPkts
    <3>3. QED  BY <3>1, <3>2
  <2>3. ready \in BOOLEAN  BY DEF ready
  <2>4. ServiceTypes /\ now \in Nat  BY DEF TypeOK, ServiceTypes
  <2>5. QED  BY <1>1, <1>3, <2>2, <2>3, <2>4, LinkStep
<1>8. availCred' \in 0..MaxAvailCred
      /\ TokensTime(st.tx + InService' + availCred' - 1) <= TokenTime
  <2>1. InService' \in {0, 1} /\ (InService' = 1 => Tokens > 0)  BY <1>7 DEF InService
  <2>2. availCred' = IF Tokens > 0 THEN Tokens - 1 ELSE Tokens  BY <1>6 DEF TokensLeft
  <2>3. st.tx \in Int /\ TokenTime \in Int  BY <1>2, <1>3
  <2> HIDE DEF ready
  <2>4. \A left : left = (IF Tokens > 0 THEN Tokens - 1 ELSE Tokens) =>
          /\ left \in 0..MaxAvailCred
          /\ TokensTime(st.tx + InService' + left - 1) <= TokenTime
    BY <1>3, <2>1, <2>3, SpendToken
  <2>5. QED  BY <2>2, <2>4
<1>9. Bucket'
  BY <1>3, <1>5, <1>6, <1>8 DEF Bucket
<1>10. QED  BY <1>3, <1>4, <1>5, <1>6, <1>7, <1>8, <1>9

-----------------------------------------------------------------------------
(* The steps *)

\* A packet that is not admitted, and one that finds the queue busy, only
\* bring the bucket up to date.
LEMMA UpdateAvailStep ==
  ASSUME TypeOK, Bucket, UpdateAvailCredit, now' = now,
         creds'.tx = creds.tx, txNext' = txNext
  PROVE  availCred' \in 0..MaxAvailCred /\ lastCredT' \in Nat /\ Bucket'
<1>1. InService' = InService /\ InService \in {0, 1}  BY DEF InService
<1>2. creds.tx \in Nat  BY DEF TypeOK, CreditCounters
<1>3. creds.tx + InService + availCred - 1 = (creds.tx + InService - 1) + availCred
      /\ creds.tx + InService - 1 \in Int
      /\ availCred \in 0..MaxAvailCred /\ lastCredT \in Nat /\ now \in Nat
  <2>1. availCred \in 0..MaxAvailCred /\ lastCredT \in Nat /\ now \in Nat  BY DEF TypeOK
  <2>2. MaxAvailCred \in Nat  BY CreditQueueAssumption
  <2>3. QED  BY <1>1, <1>2, <2>1, <2>2
<1>4. /\ Tokens \in 0..MaxAvailCred /\ TokenTime \in Nat /\ TokenTime <= now
      /\ TokensTime((creds.tx + InService - 1) + Tokens) <= TokenTime
  BY <1>3, TokenFacts DEF Bucket
<1>5. (creds.tx + InService - 1) + Tokens = creds'.tx + InService' + Tokens - 1
  BY <1>1, <1>2, <1>4, CreditQueueAssumption
<1>6. QED  BY <1>4, <1>5 DEF Bucket, UpdateAvailCredit

DataAccounted(d, queued) ==
  d \in [tot : Nat, tx : Nat, drop : Nat] /\ d.tot = d.tx + d.drop + queued

\* A packet received is counted and queued.
LEMMA DataReceived ==
  ASSUME NEW d, NEW n \in Nat, DataAccounted(d, n)
  PROVE  DataAccounted([d EXCEPT !.tot = @ + 1], n + 1)
  BY DEF DataAccounted

\* A packet sent is counted and leaves the queue.
LEMMA DataSent ==
  ASSUME NEW d, NEW n \in Nat, n > 0, DataAccounted(d, n)
  PROVE  DataAccounted([d EXCEPT !.tx = @ + 1], n - 1)
  BY DEF DataAccounted

\* A packet dropped is counted and leaves the balance.
LEMMA DataLost ==
  ASSUME NEW d, NEW n \in Nat, DataAccounted(d, n + 1)
  PROVE  DataAccounted([d EXCEPT !.drop = @ + 1], n)
  BY DEF DataAccounted

\* A packet received and refused leaves the counters in balance.
LEMMA DataRefused ==
  ASSUME NEW d, NEW n \in Nat, DataAccounted(d, n)
  PROVE  DataAccounted([d EXCEPT !.tot = @ + 1, !.drop = @ + 1], n)
<1> DEFINE d1 == [d EXCEPT !.tot = @ + 1]
<1>1. [d EXCEPT !.tot = @ + 1, !.drop = @ + 1] = [d1 EXCEPT !.drop = @ + 1]
  BY DEF DataAccounted
<1>2. DataAccounted(d1, n + 1)  BY DataReceived
<1> HIDE DEF d1
<1>3. QED  BY <1>1, <1>2, DataLost

\* The invariant as the sum of what beginService takes care of and the rest.
Rest ==
  /\ now \in Nat /\ queueSize \in Int /\ aborted \in Nat
  /\ DataAccounted(datas, Len(dataQ))

Link ==
  /\ dataQ \in Seq(DataPkts) /\ credQ \in Seq(Nat)
  /\ availCred \in 0..MaxAvailCred /\ lastCredT \in Nat
  /\ ServiceTypes /\ Serving /\ Bucket
  /\ Accounted(creds, Len(credQ))

\* The invariant is these two parts.
LEMMA IInvParts == IInv <=> Rest /\ Link
  BY DEF IInv, Rest, Link, TypeOK, ServiceTypes, Conservation, Accounted, Dropped, DropsIn,
         DataAccounted

\* The same of the next state.
LEMMA IInvPartsNext == IInv' <=> Rest' /\ Link'
  BY DEF IInv, Rest, Link, TypeOK, ServiceTypes, Conservation, Accounted, Dropped, DropsIn,
         DataAccounted

\* beginService on a link that was at rest.
LEMMA StartStep ==
  ASSUME IInv, txNext = "NONE", now' = now,
         NEW dq \in Seq(DataPkts), NEW cq \in Seq(Nat), NEW st,
         Accounted(st, Len(cq)), st.tx = creds.tx,
         BeginService(dq, cq, {}, st)
  PROVE  Link' /\ dataQ' = dq
<1>1. TypeOK /\ Bucket /\ creds.tx \in Nat  BY DEF IInv, TypeOK, CreditCounters
<1>2. creds.tx + InService + availCred - 1 = st.tx - 1 + availCred
  <2>1. InService = 0  BY DEF InService
  <2>2. availCred \in Nat  BY <1>1, CreditQueueAssumption DEF TypeOK
  <2>3. \A a, b \in Nat : a + 0 + b - 1 = a - 1 + b  OBVIOUS
  <2>4. QED  BY <1>1, <2>1, <2>2, <2>3
<1>3. TokensTime(st.tx - 1 + availCred) <= lastCredT /\ lastCredT <= now
  BY <1>1, <1>2 DEF Bucket
<1>4. QED  BY <1>1, <1>3, BeginServiceStep DEF Link

\* A credit, refused for any reason or queued, keeps the invariant.
LEMMA ReceiveCreditStep ==
  ASSUME IInv, NEW c \in Credits, ReceiveCredit(c)
  PROVE  IInv'
<1>1. Rest /\ Link /\ TypeOK /\ Bucket /\ Serving  BY IInvParts DEF IInv
<1>2. Rest'
  BY <1>1 DEF Rest, ReceiveCredit, CreditOverflow, CreditTentative, CreditShaped, DropCredit,
       CreditAdmitted, BeginService, UpdateAvailCredit
<1>3. ASSUME \/ CreditOverflow(c)
             \/ CreditTentative(c)
             \/ CreditShaped(c)
      PROVE  Link'
  <2>1. /\ \/ creds' = [creds EXCEPT !.tot = @ + 1, !.overflow = @ + 1]
           \/ creds' = [creds EXCEPT !.tot = @ + 1, !.tentative = @ + 1]
           \/ creds' = [creds EXCEPT !.tot = @ + 1, !.shaping = @ + 1]
        /\ UpdateAvailCredit
        /\ UNCHANGED <<now, dataQ, credQ, serviceVars>>
    BY <1>3 DEF CreditOverflow, CreditTentative, CreditShaped, DropCredit
  <2>2. creds'.tx = creds.tx /\ Accounted(creds', Len(credQ))
    <3>1. Accounted(creds, Len(credQ)) /\ Len(credQ) \in Nat  BY <1>1 DEF Link
    <3>2. QED  BY <2>1, <3>1, DroppedAccounted
  <2>3. availCred' \in 0..MaxAvailCred /\ lastCredT' \in Nat /\ Bucket'
    BY <1>1, <2>1, <2>2, UpdateAvailStep DEF serviceVars
  <2>4. Serving' /\ ServiceTypes'
    BY <1>1, <2>1, SameLink DEF Link, ServiceTypes, serviceVars
  <2>5. QED  BY <1>1, <2>1, <2>2, <2>3, <2>4 DEF Link
<1>4. ASSUME CreditAdmitted(c)
      PROVE  Link'
  <2> DEFINE cq == Append(credQ, now + CredTimeout)
             st == [creds EXCEPT !.tot = @ + 1]
  <2>1. now + CredTimeout \in Nat  BY <1>1, CreditQueueAssumption DEF Rest
  <2>2. cq \in Seq(Nat) /\ Len(cq) = Len(credQ) + 1 /\ cq # <<>>
    BY <1>1, <2>1, AppendProperties DEF Link
  <2>3. Accounted(st, Len(cq)) /\ st.tx = creds.tx
    <3> HIDE DEF cq
    <3>1. Len(credQ) \in Nat  BY <1>1 DEF Link
    <3>2. QED  BY <1>1, <2>2, <3>1, ReceivedAccounted DEF Link
  <2> HIDE DEF cq, st
  <2>4. CASE IsEmpty
    <3>1. BeginService(dataQ, cq, {}, st) /\ now' = now /\ txNext = "NONE"
      BY <1>1, <1>4, <2>4, RestingWhenEmpty DEF CreditAdmitted, cq, st
    <3>2. dataQ \in Seq(DataPkts)  BY <1>1 DEF Link
    <3>3. QED  BY <2>2, <2>3, <3>1, <3>2, StartStep
  <2>5. CASE ~ IsEmpty
    <3>1. /\ credQ' = cq /\ creds' = st /\ UpdateAvailCredit
          /\ UNCHANGED <<now, dataQ, serviceVars>>
      BY <1>4, <2>5 DEF CreditAdmitted, cq, st
    <3>2. availCred' \in 0..MaxAvailCred /\ lastCredT' \in Nat /\ Bucket'
      BY <1>1, <2>3, <3>1, UpdateAvailStep DEF serviceVars
    <3>3. Serving' /\ ServiceTypes'
      <4>1. Serving'  BY <1>1, <2>2, <2>5, <3>1, LongerQueues
      <4>2. QED  BY <1>1, <3>1, <4>1 DEF Link, ServiceTypes, serviceVars
    <3>4. QED  BY <1>1, <2>2, <2>3, <3>1, <3>2, <3>3 DEF Link
  <2>6. QED  BY <2>4, <2>5
<1>5. Link'
  BY <1>3, <1>4 DEF ReceiveCredit
<1>6. QED  BY <1>2, <1>5, IInvPartsNext

\* Any other packet, refused or queued, keeps the invariant.
LEMMA ReceiveDataStep ==
  ASSUME IInv, NEW p \in DataPkts, ReceiveData(p)
  PROVE  IInv'
<1>1. Rest /\ Link /\ TypeOK /\ Bucket /\ Serving  BY IInvParts DEF IInv
<1>2. ASSUME DataOverflow(p) \/ DataUnscheduled(p)
      PROVE  Rest' /\ Link'
  <2>1. /\ UpdateAvailCredit
        /\ UNCHANGED <<now, dataQ, queueSize, credQ, serviceVars, creds>>
        /\ datas' = [datas EXCEPT !.tot = @ + 1, !.drop = @ + 1]
        /\ aborted' \in Nat
    BY <1>1, <1>2 DEF DataOverflow, DataUnscheduled, DropData, Rest
  <2>2. availCred' \in 0..MaxAvailCred /\ lastCredT' \in Nat /\ Bucket'
    BY <1>1, <2>1, UpdateAvailStep DEF serviceVars
  <2>3. Serving' /\ ServiceTypes'
    BY <1>1, <2>1, SameLink DEF Link, ServiceTypes, serviceVars
  <2>4. Link'  BY <1>1, <2>1, <2>2, <2>3 DEF Link
  <2>5. Rest'
    <3>1. Len(dataQ) \in Nat /\ DataAccounted(datas, Len(dataQ))  BY <1>1 DEF Rest, Link
    <3>2. DataAccounted(datas', Len(dataQ))  BY <2>1, <3>1, DataRefused
    <3>3. QED  BY <1>1, <2>1, <3>2 DEF Rest
  <2>6. QED  BY <2>4, <2>5
<1>3. ASSUME DataAdmitted(p)
      PROVE  Rest' /\ Link'
  <2> DEFINE dq == Append(dataQ, p)
  <2>1. dq \in Seq(DataPkts) /\ Len(dq) = Len(dataQ) + 1 /\ dq # <<>>
    BY <1>1, AppendProperties DEF Link
  <2>2. p.size \in Nat  BY CreditQueueAssumption DEF DataPkts
  <2> HIDE DEF dq
  <2>3. Link' /\ dataQ' = dq
    <3>1. CASE IsEmpty
      <4>1. BeginService(dq, credQ, {}, creds) /\ now' = now /\ txNext = "NONE"
        BY <1>1, <1>3, <3>1, RestingWhenEmpty DEF DataAdmitted, dq
      <4>2. credQ \in Seq(Nat) /\ Accounted(creds, Len(credQ))  BY <1>1 DEF Link
      <4>3. QED  BY <2>1, <4>1, <4>2, StartStep
    <3>2. CASE ~ IsEmpty
      <4>1. /\ dataQ' = dq /\ UpdateAvailCredit
            /\ UNCHANGED <<now, credQ, serviceVars, creds>>
        BY <1>3, <3>2 DEF DataAdmitted, dq
      <4>2. availCred' \in 0..MaxAvailCred /\ lastCredT' \in Nat /\ Bucket'
        BY <1>1, <4>1, UpdateAvailStep DEF serviceVars
      <4>3. Serving'  BY <1>1, <2>1, <3>2, <4>1, LongerQueues
      <4>4. ServiceTypes'  BY <1>1, <4>1 DEF Link, ServiceTypes, serviceVars
      <4>5. QED  BY <1>1, <2>1, <4>1, <4>2, <4>3, <4>4 DEF Link
    <3>3. QED  BY <3>1, <3>2
  <2>4. Rest'
    <3>1. /\ queueSize' = queueSize + p.size
          /\ datas' = [datas EXCEPT !.tot = @ + 1]
          /\ UNCHANGED <<now, aborted>>
      BY <1>3 DEF DataAdmitted
    <3>2. Len(dataQ) \in Nat /\ DataAccounted(datas, Len(dataQ))  BY <1>1 DEF Rest, Link
    <3>3. DataAccounted(datas', Len(dataQ) + 1)  BY <3>1, <3>2, DataReceived
    <3>4. DataAccounted(datas', Len(dataQ'))  BY <2>1, <2>3, <3>3
    <3>5. queueSize' \in Int  BY <1>1, <2>2, <3>1 DEF Rest
    <3>6. QED  BY <1>1, <3>1, <3>4, <3>5 DEF Rest
  <2>5. QED  BY <2>3, <2>4
<1>4. QED  BY <1>2, <1>3, IInvPartsNext DEF ReceiveData

\* The end of a transmission keeps the invariant: the next one starts, the
\* link waits for a token, or it rests.
LEMMA TxDoneStep ==
  ASSUME IInv, NEW e \in events, TxDone(e)
  PROVE  IInv'
<1>1. Rest /\ Link /\ TypeOK /\ Bucket /\ Serving  BY IInvParts DEF IInv
<1>2. /\ events \ {e} = {}
      /\ \/ txNext = "CRED" /\ credQ # <<>>
         \/ txNext = "DATA" /\ dataQ # <<>>
  <2>1. now = nextSchedTx /\ now \in Nat  BY <1>1 DEF TxDone, Rest
  <2>2. nextSchedTx # NoPendingTx  BY <2>1 DEF NoPendingTx
  <2>3. QED  BY <1>1, <2>2 DEF Serving, Sending, Waiting, Resting
<1> DEFINE isCred == txNext = "CRED"
           dq == IF isCred THEN dataQ ELSE Tail(dataQ)
           cq == IF isCred THEN Tail(credQ) ELSE credQ
           st == IF isCred THEN [creds EXCEPT !.tx = @ + 1] ELSE creds
<1>3. /\ queueSize' = IF isCred THEN queueSize ELSE queueSize - Head(dataQ).size
      /\ datas' = IF isCred THEN datas ELSE [datas EXCEPT !.tx = @ + 1]
      /\ IF dq = <<>> /\ cq = <<>>
         THEN /\ dataQ' = dq /\ credQ' = cq /\ creds' = st
              /\ NothingToSend({}) /\ UNCHANGED clockVars
         ELSE BeginService(dq, cq, {}, st)
      /\ UNCHANGED <<now, aborted>>
  BY <1>2 DEF TxDone, CompleteService
<1>4. /\ dq \in Seq(DataPkts)
      /\ Len(dq) = IF isCred THEN Len(dataQ) ELSE Len(dataQ) - 1
  BY <1>1, <1>2 DEF Link
<1>5. cq \in Seq(Nat) /\ Len(cq) = IF isCred THEN Len(credQ) - 1 ELSE Len(credQ)
  BY <1>1, <1>2 DEF Link
<1>6. Accounted(st, Len(cq)) /\ st.tx = IF isCred THEN creds.tx + 1 ELSE creds.tx
  <2>1. CASE isCred
    <3>1. Len(credQ) \in Nat /\ Len(credQ) > 0 /\ Accounted(creds, Len(credQ))
      BY <1>1, <1>2, <2>1 DEF Link
    <3>2. /\ Accounted([creds EXCEPT !.tx = @ + 1], Len(credQ) - 1)
          /\ [creds EXCEPT !.tx = @ + 1].tx = creds.tx + 1
      BY <3>1, SentAccounted
    <3>3. st = [creds EXCEPT !.tx = @ + 1] /\ Len(cq) = Len(credQ) - 1  BY <2>1, <1>5
    <3> HIDE DEF st, cq
    <3>4. QED  BY <2>1, <3>2, <3>3
  <2>2. CASE ~ isCred
    <3>1. st = creds /\ Len(cq) = Len(credQ)  BY <2>2
    <3> HIDE DEF st, cq
    <3>2. QED  BY <1>1, <2>2, <3>1 DEF Link
  <2>3. QED  BY <2>1, <2>2
<1> HIDE DEF cq, st
<1>7. TokensTime(st.tx - 1 + availCred) <= lastCredT /\ lastCredT <= now
  <2>1. creds.tx \in Nat /\ availCred \in Nat
    BY <1>1, CreditQueueAssumption DEF TypeOK, CreditCounters
  <2>2. InService = IF isCred THEN 1 ELSE 0  BY DEF InService
  <2>3. \A a, b \in Nat : /\ a + 1 + b - 1 = (a + 1) - 1 + b
                          /\ a + 0 + b - 1 = a - 1 + b
    OBVIOUS
  <2>4. creds.tx + InService + availCred - 1 = st.tx - 1 + availCred
    BY <1>6, <2>1, <2>2, <2>3
  <2>5. QED  BY <1>1, <2>4 DEF Bucket
<1>8. Link' /\ dataQ' = dq
  <2>1. CASE dq = <<>> /\ cq = <<>>
    <3>1. /\ dataQ' = dq /\ credQ' = cq /\ creds' = st
          /\ NothingToSend({}) /\ UNCHANGED clockVars /\ now' = now
      BY <1>3, <2>1
    <3>2. Resting' /\ ServiceTypes' /\ InService' = 0
      BY <1>1, <2>1, <3>1
      DEF Link, NothingToSend, Resting, IsEmpty, ServiceTypes, InService
    <3>3. Bucket'
      <4>1. st.tx \in Nat /\ availCred \in Nat
        BY <1>1, <1>6, CreditQueueAssumption DEF Accounted, CreditCounters, TypeOK
      <4>2. \A a, b \in Nat : a + 0 + b - 1 = a - 1 + b  OBVIOUS
      <4>3. creds'.tx + InService' + availCred' - 1 = st.tx - 1 + availCred
        BY <3>1, <3>2, <4>1, <4>2 DEF clockVars
      <4>4. QED  BY <1>7, <3>1, <4>3 DEF Bucket, clockVars
    <3>4. QED  BY <1>1, <1>4, <1>5, <1>6, <3>1, <3>2, <3>3 DEF Link, Serving, clockVars
  <2>2. CASE ~ (dq = <<>> /\ cq = <<>>)
    <3>1. BeginService(dq, cq, {}, st) /\ now' = now  BY <1>3, <2>2
    <3> HIDE DEF dq
    <3>2. QED  BY <1>1, <1>4, <1>5, <1>6, <1>7, <3>1, BeginServiceStep DEF Link
  <2>3. QED  BY <2>1, <2>2
<1>9. Rest'
  <2>1. CASE isCred
    <3>1. UNCHANGED <<now, aborted, queueSize, datas, dataQ>>  BY <1>3, <1>8, <2>1
    <3>2. QED  BY <1>1, <3>1 DEF Rest
  <2>2. CASE ~ isCred
    <3>1. Head(dataQ) \in DataPkts  BY <1>1, <1>2, <2>2 DEF Link
    <3>2. Head(dataQ).size \in Nat  BY <3>1, CreditQueueAssumption DEF DataPkts
    <3>3. Len(dataQ') = Len(dataQ) - 1 /\ Len(dataQ) \in Nat  BY <1>1, <1>4, <1>8, <2>2 DEF Link
    <3>4. /\ queueSize' = queueSize - Head(dataQ).size
          /\ datas' = [datas EXCEPT !.tx = @ + 1]
          /\ UNCHANGED <<now, aborted>>
      BY <1>3, <2>2
    <3>5. Len(dataQ) > 0 /\ DataAccounted(datas, Len(dataQ))
      BY <1>1, <1>2, <2>2, <3>3 DEF Rest, Link
    <3>6. DataAccounted(datas', Len(dataQ'))
      <4>1. DataAccounted([datas EXCEPT !.tx = @ + 1], Len(dataQ) - 1)
        BY <3>3, <3>5, DataSent
      <4>2. QED  BY <3>3, <3>4, <4>1, Zenon
    <3>7. queueSize' \in Int  BY <1>1, <3>2, <3>4 DEF Rest
    <3>8. QED  BY <1>1, <3>4, <3>6, <3>7 DEF Rest
  <2>3. QED  BY <2>1, <2>2
<1>10. QED  BY <1>8, <1>9, IInvPartsNext

\* The end of the wait for a token keeps the invariant.
LEMMA CreditTimerStep ==
  ASSUME IInv, NEW e \in events, CreditTimer(e)
  PROVE  IInv'
<1>1. Rest /\ Link /\ TypeOK /\ Bucket /\ Serving  BY IInvParts DEF IInv
<1>2. e.at = now /\ now # nextSchedTx  BY DEF CreditTimer
<1>3. events \ {e} = {} /\ timerPending /\ txNext = "NONE"
  BY <1>1, <1>2 DEF Serving, Sending, Waiting, Resting, Event
<1>4. /\ BeginService(dataQ, credQ, {}, creds)
      /\ UNCHANGED <<now, queueSize, datas, aborted>>
  BY <1>3 DEF CreditTimer
<1>5. dataQ \in Seq(DataPkts) /\ credQ \in Seq(Nat) /\ Accounted(creds, Len(credQ))
  BY <1>1 DEF Link
<1>6. Link' /\ dataQ' = dataQ  BY <1>3, <1>4, <1>5, StartStep
<1>7. Rest'  BY <1>1, <1>4, <1>6 DEF Rest
<1>8. QED  BY <1>6, <1>7, IInvPartsNext

\* Time that passes keeps the invariant: it never passes an event.
LEMMA TickStep ==
  ASSUME IInv, Tick
  PROVE  IInv'
<1>1. Rest /\ Link /\ Serving /\ Bucket /\ ServiceTypes  BY IInvParts DEF Link
<1>2. /\ now' = now + 1 /\ now \in Nat
      /\ \A e \in events : now < e.at
      /\ UNCHANGED <<dataQ, queueSize, credQ, clockVars, serviceVars, creds, datas, aborted>>
  BY <1>1 DEF Tick, Rest
<1>3. Serving'  BY <1>1, <1>2, TickServing
<1>4. Bucket'
  BY <1>1, <1>2 DEF Bucket, InService, clockVars, serviceVars, Link
<1>5. Link'
  BY <1>1, <1>2, <1>3, <1>4 DEF Link, ServiceTypes, clockVars, serviceVars
<1>6. Rest'  BY <1>1, <1>2 DEF Rest
<1>7. QED  BY <1>5, <1>6, IInvPartsNext

\* The empty queue satisfies the invariant.
LEMMA InitIInv == Init => IInv
<1> SUFFICES ASSUME Init  PROVE IInv
  OBVIOUS
<1>1. TypeOK
  <2>1. creds \in CreditCounters /\ datas \in [tot : Nat, tx : Nat, drop : Nat]
    BY DEF Init, CreditCounters
  <2>2. dataQ \in Seq(DataPkts) /\ credQ \in Seq(Nat)
    BY EmptySeq DEF Init
  <2>3. timerPending \in BOOLEAN  BY DEF Init
  <2>4. availCred \in 0..MaxAvailCred  BY CreditQueueAssumption DEF Init
  <2>5. QED  BY <2>1, <2>2, <2>3, <2>4 DEF Init, TypeOK
<1>2. Serving
  BY DEF Init, Serving, Resting, IsEmpty
<1>3. Conservation
  BY DEF Init, Conservation, Dropped
<1>4. Bucket
  BY CreditQueueAssumption DEF Init, Bucket, InService, TokensTime
<1>5. QED  BY <1>1, <1>2, <1>3, <1>4 DEF IInv

\* Every action keeps the invariant.
LEMMA NextIInv == IInv /\ [Next]_vars => IInv'
<1> SUFFICES ASSUME IInv, [Next]_vars  PROVE IInv'
  OBVIOUS
<1>1. ASSUME NEW c \in Credits, ReceiveCredit(c)  PROVE IInv'
  BY <1>1, ReceiveCreditStep
<1>2. ASSUME NEW p \in DataPkts, ReceiveData(p)  PROVE IInv'
  BY <1>2, ReceiveDataStep
<1>3. ASSUME NEW e \in events, TxDone(e)  PROVE IInv'
  BY <1>3, TxDoneStep
<1>4. ASSUME NEW e \in events, CreditTimer(e)  PROVE IInv'
  BY <1>4, CreditTimerStep
<1>5. CASE Tick
  BY <1>5, TickStep
<1>6. CASE UNCHANGED vars
  BY <1>6 DEF vars, clockVars, serviceVars, IInv, TypeOK, Serving, Sending, Waiting, Resting,
     IsEmpty, Conservation, Dropped, Bucket, InService
<1>7. CASE Quiet
  BY <1>6, <1>7 DEF Quiet
<1>8. QED  BY <1>1, <1>2, <1>3, <1>4, <1>5, <1>6, <1>7 DEF Next

\* The invariant behind all that follows holds in every reachable state.
THEOREM Invariance == Spec => []IInv
<1>1. QED  BY InitIInv, NextIInv, PTL DEF Spec

\* The queue is never stuck and never has two events outstanding, every event
\* means what the code takes it to mean, and an idle link waits for a token.
LEMMA LinkSound == IInv => OneWakeUp /\ EventMeaning /\ IdleOnlyForToken
<1>1. IInv => OneWakeUp
  BY DEF IInv, Serving, Sending, Waiting, Resting, IsEmpty, OneWakeUp
<1>2. IInv => EventMeaning
  BY DEF IInv, Serving, Sending, Waiting, Resting, IsEmpty, EventMeaning, Event
<1>3. IInv => IdleOnlyForToken
  BY DEF IInv, Serving, Sending, Waiting, Resting, IsEmpty, IdleOnlyForToken
<1>4. QED  BY <1>1, <1>2, <1>3

\* The bucket's balance is the pace of the credits.
LEMMA PaceSound == IInv => CreditPace
<1> SUFFICES ASSUME IInv  PROVE CreditPace
  OBVIOUS
<1>1. /\ creds.tx \in Nat /\ availCred \in Nat /\ InService \in Nat
      /\ lastCredT \in Nat /\ now \in Nat /\ lastCredT <= now
      /\ TokensTime(creds.tx + InService + availCred - 1) <= lastCredT
  BY CreditQueueAssumption DEF IInv, TypeOK, CreditCounters, Bucket, InService
<1>2. /\ creds.tx - 1 <= creds.tx + InService + availCred - 1
      /\ creds.tx - 1 \in Int /\ creds.tx + InService + availCred - 1 \in Int
  BY <1>1
<1>3. TokensTime(creds.tx - 1) <= TokensTime(creds.tx + InService + availCred - 1)
  BY <1>2, TimesMonotone
<1>4. /\ TokensTime(creds.tx - 1) \in Int
      /\ TokensTime(creds.tx + InService + availCred - 1) \in Int
  BY <1>2, CreditQueueAssumption DEF TokensTime
<1>5. TokensTime(creds.tx - 1) <= now  BY <1>1, <1>3, <1>4
<1>6. QED  BY <1>5 DEF CreditPace, TokensTime

\* What the theorems below say of every reachable state.
LEMMA SoundWhenInvariant ==
  IInv => /\ TypeOK /\ OneWakeUp /\ EventMeaning /\ Conservation
          /\ CreditPace /\ IdleOnlyForToken
<1>1. IInv => TypeOK /\ Conservation  BY DEF IInv
<1>2. QED  BY <1>1, LinkSound, PaceSound

\* Every variable keeps its type.
THEOREM TypeCorrect == Spec => []TypeOK
<1>1. IInv => TypeOK  BY DEF IInv
<1>2. QED  BY <1>1, Invariance, PTL

\* The queue is never stuck and never has two events outstanding.
THEOREM ExactlyOneEvent == Spec => []OneWakeUp
<1>1. IInv => OneWakeUp  BY LinkSound
<1>2. QED  BY <1>1, Invariance, PTL

\* The assertions of doNextEvent, beginService and completeService hold.
THEOREM EventsMeanWhatTheySay == Spec => []EventMeaning
<1>1. IInv => EventMeaning  BY LinkSound
<1>2. QED  BY <1>1, Invariance, PTL

\* No credit and no packet is lost or counted twice.
THEOREM NothingVanishes == Spec => []Conservation
<1>1. IInv => Conservation  BY DEF IInv
<1>2. QED  BY <1>1, Invariance, PTL

\* An idle link with data queued is waiting for a token, for at most Spacing.
THEOREM BoundedIdle == Spec => []IdleOnlyForToken
<1>1. IInv => IdleOnlyForToken  BY LinkSound
<1>2. QED  BY <1>1, Invariance, PTL

\* Credits never leave faster than one per Spacing (after the first), for
\* every spacing, bucket size and load.
THEOREM PacedCredits == Spec => []CreditPace
<1>1. IInv => CreditPace  BY PaceSound
<1>2. QED  BY <1>1, Invariance, PTL

-----------------------------------------------------------------------------
(* Both simulators, and their bounds *)

\* The start times of the credits the bucket still answers for: since the
\* i-th of the last credits started, at least as many Spacings have gone by as
\* later credits and tokens at hand exceed the size of the bucket.
Window ==
  /\ starts \in Seq(Nat) /\ Len(starts) <= MaxAvailCred + 2
  /\ \A i \in 1..Len(starts) :
       TokensTime(Len(starts) - i + availCred - MaxAvailCred) < lastCredT - starts[i]

\* The timer is set for the next token, which a packet received at that very
\* time may have put into the bucket already.
DueAt(a, t, at) ==
  \/ a = 0 /\ at = t + Spacing
  \/ a = 1 /\ at = t
TimerDue == txNext = "NONE" => \A e \in events : DueAt(availCred, lastCredT, e.at)

\* In the Clos simulator a timer is pending only while the link waits.
TimerWaits == timerPending => txNext = "NONE" /\ events # {}
ClosTimer == clos => TimerWaits

\* Credits expire in the order in which they came, none later than a
\* CredTimeout from now.
SortedUpTo(q, last) ==
  /\ \A i, j \in 1..Len(q) : i < j => q[i] <= q[j]
  /\ \A i \in 1..Len(q) : q[i] <= last
Unexpired ==
  /\ SortedUpTo(credQ, now + CredTimeout)
  /\ txNext = "CRED" => nextSchedTx <= credQ[1]
Fresh == ~ clos => Unexpired

\* A credit whose transmission ends at n, with a tokens at hand at t, is one of
\* the burst the bucket allowed when the head of the data came at h, with at
\* most one token that has become due since ...
Burst(h, t, n, a) ==
  /\ h - Spacing < t
  /\ n + a * CredSize
       <= h + (MaxAvailCred + 1) * CredSize + (IF t > h THEN CredSize ELSE 0)

\* ... or the one the link had waited for.
AfterWait(h, t, n, a) == a = 0 /\ n = t + CredSize /\ t <= h + Spacing

Allowed(h, t, n, a) == Burst(h, t, n, a) \/ AfterWait(h, t, n, a)

HeadWaits ==
  /\ headSince \in Nat \cup {-1} /\ headSince <= now
  /\ headSince # -1 <=> dataQ # <<>> /\ txNext # "DATA"
  /\ txNext = "NONE" /\ headSince # -1 => \A e \in events : e.at <= headSince + Spacing
  /\ txNext = "CRED" => nextSchedTx <= now + CredSize
  /\ txNext = "CRED" /\ headSince # -1 =>
       Allowed(headSince, lastCredT, nextSchedTx, availCred)

\* The bytes of each kind, and the room left for the others.
Buffer ==
  /\ queueSize = Bytes({"UNSCHED"}) + Bytes({"XPDATA", "XPCTL"})
  /\ queueSize = Bytes({"XPDATA", "UNSCHED", "XPCTL"})
  /\ queueSize <= MaxSize
  /\ Bytes({"UNSCHED"}) <= MaxSizeUnsched
  /\ clos => Bytes({"UNSCHED"}) = 0

Bounds == BurstPace /\ Window /\ TimerDue /\ ClosTimer /\ Fresh /\ HeadWaits /\ Buffer

BothInv == IInv /\ clos \in BOOLEAN /\ Bounds

-----------------------------------------------------------------------------
(* The moves of the link *)

\* new tokens come into the bucket and spent of them are used.
Refills(new, spent) ==
  /\ new \in Nat /\ now' = now
  /\ lastCredT' = lastCredT + new * Spacing /\ lastCredT' <= now
  /\ availCred' \in 0..MaxAvailCred /\ availCred' + spent <= availCred + new

\* The bucket has been brought up to date.
UpToDate == now < lastCredT' + Spacing

\* A service starts when the link was idle and its event, if it had one, is
\* due, or when the transmission ends.
Due == IF txNext = "NONE" THEN IsEmpty \/ \E e \in events : e.at = now ELSE now = nextSchedTx

StartsCredit(new) ==
  /\ Refills(new, 1) /\ UpToDate /\ Due
  /\ availCred' < MaxAvailCred
  /\ txNext' = "CRED" /\ nextSchedTx' = now + CredSize

StartsData(new) == Refills(new, 0) /\ txNext' = "DATA"

StartsWait(new) ==
  /\ Refills(new, 0) /\ txNext' = "NONE" /\ dataQ' = <<>>
  /\ availCred' = 0 /\ events' = {Event("timer", lastCredT' + Spacing)}

Rests(new) == Refills(new, 0) /\ txNext' = "NONE" /\ dataQ' = <<>> /\ events' = {}

Starts(new) == StartsCredit(new) \/ StartsData(new) \/ StartsWait(new) \/ Rests(new)

\* A packet is refused, or joins a queue that is being served.
GoesOn(new) ==
  /\ Refills(new, 0) /\ UpToDate
  /\ availCred' = LesserOf(availCred + new, MaxAvailCred)
  /\ UNCHANGED serviceVars
  /\ dataQ # <<>> => dataQ' # <<>>
  /\ IsEmpty => UNCHANGED dataQ

Passes == Tick \/ UNCHANGED vars

Moves == Passes \/ \E new \in Nat : Starts(new) \/ GoesOn(new)

\* What updateAvailCredit does is a refill.
LEMMA TokenGain ==
  ASSUME availCred \in 0..MaxAvailCred, lastCredT \in Nat, now \in Nat, lastCredT <= now
  PROVE  \E new \in Nat :
           /\ TokenTime = lastCredT + new * Spacing
           /\ Tokens = LesserOf(availCred + new, MaxAvailCred)
           /\ TokenTime \in Nat /\ TokenTime <= now /\ now < TokenTime + Spacing
           /\ Tokens \in 0..MaxAvailCred /\ Tokens <= availCred + new
<1>1. PICK gone \in Nat : gone = now - lastCredT  OBVIOUS
<1>2. PICK new \in Nat, r \in 0..(Spacing - 1) :
        new = gone \div Spacing /\ r = gone % Spacing /\ gone = new * Spacing + r
  BY <1>1, CreditQueueAssumption, Division
<1>3. PICK w \in Nat : w = new * Spacing  BY CreditQueueAssumption
<1>4. TokenTime = now - r /\ Tokens = LesserOf(availCred + new, MaxAvailCred)
  BY <1>1, <1>2 DEF TokenTime, Tokens
<1>5. TokenTime = lastCredT + w  BY <1>1, <1>2, <1>3, <1>4
<1>6. TokenTime <= now /\ now < TokenTime + Spacing /\ TokenTime \in Nat
  BY <1>2, <1>4, <1>5, CreditQueueAssumption
<1>7. Tokens \in 0..MaxAvailCred /\ Tokens <= availCred + new
  BY <1>2, <1>4, CreditQueueAssumption DEF LesserOf
<1>8. QED  BY <1>3, <1>4, <1>5, <1>6, <1>7

\* A packet that does not start a service is the move GoesOn.
LEMMA UpdateMoves ==
  ASSUME TypeOK, lastCredT <= now, UpdateAvailCredit, now' = now, UNCHANGED serviceVars,
         dataQ # <<>> => dataQ' # <<>>, IsEmpty => UNCHANGED dataQ
  PROVE  \E new \in Nat : GoesOn(new)
<1>1. availCred \in 0..MaxAvailCred /\ lastCredT \in Nat /\ now \in Nat  BY DEF TypeOK
<1>2. PICK new \in Nat :
           /\ TokenTime = lastCredT + new * Spacing
           /\ Tokens = LesserOf(availCred + new, MaxAvailCred)
           /\ TokenTime \in Nat /\ TokenTime <= now /\ now < TokenTime + Spacing
           /\ Tokens \in 0..MaxAvailCred /\ Tokens <= availCred + new
  BY <1>1, TokenGain
<1>3. lastCredT' = TokenTime /\ availCred' = Tokens  BY DEF UpdateAvailCredit
<1>4. Refills(new, 0)
  <2>1. availCred' + 0 <= availCred + new  BY <1>1, <1>2, <1>3, CreditQueueAssumption
  <2>2. QED  BY <1>2, <1>3, <2>1 DEF Refills
<1>5. QED  BY <1>2, <1>3, <1>4 DEF GoesOn, UpToDate

\* What the start of a service makes of the bucket.
TokenSpent == availCred' = TokensLeft /\ lastCredT' = TokenTime
Asked == TokenSpent \/ UpdateAvailCredit

\* The ways a service starts, in the words of CreditLink.
Serves ==
  \/ Tokens > 0 /\ SendCredit({}) /\ TokenSpent
  \/ txNext' = "DATA" /\ (Asked \/ UNCHANGED clockVars)
  \/ ~ (Tokens > 0) /\ dataQ' = <<>> /\ AwaitToken({}) /\ Asked
  \/ dataQ' = <<>> /\ NothingToSend({}) /\ (Asked \/ UNCHANGED clockVars)

\* A service that starts is one of the moves Starts.
LEMMA ServiceMoves ==
  ASSUME TypeOK, lastCredT <= now, now' = now, Due, Serves
  PROVE  \E new \in Nat : Starts(new)
<1>1. availCred \in 0..MaxAvailCred /\ lastCredT \in Nat /\ now \in Nat  BY DEF TypeOK
<1>2. PICK new \in Nat :
           /\ TokenTime = lastCredT + new * Spacing
           /\ Tokens = LesserOf(availCred + new, MaxAvailCred)
           /\ TokenTime \in Nat /\ TokenTime <= now /\ now < TokenTime + Spacing
           /\ Tokens \in 0..MaxAvailCred /\ Tokens <= availCred + new
  BY <1>1, TokenGain
<1>3. MaxAvailCred \in Nat /\ Spacing \in Nat /\ CredSize \in Nat  BY CreditQueueAssumption
<1>4. Asked => Refills(new, 0)
  <2>1. TokensLeft \in 0..MaxAvailCred /\ TokensLeft + 0 <= availCred + new
        /\ Tokens + 0 <= availCred + new
    BY <1>1, <1>2, <1>3 DEF TokensLeft
  <2>2. QED  BY <1>2, <2>1 DEF Asked, TokenSpent, UpdateAvailCredit, Refills
<1>5. UNCHANGED clockVars => Refills(0, 0)
  <2>1. lastCredT + 0 * Spacing = lastCredT /\ availCred + 0 <= availCred + 0
    BY <1>1, <1>3
  <2>2. QED  BY <1>1, <2>1 DEF Refills, clockVars
<1>6. CASE Tokens > 0 /\ SendCredit({}) /\ TokenSpent
  <2>1. TokensLeft + 1 = Tokens /\ TokensLeft \in 0..MaxAvailCred /\ TokensLeft < MaxAvailCred
    BY <1>2, <1>3, <1>6 DEF TokensLeft
  <2>2. Refills(new, 1)  BY <1>2, <1>6, <2>1 DEF TokenSpent, Refills
  <2>3. StartsCredit(new)
    BY <1>2, <1>6, <2>1, <2>2 DEF StartsCredit, UpToDate, SendCredit, TokenSpent
  <2>4. QED  BY <2>3 DEF Starts
<1>7. CASE txNext' = "DATA" /\ (Asked \/ UNCHANGED clockVars)
  <2>1. StartsData(new) \/ StartsData(0)  BY <1>4, <1>5, <1>7 DEF StartsData
  <2>2. QED  BY <2>1 DEF Starts
<1>8. CASE ~ (Tokens > 0) /\ dataQ' = <<>> /\ AwaitToken({}) /\ Asked
  <2>1. Tokens = 0 /\ TokensLeft = 0  BY <1>2, <1>8 DEF TokensLeft
  <2>2. availCred' = 0 /\ lastCredT' = TokenTime
    BY <1>8, <2>1 DEF Asked, TokenSpent, UpdateAvailCredit
  <2>3. txNext' = "NONE" /\ events' = {Event("timer", TokenTime + Spacing)}
    BY <1>8 DEF AwaitToken, Scheduled, Event
  <2>4. StartsWait(new)  BY <1>4, <1>8, <2>2, <2>3 DEF StartsWait
  <2>5. QED  BY <2>4 DEF Starts
<1>9. CASE dataQ' = <<>> /\ NothingToSend({}) /\ (Asked \/ UNCHANGED clockVars)
  <2>1. Rests(new) \/ Rests(0)  BY <1>4, <1>5, <1>9 DEF Rests, NothingToSend
  <2>2. QED  BY <2>1 DEF Starts
<1>10. QED  BY <1>6, <1>7, <1>8, <1>9 DEF Serves

-----------------------------------------------------------------------------
(* The moves of the Opera simulator's queue *)

\* beginService serves.
LEMMA BeginServes ==
  ASSUME NEW dq, NEW cq, NEW st, BeginService(dq, cq, {}, st)
  PROVE  Serves
<1>1. PICK k \in 0..Len(cq) :
        LET fresh == SubSeq(cq, k + 1, Len(cq))
            ready == Tokens > 0
        IN /\ dataQ' = dq
           /\ TokenSpent
           /\ \/ ready /\ fresh # <<>> /\ SendCredit({})
              \/ ~ (ready /\ fresh # <<>>) /\ dq # <<>> /\ SendData(Head(dq), {})
              \/ ~ ready /\ fresh # <<>> /\ dq = <<>> /\ AwaitToken({})
              \/ fresh = <<>> /\ dq = <<>> /\ NothingToSend({})
  BY DEF BeginService, TokenSpent
<1>2. QED  BY <1>1 DEF Serves, Asked, SendData

\* Every step of the Opera simulator's queue is a move of the link.
LEMMA NextMoves ==
  ASSUME IInv, Next
  PROVE  Moves
<1>1. TypeOK /\ Serving /\ lastCredT <= now  BY DEF IInv, Bucket
<1>2. ASSUME NEW c \in Credits, ReceiveCredit(c)  PROVE Moves
  <2>1. CASE CreditOverflow(c) \/ CreditTentative(c) \/ CreditShaped(c)
    <3>1. UpdateAvailCredit /\ UNCHANGED <<now, dataQ, serviceVars>>
      BY <2>1 DEF CreditOverflow, CreditTentative, CreditShaped, DropCredit
    <3>2. QED  BY <1>1, <3>1, UpdateMoves DEF Moves
  <2>2. CASE CreditAdmitted(c) /\ IsEmpty
    <3>1. PICK cq, st : BeginService(dataQ, cq, events, st) /\ now' = now
      BY <2>2 DEF CreditAdmitted
    <3>2. events = {} /\ Due  BY <1>1, <2>2, RestingWhenEmpty DEF Due
    <3>3. Serves  BY <3>1, <3>2, BeginServes
    <3>4. QED  BY <1>1, <3>1, <3>2, <3>3, ServiceMoves DEF Moves
  <2>3. CASE CreditAdmitted(c) /\ ~ IsEmpty
    <3>1. UpdateAvailCredit /\ UNCHANGED <<now, dataQ, serviceVars>>
      BY <2>3 DEF CreditAdmitted
    <3>2. QED  BY <1>1, <3>1, UpdateMoves DEF Moves
  <2>4. QED  BY <1>2, <2>1, <2>2, <2>3 DEF ReceiveCredit
<1>3. ASSUME NEW p \in DataPkts, ReceiveData(p)  PROVE Moves
  <2>1. CASE DataOverflow(p) \/ DataUnscheduled(p)
    <3>1. UpdateAvailCredit /\ UNCHANGED <<now, dataQ, serviceVars>>
      BY <2>1 DEF DataOverflow, DataUnscheduled, DropData
    <3>2. QED  BY <1>1, <3>1, UpdateMoves DEF Moves
  <2>2. CASE DataAdmitted(p) /\ IsEmpty
    <3>1. PICK dq, st : BeginService(dq, credQ, events, st) /\ now' = now
      BY <2>2 DEF DataAdmitted
    <3>2. events = {} /\ Due  BY <1>1, <2>2, RestingWhenEmpty DEF Due
    <3>3. Serves  BY <3>1, <3>2, BeginServes
    <3>4. QED  BY <1>1, <3>1, <3>2, <3>3, ServiceMoves DEF Moves
  <2>3. CASE DataAdmitted(p) /\ ~ IsEmpty
    <3>1. UpdateAvailCredit /\ UNCHANGED <<now, serviceVars>> /\ dataQ' = Append(dataQ, p)
      BY <2>3 DEF DataAdmitted
    <3>2. dataQ' # <<>>
      <4>1. dataQ \in Seq(DataPkts)  BY <1>1 DEF TypeOK
      <4>2. QED  BY <3>1, <4>1, AppendProperties
    <3>3. QED  BY <1>1, <2>3, <3>1, <3>2, UpdateMoves DEF Moves
  <2>4. QED  BY <1>3, <2>1, <2>2, <2>3 DEF ReceiveData
<1>4. ASSUME NEW e \in events, TxDone(e)  PROVE Moves
  <2>1. /\ events \ {e} = {} /\ txNext # "NONE" /\ now' = now /\ Due
    <3>1. now = nextSchedTx /\ now \in Nat /\ now' = now  BY <1>1, <1>4 DEF TxDone, TypeOK
    <3>2. nextSchedTx # NoPendingTx  BY <3>1 DEF NoPendingTx
    <3>3. events \ {e} = {} /\ txNext # "NONE"
      BY <1>1, <3>2 DEF Serving, Sending, Waiting, Resting
    <3>4. QED  BY <3>1, <3>3 DEF Due
  <2>2. PICK dq, cq, st :
          IF dq = <<>> /\ cq = <<>>
          THEN dataQ' = dq /\ NothingToSend(events \ {e}) /\ UNCHANGED clockVars
          ELSE BeginService(dq, cq, events \ {e}, st)
    BY <1>4 DEF TxDone, CompleteService
  <2>3. Serves
    <3>1. CASE dq = <<>> /\ cq = <<>>  BY <2>1, <2>2, <3>1 DEF Serves
    <3>2. CASE ~ (dq = <<>> /\ cq = <<>>)  BY <2>1, <2>2, <3>2, BeginServes
    <3>3. QED  BY <3>1, <3>2
  <2>4. QED  BY <1>1, <2>1, <2>3, ServiceMoves DEF Moves
<1>5. ASSUME NEW e \in events, CreditTimer(e)  PROVE Moves
  <2>1. e.at = now /\ now # nextSchedTx  BY <1>5 DEF CreditTimer
  <2>2. events \ {e} = {} /\ timerPending /\ txNext = "NONE"
    BY <1>1, <2>1 DEF Serving, Sending, Waiting, Resting, Event
  <2>3. BeginService(dataQ, credQ, {}, creds) /\ now' = now  BY <1>5, <2>2 DEF CreditTimer
  <2>4. Due  BY <2>1, <2>2 DEF Due
  <2>5. Serves  BY <2>3, BeginServes
  <2>6. QED  BY <1>1, <2>3, <2>4, <2>5, ServiceMoves DEF Moves
<1>6. QED  BY <1>2, <1>3, <1>4, <1>5 DEF Next, Moves, Passes, Quiet

-----------------------------------------------------------------------------
(* The queue of the Clos simulator *)

\* From a queue that holds something and has no event outstanding, the
\* beginService of the Clos simulator keeps the link's part of the invariant,
\* if no timer is taken to be pending that is not.
LEMMA ClosServiceStep ==
  ASSUME TypeOK, lastCredT <= now, now' = now, Due,
         NEW dq \in Seq(DataPkts), NEW cq \in Seq(Nat),
         Accounted(creds', Len(cq)),
         TokensTime(creds'.tx - 1 + availCred) <= lastCredT,
         timerPending => Tokens > 0 /\ cq # <<>>,
         ClosBeginService(dq, cq, {}),
         cq = <<>> => UpdateAvailCredit \/ UNCHANGED clockVars
  PROVE  Link' /\ dataQ' = dq /\ credQ' = cq /\ Serves /\ TimerWaits'
<1> DEFINE ready == Tokens > 0
<1>1. /\ dataQ' = dq /\ credQ' = cq
      /\ \/ /\ ready /\ credQ' # <<>> /\ SendCredit({}) /\ TokenSpent
         \/ /\ ~ (ready /\ credQ' # <<>>) /\ dataQ' # <<>> /\ SendData(Head(dataQ'), {})
            /\ UpdateAvailCredit \/ UNCHANGED clockVars
         \/ /\ ~ ready /\ credQ' # <<>> /\ dataQ' = <<>> /\ AwaitToken({})
            /\ UpdateAvailCredit
  BY DEF ClosBeginService, CreditReady, ClosUpdateAvailCredit, ClosScheduleCredit, TokenSpent
<1>2. creds'.tx \in Nat  BY DEF Accounted, CreditCounters
<1>3. now \in Nat /\ lastCredT \in Nat /\ availCred \in 0..MaxAvailCred  BY DEF TypeOK
<1>4. /\ Tokens \in 0..MaxAvailCred
      /\ TokenTime \in Nat
      /\ TokenTime <= now /\ now < TokenTime + Spacing
      /\ TokensTime(creds'.tx - 1 + Tokens) <= TokenTime
  <2>1. creds'.tx - 1 \in Int  BY <1>2
  <2>2. QED  BY <1>3, <2>1, TokenFacts
<1>5. ServiceTypes' /\ Serving' /\ (txNext' = "CRED" => ready)
  <2> HIDE DEF ready
  <2>1. dataQ' # <<>> => Head(dataQ').size \in Nat
    <3>1. dataQ' # <<>> => Head(dataQ') \in DataPkts  BY <1>1, HeadTailProperties
    <3>2. \A p \in DataPkts : p.size \in Nat  BY CreditQueueAssumption DEF DataPkts
    <3>3. QED  BY <3>1, <3>2
  <2>2. ready \in BOOLEAN  BY DEF ready
  <2>3. ServiceTypes  BY DEF TypeOK, ServiceTypes
  <2>4. QED  BY <1>1, <1>3, <1>4, <2>1, <2>2, <2>3, LinkStep
<1>6. Serves  BY <1>1 DEF Serves, Asked, SendData
<1>7. \A a \in Nat, b \in 0..MaxAvailCred : a + 0 + b - 1 = a - 1 + b
  BY CreditQueueAssumption
<1>8. availCred' \in 0..MaxAvailCred /\ lastCredT' \in Nat /\ Bucket'
  <2>1. CASE SendCredit({}) /\ ready /\ TokenSpent
    <3>1. InService' = 1  BY <2>1 DEF InService, SendCredit
    <3>2. creds'.tx \in Int /\ TokenTime \in Int  BY <1>2, <1>4
    <3>3. availCred' = IF Tokens > 0 THEN Tokens - 1 ELSE Tokens
      BY <2>1 DEF TokenSpent, TokensLeft
    <3>4. \A left : left = (IF Tokens > 0 THEN Tokens - 1 ELSE Tokens) =>
            left \in 0..MaxAvailCred /\ TokensTime(creds'.tx + 1 + left - 1) <= TokenTime
      BY <1>4, <2>1, <3>2, SpendToken
    <3>5. QED  BY <1>4, <2>1, <3>1, <3>3, <3>4 DEF Bucket, TokenSpent
  <2>2. CASE UpdateAvailCredit /\ txNext' # "CRED"
    <3>1. InService' = 0 /\ availCred' = Tokens /\ lastCredT' = TokenTime
      BY <2>2 DEF InService, UpdateAvailCredit
    <3>2. creds'.tx + InService' + availCred' - 1 = creds'.tx - 1 + Tokens
      BY <1>2, <1>4, <1>7, <3>1
    <3>3. QED  BY <1>4, <3>1, <3>2 DEF Bucket
  <2>3. CASE UNCHANGED clockVars /\ txNext' # "CRED"
    <3>1. InService' = 0 /\ availCred' = availCred /\ lastCredT' = lastCredT
      BY <2>3 DEF InService, clockVars
    <3>2. creds'.tx + InService' + availCred' - 1 = creds'.tx - 1 + availCred
      BY <1>2, <1>3, <1>7, <3>1
    <3>3. QED  BY <1>3, <3>1, <3>2 DEF Bucket
  <2>4. QED  BY <1>1, <2>1, <2>2, <2>3 DEF SendData, AwaitToken
<1>9. TimerWaits'
  BY <1>1 DEF TimerWaits, SendCredit, SendData, AwaitToken, Scheduled
<1>10. QED  BY <1>1, <1>5, <1>6, <1>8, <1>9 DEF Link

\* The balance of the bucket for a link that was not sending a credit.
LEMMA IdleBucket ==
  ASSUME TypeOK, Bucket, txNext # "CRED"
  PROVE  TokensTime(creds.tx - 1 + availCred) <= lastCredT /\ lastCredT <= now
<1>1. creds.tx \in Nat /\ availCred \in Nat
  BY CreditQueueAssumption DEF TypeOK, CreditCounters
<1>2. InService = 0  BY DEF InService
<1>3. creds.tx + InService + availCred - 1 = creds.tx - 1 + availCred  BY <1>1, <1>2
<1>4. QED  BY <1>3 DEF Bucket

\* A packet that is queued in the Clos simulator.
LEMMA StartIfIdleStep ==
  ASSUME IInv, ClosTimer, clos, now' = now,
         NEW dq \in Seq(DataPkts), NEW cq \in Seq(Nat),
         dq # <<>> \/ cq # <<>>,
         dataQ # <<>> => dq # <<>>, credQ # <<>> => cq # <<>>, creds'.tx = creds.tx,
         Accounted(creds', Len(cq)), StartIfIdle(dq, cq)
  PROVE  Link' /\ dataQ' = dq /\ credQ' = cq /\ Moves /\ TimerWaits'
<1>1. Link /\ TypeOK /\ Bucket /\ Serving /\ lastCredT <= now
  BY IInvParts DEF IInv, Bucket
<1>2. CASE IsEmpty
  <2>1. events = {} /\ txNext = "NONE" /\ Due  BY <1>1, <1>2, RestingWhenEmpty DEF Due
  <2>2. ~ timerPending  BY <2>1 DEF ClosTimer, TimerWaits
  <2>3. ClosBeginService(dq, cq, {}) /\ (cq = <<>> => UpdateAvailCredit)
    BY <1>2, <2>1 DEF StartIfIdle, ClosUpdateAvailCredit
  <2>4. TokensTime(creds'.tx - 1 + availCred) <= lastCredT  BY <1>1, <2>1, IdleBucket
  <2>5. Link' /\ dataQ' = dq /\ credQ' = cq /\ Serves /\ TimerWaits'
    BY <1>1, <2>1, <2>2, <2>3, <2>4, ClosServiceStep
  <2>6. QED  BY <1>1, <2>1, <2>5, ServiceMoves DEF Moves
<1>3. CASE ~ IsEmpty
  <2>1. dataQ' = dq /\ credQ' = cq /\ UpdateAvailCredit /\ UNCHANGED serviceVars
    BY <1>3 DEF StartIfIdle, ClosUpdateAvailCredit
  <2>2. availCred' \in 0..MaxAvailCred /\ lastCredT' \in Nat /\ Bucket'
    BY <1>1, <2>1, UpdateAvailStep DEF serviceVars
  <2>3. Serving'  BY <1>1, <1>3, <2>1, LongerQueues
  <2>4. ServiceTypes'  BY <1>1, <2>1 DEF Link, ServiceTypes, serviceVars
  <2>5. Moves  BY <1>1, <1>3, <2>1, UpdateMoves DEF Moves
  <2>6. TimerWaits'  BY <2>1 DEF ClosTimer, TimerWaits, serviceVars
  <2>7. QED  BY <2>1, <2>2, <2>3, <2>4, <2>5, <2>6 DEF Link
<1>4. QED  BY <1>2, <1>3

\* A credit received by the Clos simulator's queue.
LEMMA ClosCreditStep ==
  ASSUME IInv, ClosTimer, clos, ClosReceiveCredit
  PROVE  IInv' /\ Moves /\ TimerWaits'
<1>1. Rest /\ Link /\ TypeOK  BY IInvParts DEF IInv
<1>2. ASSUME NEW c \in Credits, CreditOverflow(c)  PROVE IInv' /\ Moves /\ TimerWaits'
  <2>1. ReceiveCredit(c)  BY <1>2 DEF ClosReceiveCredit, ReceiveCredit
  <2>2. IInv'  BY <2>1, ReceiveCreditStep
  <2>3. Next  BY <2>1 DEF Next
  <2>4. TimerWaits'
    BY <1>2 DEF CreditOverflow, DropCredit, ClosTimer, TimerWaits, serviceVars
  <2>5. QED  BY <2>2, <2>3, <2>4, NextMoves
<1>3. CASE /\ StartIfIdle(dataQ, Append(credQ, NoExpiry))
           /\ creds' = [creds EXCEPT !.tot = @ + 1]
           /\ UNCHANGED <<now, queueSize, datas, aborted>>
  <2>1. PICK cq : cq = Append(credQ, NoExpiry)  OBVIOUS
  <2>2. NoExpiry \in Nat  BY DEF NoExpiry
  <2>3. cq \in Seq(Nat) /\ Len(cq) = Len(credQ) + 1 /\ Len(credQ) \in Nat /\ cq # <<>>
    BY <1>1, <2>1, <2>2, AppendProperties, LenProperties DEF Link
  <2>4. Accounted(creds', Len(cq)) /\ creds'.tx = creds.tx
    BY <1>1, <1>3, <2>3, ReceivedAccounted DEF Link
  <2>5. dataQ \in Seq(DataPkts)  BY <1>1 DEF Link
  <2>6. Link' /\ dataQ' = dataQ /\ Moves /\ TimerWaits'
    BY <1>3, <2>1, <2>3, <2>4, <2>5, StartIfIdleStep
  <2>7. Rest'  BY <1>1, <1>3, <2>6 DEF Rest
  <2>8. QED  BY <2>6, <2>7, IInvPartsNext
<1>4. QED  BY <1>2, <1>3 DEF ClosReceiveCredit

\* Any other packet received by the Clos simulator's queue.
LEMMA ClosDataStep ==
  ASSUME IInv, ClosTimer, clos, NEW p \in ClosData, ClosReceiveData(p)
  PROVE  IInv' /\ Moves /\ TimerWaits'
<1>1. Rest /\ Link /\ TypeOK /\ Bucket /\ Serving /\ lastCredT <= now
  BY IInvParts DEF IInv, Bucket
<1>2. Len(dataQ) \in Nat /\ DataAccounted(datas, Len(dataQ))  BY <1>1 DEF Rest, Link
<1>3. p \in DataPkts /\ p.size \in Nat  BY CreditQueueAssumption DEF ClosData, DataPkts
<1>4. CASE DropData /\ UNCHANGED aborted
  <2>1. /\ UpdateAvailCredit
        /\ UNCHANGED <<now, dataQ, queueSize, credQ, serviceVars, creds, aborted>>
        /\ datas' = [datas EXCEPT !.tot = @ + 1, !.drop = @ + 1]
    BY <1>4 DEF DropData
  <2>2. availCred' \in 0..MaxAvailCred /\ lastCredT' \in Nat /\ Bucket'
    BY <1>1, <2>1, UpdateAvailStep DEF serviceVars
  <2>3. Serving' /\ ServiceTypes'
    BY <1>1, <2>1, SameLink DEF Link, ServiceTypes, serviceVars
  <2>4. Link'  BY <1>1, <2>1, <2>2, <2>3 DEF Link
  <2>5. DataAccounted(datas', Len(dataQ))  BY <1>2, <2>1, DataRefused
  <2>6. Rest'  BY <1>1, <2>1, <2>5 DEF Rest
  <2>7. Moves  BY <1>1, <2>1, UpdateMoves DEF Moves
  <2>8. TimerWaits'  BY <2>1 DEF ClosTimer, TimerWaits, serviceVars
  <2>9. QED  BY <2>4, <2>6, <2>7, <2>8, IInvPartsNext
<1>5. CASE /\ StartIfIdle(Append(dataQ, p), credQ)
           /\ queueSize' = queueSize + p.size
           /\ datas' = [datas EXCEPT !.tot = @ + 1]
           /\ UNCHANGED <<now, creds, aborted>>
  <2>1. PICK dq : dq = Append(dataQ, p)  OBVIOUS
  <2>2. dq \in Seq(DataPkts) /\ Len(dq) = Len(dataQ) + 1 /\ dq # <<>>
    BY <1>1, <1>3, <2>1, AppendProperties DEF Link
  <2>3. credQ \in Seq(Nat) /\ Accounted(creds', Len(credQ)) /\ creds'.tx = creds.tx
    BY <1>1, <1>5 DEF Link
  <2>4. Link' /\ dataQ' = dq /\ Moves /\ TimerWaits'
    BY <1>5, <2>1, <2>2, <2>3, StartIfIdleStep
  <2>5. DataAccounted(datas', Len(dataQ'))  BY <1>2, <1>5, <2>2, <2>4, DataReceived
  <2>6. queueSize' \in Int  BY <1>1, <1>3, <1>5 DEF Rest
  <2>7. Rest'  BY <1>1, <1>5, <2>5, <2>6 DEF Rest
  <2>8. QED  BY <2>4, <2>7, IInvPartsNext
<1>6. QED  BY <1>4, <1>5 DEF ClosReceiveData

\* The end of a transmission in the Clos simulator.
LEMMA ClosTxDoneStep ==
  ASSUME IInv, ClosTimer, clos, NEW e \in events, ClosTxDone(e)
  PROVE  IInv' /\ Moves /\ TimerWaits'
<1>1. Rest /\ Link /\ TypeOK /\ Bucket /\ Serving /\ lastCredT <= now
  BY IInvParts DEF IInv, Bucket
<1>2. /\ events \ {e} = {} /\ Due /\ now' = now
      /\ \/ txNext = "CRED" /\ credQ # <<>>
         \/ txNext = "DATA" /\ dataQ # <<>>
  <2>1. now = nextSchedTx /\ now \in Nat /\ now' = now  BY <1>1 DEF ClosTxDone, Rest
  <2>2. nextSchedTx # NoPendingTx  BY <2>1 DEF NoPendingTx
  <2>3. /\ events \ {e} = {}
        /\ \/ txNext = "CRED" /\ credQ # <<>>
           \/ txNext = "DATA" /\ dataQ # <<>>
    BY <1>1, <2>2 DEF Serving, Sending, Waiting, Resting
  <2>4. QED  BY <2>1, <2>3 DEF Due
<1>3. ~ timerPending  BY <1>2 DEF ClosTimer, TimerWaits
<1> DEFINE isCred == txNext = "CRED"
           dq == IF isCred THEN dataQ ELSE Tail(dataQ)
           cq == IF isCred THEN Tail(credQ) ELSE credQ
<1>4. /\ queueSize' = IF isCred THEN queueSize ELSE queueSize - Head(dataQ).size
      /\ creds' = IF isCred THEN [creds EXCEPT !.tx = @ + 1] ELSE creds
      /\ datas' = IF isCred THEN datas ELSE [datas EXCEPT !.tx = @ + 1]
      /\ IF dq = <<>> /\ cq = <<>>
         THEN dataQ' = dq /\ credQ' = cq /\ NothingToSend({})
         ELSE ClosBeginService(dq, cq, {})
      /\ cq = <<>> => UNCHANGED clockVars
      /\ UNCHANGED <<now, aborted>>
  BY <1>2 DEF ClosTxDone, ClosCompleteService
<1>5. /\ dq \in Seq(DataPkts)
      /\ Len(dq) = IF isCred THEN Len(dataQ) ELSE Len(dataQ) - 1
  BY <1>1, <1>2 DEF Link
<1>6. cq \in Seq(Nat) /\ Len(cq) = IF isCred THEN Len(credQ) - 1 ELSE Len(credQ)
  BY <1>1, <1>2 DEF Link
<1> HIDE DEF cq, dq
<1>7. Accounted(creds', Len(cq)) /\ creds'.tx = IF isCred THEN creds.tx + 1 ELSE creds.tx
  <2>1. CASE isCred
    <3>1. Len(credQ) \in Nat /\ Len(credQ) > 0 /\ Accounted(creds, Len(credQ))
      BY <1>1, <1>2, <2>1 DEF Link
    <3>2. /\ Accounted([creds EXCEPT !.tx = @ + 1], Len(credQ) - 1)
          /\ [creds EXCEPT !.tx = @ + 1].tx = creds.tx + 1
      BY <3>1, SentAccounted
    <3>3. creds' = [creds EXCEPT !.tx = @ + 1] /\ Len(cq) = Len(credQ) - 1
      BY <1>4, <1>6, <2>1
    <3>4. QED  BY <2>1, <3>2, <3>3
  <2>2. CASE ~ isCred
    <3>1. creds' = creds /\ Len(cq) = Len(credQ)  BY <1>4, <1>6, <2>2
    <3>2. QED  BY <1>1, <2>2, <3>1 DEF Link
  <2>3. QED  BY <2>1, <2>2
<1>8. TokensTime(creds'.tx - 1 + availCred) <= lastCredT
  <2>1. creds.tx \in Nat /\ availCred \in Nat
    BY <1>1, CreditQueueAssumption DEF TypeOK, CreditCounters
  <2>2. InService = IF isCred THEN 1 ELSE 0  BY DEF InService
  <2>3. \A a, b \in Nat : /\ a + 1 + b - 1 = (a + 1) - 1 + b
                          /\ a + 0 + b - 1 = a - 1 + b
    OBVIOUS
  <2>4. creds.tx + InService + availCred - 1 = creds'.tx - 1 + availCred
    BY <1>7, <2>1, <2>2, <2>3
  <2>5. QED  BY <1>1, <2>4 DEF Bucket
<1>9. Link' /\ dataQ' = dq /\ Serves /\ TimerWaits'
  <2>1. CASE dq = <<>> /\ cq = <<>>
    <3>1. dataQ' = dq /\ credQ' = cq /\ NothingToSend({}) /\ UNCHANGED clockVars
      BY <1>4, <2>1
    <3>2. Resting' /\ ServiceTypes' /\ InService' = 0
      BY <1>1, <2>1, <3>1
      DEF Link, NothingToSend, Resting, IsEmpty, ServiceTypes, InService
    <3>3. Bucket'
      <4>1. creds'.tx \in Nat /\ availCred \in Nat
        BY <1>1, <1>7, CreditQueueAssumption DEF Accounted, CreditCounters, TypeOK
      <4>2. \A a, b \in Nat : a + 0 + b - 1 = a - 1 + b  OBVIOUS
      <4>3. creds'.tx + InService' + availCred' - 1 = creds'.tx - 1 + availCred
        BY <3>1, <3>2, <4>1, <4>2 DEF clockVars
      <4>4. QED  BY <1>1, <1>2, <1>8, <3>1, <4>3 DEF Bucket, clockVars
    <3>4. Link'
      BY <1>1, <1>5, <1>6, <1>7, <3>1, <3>2, <3>3 DEF Link, Serving, clockVars
    <3>5. TimerWaits'  BY <1>3, <3>1 DEF NothingToSend, TimerWaits
    <3>6. QED  BY <2>1, <3>1, <3>4, <3>5 DEF Serves
  <2>2. CASE ~ (dq = <<>> /\ cq = <<>>)
    <3>1. ClosBeginService(dq, cq, {})  BY <1>4, <2>2
    <3>2. QED  BY <1>1, <1>2, <1>3, <1>4, <1>5, <1>6, <1>7, <1>8, <3>1, ClosServiceStep
  <2>3. QED  BY <2>1, <2>2
<1>10. Rest'
  <2>1. CASE isCred
    <3>1. dataQ' = dataQ  BY <1>9, <2>1 DEF dq
    <3>2. UNCHANGED <<now, aborted, queueSize, datas, dataQ>>  BY <1>4, <2>1, <3>1
    <3>3. QED  BY <1>1, <3>2 DEF Rest
  <2>2. CASE ~ isCred
    <3>1. Head(dataQ) \in DataPkts  BY <1>1, <1>2, <2>2 DEF Link
    <3>2. Head(dataQ).size \in Nat  BY <3>1, CreditQueueAssumption DEF DataPkts
    <3>3. Len(dataQ') = Len(dataQ) - 1 /\ Len(dataQ) \in Nat
      BY <1>1, <1>5, <1>9, <2>2 DEF Link
    <3>4. /\ queueSize' = queueSize - Head(dataQ).size
          /\ datas' = [datas EXCEPT !.tx = @ + 1]
          /\ UNCHANGED <<now, aborted>>
      BY <1>4, <2>2
    <3>5. Len(dataQ) > 0 /\ DataAccounted(datas, Len(dataQ))
      BY <1>1, <1>2, <2>2, <3>3 DEF Rest, Link
    <3>6. DataAccounted(datas', Len(dataQ'))
      <4>1. DataAccounted([datas EXCEPT !.tx = @ + 1], Len(dataQ) - 1)
        BY <3>3, <3>5, DataSent
      <4>2. QED  BY <3>3, <3>4, <4>1, Zenon
    <3>7. queueSize' \in Int  BY <1>1, <3>2, <3>4 DEF Rest
    <3>8. QED  BY <1>1, <3>4, <3>6, <3>7 DEF Rest
  <2>3. QED  BY <2>1, <2>2
<1>11. Moves  BY <1>1, <1>2, <1>9, ServiceMoves DEF Moves
<1>12. QED  BY <1>9, <1>10, <1>11, IInvPartsNext

\* At the end of the wait there is a token.
LEMMA TokenWhenDue ==
  ASSUME TypeOK, lastCredT <= now, now = lastCredT + Spacing \/ availCred = 1
  PROVE  Tokens > 0
<1>1. availCred \in 0..MaxAvailCred /\ lastCredT \in Nat /\ now \in Nat  BY DEF TypeOK
<1>2. Spacing \in Nat \ {0} /\ MaxAvailCred \in Nat \ {0}  BY CreditQueueAssumption
<1>3. PICK g \in Nat : g = (now - lastCredT) \div Spacing
  <2>1. now - lastCredT \in Nat  BY <1>1
  <2>2. QED  BY <1>2, <2>1
<1>4. now = lastCredT + Spacing => g = 1
  <2>1. ASSUME now = lastCredT + Spacing  PROVE g = 1
    <3>1. now - lastCredT = Spacing  BY <1>1, <1>2, <2>1
    <3>2. QED  BY <1>2, <1>3, <3>1
  <2>2. QED  BY <2>1
<1>5. Tokens = LesserOf(availCred + g, MaxAvailCred)  BY <1>3 DEF Tokens
<1>6. QED  BY <1>1, <1>2, <1>4, <1>5 DEF LesserOf

\* The end of the wait for a token in the Clos simulator.
LEMMA ClosTimerStep ==
  ASSUME IInv, TimerDue, clos, NEW e \in events, ClosCreditTimer(e)
  PROVE  IInv' /\ Moves /\ TimerWaits'
<1>1. Rest /\ Link /\ TypeOK /\ Bucket /\ Serving /\ lastCredT <= now
  BY IInvParts DEF IInv, Bucket
<1>2. e.at = now /\ now # nextSchedTx  BY DEF ClosCreditTimer
<1>3. events \ {e} = {} /\ timerPending /\ txNext = "NONE" /\ credQ # <<>>
  BY <1>1, <1>2 DEF Serving, Sending, Waiting, Resting, Event
<1>4. /\ ClosBeginService(dataQ, credQ, {})
      /\ UNCHANGED <<now, queueSize, creds, datas, aborted>>
  BY <1>3 DEF ClosCreditTimer
<1>5. dataQ \in Seq(DataPkts) /\ credQ \in Seq(Nat) /\ Accounted(creds', Len(credQ))
  BY <1>1, <1>4 DEF Link
<1>6. Due  BY <1>2, <1>3 DEF Due
<1>7. Tokens > 0
  <2>1. now = lastCredT + Spacing \/ availCred = 1  BY <1>2, <1>3 DEF TimerDue, DueAt
  <2>2. QED  BY <1>1, <2>1, TokenWhenDue
<1>8. TokensTime(creds'.tx - 1 + availCred) <= lastCredT  BY <1>1, <1>3, <1>4, IdleBucket
<1>9. Link' /\ dataQ' = dataQ /\ Serves /\ TimerWaits'
  BY <1>1, <1>3, <1>4, <1>5, <1>6, <1>7, <1>8, ClosServiceStep
<1>10. Rest'  BY <1>1, <1>4, <1>9 DEF Rest
<1>11. Moves  BY <1>1, <1>4, <1>6, <1>9, ServiceMoves DEF Moves
<1>12. QED  BY <1>9, <1>10, <1>11, IInvPartsNext

\* Every step of the Clos simulator's queue keeps the invariant and is a move
\* of the link.
LEMMA ClosNextStep ==
  ASSUME IInv, TimerDue, ClosTimer, clos, ClosNext
  PROVE  IInv' /\ Moves /\ TimerWaits'
<1>1. CASE ClosReceiveCredit  BY <1>1, ClosCreditStep
<1>2. ASSUME NEW p \in ClosData, ClosReceiveData(p)  PROVE IInv' /\ Moves /\ TimerWaits'
  BY <1>2, ClosDataStep
<1>3. ASSUME NEW e \in events, ClosTxDone(e)  PROVE IInv' /\ Moves /\ TimerWaits'
  BY <1>3, ClosTxDoneStep
<1>4. ASSUME NEW e \in events, ClosCreditTimer(e)  PROVE IInv' /\ Moves /\ TimerWaits'
  BY <1>4, ClosTimerStep
<1>5. CASE Tick \/ Quiet
  <2>1. Next  BY <1>5 DEF Next
  <2>2. IInv'  BY <2>1, NextIInv
  <2>3. TimerWaits'
    BY <1>5 DEF Tick, Quiet, ClosTimer, TimerWaits, vars, serviceVars
  <2>4. QED  BY <2>1, <2>2, <2>3, NextMoves
<1>6. QED  BY <1>1, <1>2, <1>3, <1>4, <1>5 DEF ClosNext

-----------------------------------------------------------------------------
(* How long a burst of credits can be *)

\* A step of the link starts a credit exactly when History takes note of it.
LEMMA StartsNoted ==
  ASSUME IInv, Moves
  PROVE  \/ CreditStarts /\ \E new \in Nat : StartsCredit(new)
         \/ /\ ~ CreditStarts
            /\ \/ \E new \in Nat : Refills(new, 0)
               \/ UNCHANGED <<availCred, lastCredT>>
<1>1. now \in Nat /\ CredSize \in Nat \ {0}
  BY CreditQueueAssumption DEF IInv, TypeOK
<1>2. ASSUME NEW new \in Nat, StartsCredit(new)  PROVE CreditStarts
  <2>1. nextSchedTx = now \/ nextSchedTx = NoPendingTx
    BY <1>2 DEF StartsCredit, Due, IInv, Serving, Sending, Waiting, Resting
  <2>2. nextSchedTx' = now + CredSize /\ txNext' = "CRED"  BY <1>2 DEF StartsCredit
  <2>3. QED  BY <1>1, <2>1, <2>2 DEF CreditStarts, NoPendingTx
<1>3. ASSUME NEW new \in Nat, StartsData(new) \/ StartsWait(new) \/ Rests(new) \/ GoesOn(new)
      PROVE  ~ CreditStarts /\ Refills(new, 0)
  BY <1>3 DEF StartsData, StartsWait, Rests, GoesOn, CreditStarts, serviceVars
<1>4. CASE Passes
  BY <1>4 DEF Passes, Tick, CreditStarts, vars, clockVars, serviceVars
<1>5. QED  BY <1>2, <1>3, <1>4 DEF Moves, Starts

\* What holds of the times s of the last starts, d tokens short, with a tokens
\* at hand at t.
Paced(s, d, a, t) ==
  /\ s \in Seq(Nat)
  /\ \A i \in 1..Len(s) : TokensTime(Len(s) - i + d + a - MaxAvailCred) < t - s[i]

\* It holds as the bucket moves on, and for a credit that uses a token.
LEMMA PacedRefill ==
  ASSUME NEW new \in Nat, NEW t \in Nat, NEW a \in Nat, NEW t2 \in Nat, NEW a2 \in Nat,
         NEW spent \in {0, 1}, t2 = t + new * Spacing, a2 + spent <= a + new,
         NEW s, Paced(s, 0, a, t)
  PROVE  Paced(s, spent, a2, t2)
<1>1. s \in Seq(Nat)  BY DEF Paced
<1>2. PICK n \in Nat : n = Len(s)  BY <1>1, LenProperties
<1>3. PICK m \in Nat : m = MaxAvailCred  BY CreditQueueAssumption
<1>4. ASSUME NEW i \in 1..Len(s)
      PROVE  TokensTime(Len(s) - i + spent + a2 - MaxAvailCred) < t2 - s[i]
  <2>1. PICK x \in Nat : x = s[i]  BY <1>1, ElementOfSeq
  <2>2. PICK j \in Nat : j = i  OBVIOUS
  <2>3. PICK k \in Int : k = n - j - m  OBVIOUS
  <2>4. n - j + 0 + a - m = k + a /\ n - j + spent + a2 - m = k + spent + a2
    BY ONLY <2>3, n \in Nat, j \in Nat, m \in Nat, a \in Nat, a2 \in Nat, spent \in {0, 1}
  <2>5. TokensTime(k + a) < t - x
    <3>1. TokensTime(Len(s) - i + 0 + a - MaxAvailCred) < t - s[i]  BY DEF Paced
    <3>2. QED  BY <1>2, <1>3, <2>1, <2>2, <2>4, <3>1
  <2>6. TokensTime(k + spent + a2) < t2 - x
    <3>1. k + spent + a2 <= k + a + new /\ k + a + new \in Int /\ k + spent + a2 \in Int
          /\ k + a \in Int
      OBVIOUS
    <3>2. TokensTime(k + spent + a2) <= TokensTime(k + a + new)  BY <3>1, TimesMonotone
    <3>3. TokensTime(k + a + new) = TokensTime(k + a) + new * Spacing
      BY <3>1, CreditQueueAssumption DEF TokensTime
    <3>4. PICK g \in Nat : g = new * Spacing  BY CreditQueueAssumption
    <3>5. PICK p \in Int, q \in Int : p = TokensTime(k + a) /\ q = TokensTime(k + spent + a2)
      BY <3>1, CreditQueueAssumption DEF TokensTime
    <3>6. p < t - x /\ q <= p + g /\ t2 = t + g  BY <2>5, <3>2, <3>3, <3>4, <3>5
    <3>7. q < t2 - x  BY ONLY <3>6, p \in Int, q \in Int, g \in Nat, t \in Nat, x \in Nat
    <3>8. QED  BY <3>5, <3>7
  <2>7. QED  BY <1>2, <1>3, <2>1, <2>2, <2>4, <2>6
<1>5. QED  BY <1>1, <1>4 DEF Paced

\* A credit that starts is noted at the end of the list ...
LEMMA PacedStart ==
  ASSUME NEW s, NEW x \in Nat, NEW a \in Nat, NEW t \in Nat,
         Paced(s, 1, a, t), a < MaxAvailCred, x < t + Spacing
  PROVE  Paced(Append(s, x), 0, a, t)
<1>1. s \in Seq(Nat)  BY DEF Paced
<1>2. PICK n \in Nat : n = Len(s)  BY <1>1, LenProperties
<1>3. PICK m \in Nat : m = MaxAvailCred  BY CreditQueueAssumption
<1>4. PICK r : r = Append(s, x)  OBVIOUS
<1>5. /\ r \in Seq(Nat) /\ Len(r) = n + 1
      /\ \A i \in 1..n : r[i] = s[i]
      /\ r[n + 1] = x
  BY <1>1, <1>2, <1>4, AppendProperties
<1>6. ASSUME NEW i \in 1..(n + 1)
      PROVE  TokensTime((n + 1) - i + 0 + a - m) < t - r[i]
  <2>1. CASE i \in 1..n
    <3>1. (n + 1) - i + 0 + a - m = n - i + 1 + a - m  BY <2>1
    <3>2. TokensTime(n - i + 1 + a - m) < t - s[i]  BY <1>2, <1>3, <2>1 DEF Paced
    <3>3. QED  BY <1>5, <2>1, <3>1, <3>2
  <2>2. CASE i = n + 1
    <3>1. PICK k \in Int : k = (n + 1) - i + 0 + a - m  OBVIOUS
    <3>2. k <= -1  BY <1>3, <2>2, <3>1
    <3>3. TokensTime(k) <= TokensTime(-1)  BY <3>2, TimesMonotone
    <3>4. TokensTime(-1) = -Spacing /\ TokensTime(k) \in Int
      BY CreditQueueAssumption DEF TokensTime
    <3>5. -Spacing < t - x  BY CreditQueueAssumption
    <3>6. TokensTime(k) < t - x
      <4>1. Spacing \in Nat  BY CreditQueueAssumption
      <4>2. QED  BY <3>3, <3>4, <3>5, <4>1
    <3>7. QED  BY <1>5, <2>2, <3>1, <3>6
  <2>3. QED  BY <2>1, <2>2
<1>7. QED  BY <1>3, <1>4, <1>5, <1>6 DEF Paced

\* ... the first of which is dropped when the list is full.
LEMMA PacedTail ==
  ASSUME NEW s, s # <<>>, NEW d \in Nat, NEW a \in Nat, NEW t \in Nat, Paced(s, d, a, t)
  PROVE  Paced(Tail(s), d, a, t)
<1>1. s \in Seq(Nat)  BY DEF Paced
<1>2. PICK r : r = Tail(s)  OBVIOUS
<1>3. PICK n \in Nat : n = Len(r)
  <2>1. r \in Seq(Nat)  BY <1>1, <1>2, HeadTailProperties
  <2>2. QED  BY <2>1, LenProperties
<1>4. /\ r \in Seq(Nat) /\ Len(s) = n + 1
      /\ \A i \in 1..n : r[i] = s[i + 1]
  <2>1. /\ r \in Seq(Nat) /\ Len(r) = Len(s) - 1
        /\ \A i \in 1..Len(r) : r[i] = s[i + 1]
    BY <1>1, <1>2, HeadTailProperties
  <2>2. Len(s) \in Nat  BY <1>1, LenProperties
  <2>3. QED  BY <1>3, <2>1, <2>2
<1>5. PICK m \in Nat : m = MaxAvailCred  BY CreditQueueAssumption
<1>6. ASSUME NEW i \in 1..n  PROVE TokensTime(n - i + d + a - m) < t - r[i]
  <2>1. i + 1 \in 1..(n + 1) /\ (n + 1) - (i + 1) + d + a - m = n - i + d + a - m
    OBVIOUS
  <2>2. TokensTime((n + 1) - (i + 1) + d + a - m) < t - s[i + 1]
    BY <1>4, <1>5, <2>1 DEF Paced
  <2>3. QED  BY <1>4, <2>1, <2>2
<1>7. QED  BY <1>2, <1>3, <1>4, <1>5, <1>6 DEF Paced

\* As many credits as the bucket can hold, and two more, take more than a
\* Spacing.
LEMMA PacedBurst ==
  ASSUME NEW s, NEW x \in Nat, NEW a \in Nat, NEW t \in Nat, t <= x,
         Paced(s, 0, a, t), Len(s) = MaxAvailCred + 2, s[MaxAvailCred + 2] = x
  PROVE  s[MaxAvailCred + 2] > s[1] + Spacing
<1>1. PICK m \in Nat : m = MaxAvailCred  BY CreditQueueAssumption
<1>2. PICK sp \in Nat \ {0} : sp = Spacing  BY CreditQueueAssumption
<1>3. 1 \in 1..Len(s)  BY <1>1
<1>4. PICK y \in Nat : y = s[1]  BY <1>3, ElementOfSeq DEF Paced
<1>5. PICK k \in Int : k = (m + 2) - 1 + 0 + a - m  OBVIOUS
<1>6. TokensTime(k) < t - y  BY <1>1, <1>3, <1>4, <1>5 DEF Paced
<1>7. 1 <= k  BY <1>5
<1>8. TokensTime(1) <= TokensTime(k)  BY <1>7, TimesMonotone
<1>9. TokensTime(1) = sp /\ TokensTime(k) \in Int  BY <1>2 DEF TokensTime
<1>10. x > y + sp  BY <1>6, <1>8, <1>9
<1>11. QED  BY <1>2, <1>4, <1>10

\* The window over the last starts moves on with every credit, and keeps the
\* pace of the bursts.
LEMMA WindowStep ==
  ASSUME IInv, IInv', Moves, History, Window, BurstPace
  PROVE  Window' /\ BurstPace'
<1>1. PICK a \in Nat, t \in Nat, a2 \in Nat, t2 \in Nat, m \in Nat :
        /\ a = availCred /\ t = lastCredT /\ a2 = availCred' /\ t2 = lastCredT'
        /\ m = MaxAvailCred
  BY CreditQueueAssumption DEF IInv, TypeOK
<1>2. now \in Nat  BY DEF IInv, TypeOK
<1>3. Paced(starts, 0, a, t) /\ Len(starts) \in Nat /\ Len(starts) <= m + 2
  <2>1. starts \in Seq(Nat) /\ Len(starts) \in Nat /\ Len(starts) <= m + 2
    BY <1>1, LenProperties DEF Window
  <2>2. ASSUME NEW i \in 1..Len(starts)
        PROVE  TokensTime(Len(starts) - i + 0 + a - MaxAvailCred) < t - starts[i]
    <3>1. Len(starts) - i + 0 = Len(starts) - i  BY <2>1
    <3>2. QED  BY <1>1, <3>1 DEF Window
  <2>3. QED  BY <2>1, <2>2 DEF Paced
<1>4. ASSUME NEW s, starts' = s, Paced(s, 0, a2, t2), Len(s) <= m + 2  PROVE Window'
  <2>1. s \in Seq(Nat) /\ Len(s) \in Nat  BY <1>4, LenProperties DEF Paced
  <2>2. ASSUME NEW i \in 1..Len(s)
        PROVE  TokensTime(Len(s) - i + a2 - MaxAvailCred) < t2 - s[i]
    <3>1. Len(s) - i + 0 = Len(s) - i  BY <2>1
    <3>2. QED  BY <1>4, <3>1 DEF Paced
  <2>3. QED  BY <1>1, <1>4, <2>1, <2>2 DEF Window
<1>5. CASE ~ CreditStarts
  <2>1. starts' = starts  BY <1>5 DEF History
  <2>2. Paced(starts, 0, a2, t2)
    <3>1. CASE \E new \in Nat : Refills(new, 0)
      <4>1. PICK new \in Nat : Refills(new, 0)  BY <3>1
      <4>2. t2 = t + new * Spacing /\ a2 + 0 <= a + new  BY <1>1, <4>1 DEF Refills
      <4>3. Paced(starts, 0, a, t)  BY <1>3
      <4>4. QED  BY ONLY <4>2, <4>3, PacedRefill, new \in Nat, t \in Nat, t2 \in Nat,
                         a \in Nat, a2 \in Nat, 0 \in {0, 1}
    <3>2. CASE UNCHANGED <<availCred, lastCredT>>  BY <1>1, <1>3, <3>2
    <3>3. QED  BY <1>5, <3>1, <3>2, StartsNoted
  <2>3. QED  BY <1>3, <1>4, <2>1, <2>2 DEF BurstPace
<1>6. CASE CreditStarts
  <2>1. PICK new \in Nat : StartsCredit(new)  BY <1>6, StartsNoted
  <2>2. /\ t2 = t + new * Spacing /\ a2 + 1 <= a + new /\ t2 <= now
        /\ a2 < MaxAvailCred /\ now < t2 + Spacing
    BY <1>1, <2>1 DEF StartsCredit, Refills, UpToDate
  <2>3. Paced(starts, 1, a2, t2)
    <3>1. Paced(starts, 0, a, t) /\ t2 = t + new * Spacing /\ a2 + 1 <= a + new
      BY <1>3, <2>2
    <3>2. QED  BY ONLY <3>1, PacedRefill, new \in Nat, t \in Nat, t2 \in Nat, a \in Nat,
                       a2 \in Nat, 1 \in {0, 1}
  <2>4. PICK s : s = IF Len(starts) <= MaxAvailCred + 1 THEN starts ELSE Tail(starts)
    OBVIOUS
  <2>5. starts' = Append(s, now)  BY <1>6, <2>4 DEF History
  <2>6. Paced(s, 1, a2, t2) /\ s \in Seq(Nat) /\ Len(s) \in Nat /\ Len(s) <= m + 1
    <3>1. CASE Len(starts) <= MaxAvailCred + 1
      BY <1>1, <1>3, <2>3, <2>4, <3>1 DEF Paced
    <3>2. CASE ~ (Len(starts) <= MaxAvailCred + 1)
      <4>1. Len(starts) = m + 2 /\ starts # <<>> /\ s = Tail(starts)
        BY <1>1, <1>3, <2>4, <3>2, EmptySeq
      <4>2. Paced(s, 1, a2, t2)  BY <2>3, <4>1, PacedTail
      <4>3. starts \in Seq(Nat)  BY <1>3 DEF Paced
      <4>4. s \in Seq(Nat) /\ Len(s) = Len(starts) - 1  BY <4>1, <4>3, HeadTailProperties
      <4>5. QED  BY <4>1, <4>2, <4>4
    <3>3. QED  BY <3>1, <3>2
  <2>7. PICK r : r = Append(s, now)  OBVIOUS
  <2>8. Len(r) = Len(s) + 1 /\ r[Len(s) + 1] = now
    BY <1>2, <2>6, <2>7, AppendProperties
  <2>9. Paced(r, 0, a2, t2)  BY <1>2, <2>2, <2>6, <2>7, PacedStart
  <2>10. Window'
    <3>1. Len(r) <= m + 2  BY <2>6, <2>8
    <3>2. QED  BY <1>4, <2>5, <2>7, <2>9, <3>1
  <2>11. ASSUME Len(r) = MaxAvailCred + 2  PROVE r[MaxAvailCred + 2] > r[1] + Spacing
    <3>1. r[MaxAvailCred + 2] = now  BY <2>8, <2>11
    <3>2. QED  BY <1>2, <2>2, <2>9, <2>11, <3>1, PacedBurst
  <2>12. QED  BY <2>5, <2>7, <2>10, <2>11 DEF BurstPace
<1>7. QED  BY <1>5, <1>6

-----------------------------------------------------------------------------
(* How long the link waits for a token *)

\* Numbers: the timer's token may have come in, but not a second one.
LEMMA StillDue ==
  ASSUME NEW new \in Nat, NEW t \in Nat, NEW a \in Nat, NEW t2 \in Nat, NEW a2,
         NEW time \in Nat, NEW at \in Nat,
         t2 = t + new * Spacing, t2 <= time, time <= at,
         a2 = LesserOf(a + new, MaxAvailCred), DueAt(a, t, at)
  PROVE  DueAt(a2, t2, at)
<1>1. PICK S \in Nat \ {0} : S = Spacing  BY CreditQueueAssumption
<1>2. PICK M \in Nat \ {0} : M = MaxAvailCred  BY CreditQueueAssumption
<1>3. PICK g \in Nat : g = new * S /\ t2 = t + g  BY <1>1
<1>4. CASE a = 1 /\ at = t
  <2>1. new * S = 0  BY <1>3, <1>4
  <2>2. new = 0  BY <2>1
  <2>3. QED  BY <1>2, <1>3, <1>4, <2>1, <2>2 DEF LesserOf, DueAt
<1>5. CASE a = 0 /\ at = t + S
  <2>1. CASE new = 0  BY <1>1, <1>2, <1>3, <1>5, <2>1 DEF LesserOf, DueAt
  <2>2. CASE new = 1  BY <1>1, <1>2, <1>3, <1>5, <2>2 DEF LesserOf, DueAt
  <2>3. CASE new >= 2
    <3>1. new * S >= 2 * S  BY <2>3
    <3>2. QED  BY <1>3, <1>5, <3>1
  <2>4. QED  BY <2>1, <2>2, <2>3
<1>6. QED  BY <1>1, <1>4, <1>5 DEF DueAt

\* The timer stays set for the time the next token is due.
LEMMA TimerDueStep ==
  ASSUME IInv, IInv', Moves, TimerDue
  PROVE  TimerDue'
<1>1. ASSUME NEW new \in Nat, StartsCredit(new) \/ StartsData(new) \/ Rests(new)
      PROVE  TimerDue'
  BY <1>1 DEF StartsCredit, StartsData, Rests, TimerDue
<1>2. ASSUME NEW new \in Nat, StartsWait(new)  PROVE TimerDue'
  BY <1>2 DEF StartsWait, TimerDue, DueAt, Event
<1>3. ASSUME NEW new \in Nat, GoesOn(new)  PROVE TimerDue'
  <2>1. SUFFICES ASSUME txNext' = "NONE", NEW e \in events'
                 PROVE  DueAt(availCred', lastCredT', e.at)
    BY DEF TimerDue
  <2>2. txNext = "NONE" /\ e \in events  BY <1>3, <2>1 DEF GoesOn, serviceVars
  <2>3. now <= e.at
    BY <2>2 DEF IInv, Serving, Sending, Waiting, Resting
  <2>4. e.at \in Nat /\ now \in Nat /\ availCred \in Nat /\ lastCredT \in Nat
        /\ lastCredT' \in Nat
    BY <2>2, CreditQueueAssumption DEF IInv, TypeOK
  <2>5. /\ lastCredT' = lastCredT + new * Spacing /\ lastCredT' <= now
        /\ availCred' = LesserOf(availCred + new, MaxAvailCred)
    BY <1>3 DEF GoesOn, Refills
  <2>6. DueAt(availCred, lastCredT, e.at)  BY <2>2 DEF TimerDue
  <2>7. PICK t \in Nat, t2 \in Nat, a \in Nat, time \in Nat, at \in Nat :
          t = lastCredT /\ t2 = lastCredT' /\ a = availCred /\ time = now /\ at = e.at
    BY <2>4
  <2>8. PICK a2 : a2 = availCred'  OBVIOUS
  <2>9. /\ t2 = t + new * Spacing /\ t2 <= time /\ time <= at
        /\ a2 = LesserOf(a + new, MaxAvailCred) /\ DueAt(a, t, at)
    BY <2>3, <2>5, <2>6, <2>7, <2>8
  <2>10. DueAt(a2, t2, at)  BY <2>9, StillDue
  <2>11. QED  BY <2>7, <2>8, <2>10
<1>4. CASE Passes
  BY <1>4 DEF Passes, Tick, TimerDue, vars, clockVars, serviceVars
<1>5. QED  BY <1>1, <1>2, <1>3, <1>4 DEF Moves, Starts

-----------------------------------------------------------------------------
(* How long data waits *)

\* The burst at hand when the head of the data comes.
LEMMA BurstBegins ==
  ASSUME NEW h \in Nat, NEW t \in Nat, t <= h, h < t + Spacing,
         NEW a \in 0..MaxAvailCred, NEW n \in Nat, n <= h + CredSize
  PROVE  Allowed(h, t, n, a)
<1>1. PICK M \in Nat : M = MaxAvailCred  BY CreditQueueAssumption
<1>2. PICK C \in Nat \ {0} : C = CredSize  BY CreditQueueAssumption
<1>3. PICK S \in Nat \ {0} : S = Spacing  BY CreditQueueAssumption
<1>4. a * C <= M * C
  <2>1. (M - a) * C >= 0 /\ (M - a) * C = M * C - a * C  BY <1>1
  <2>2. a * C \in Nat /\ M * C \in Nat  BY <1>1
  <2>3. QED  BY <2>1, <2>2
<1>5. (M + 1) * C = M * C + C  OBVIOUS
<1>6. PICK x \in Nat, y \in Nat : x = a * C /\ y = M * C  BY <1>1
<1>7. n + a * C <= h + (M + 1) * C  BY <1>2, <1>4, <1>5, <1>6
<1>8. h - S < t  BY <1>3
<1>9. n + a * C <= h + (M + 1) * C + 0  BY <1>6, <1>7
<1>10. QED  BY <1>1, <1>2, <1>3, <1>8, <1>9 DEF Allowed, Burst

\* The burst goes on: a credit that follows takes its token and its time, and
\* no second token becomes due before the burst is over.
LEMMA BurstGoesOn ==
  ASSUME NEW h \in Nat, NEW t \in Nat, NEW n \in Nat, NEW a \in Nat, Burst(h, t, n, a),
         NEW time \in Nat, time <= n, NEW new \in Nat, NEW spent \in {0, 1},
         NEW t2 \in Nat, NEW n2 \in Nat, NEW a2 \in Nat,
         t2 = t + new * Spacing, t2 <= time, a2 + spent <= a + new,
         n2 <= n + spent * CredSize
  PROVE  Burst(h, t2, n2, a2)
<1>1. PICK M \in Nat \ {0} : M = MaxAvailCred  BY CreditQueueAssumption
<1>2. PICK C \in Nat \ {0} : C = CredSize  BY CreditQueueAssumption
<1>3. PICK S \in Nat \ {0} : S = Spacing  BY CreditQueueAssumption
<1>4. PICK b \in Nat : b = (M + 1) * C  OBVIOUS
<1>5. b + C <= S
  <2>1. (M + 2) * C = (M + 1) * C + C  OBVIOUS
  <2>2. (M + 2) * C <= S  BY <1>1, <1>2, <1>3, PaceAssumption
  <2>3. QED  BY <1>4, <2>1, <2>2
<1>6. PICK c \in {0, C} : c = IF t > h THEN C ELSE 0  OBVIOUS
<1>7. PICK x \in Nat, g \in Nat : x = a * C /\ g = new * S  OBVIOUS
<1>8. /\ h - S < t /\ n + x <= h + b + c /\ t2 = t + g
      /\ (c = 0) <=> ~ (t > h)
  BY <1>1, <1>2, <1>3, <1>4, <1>6, <1>7 DEF Burst
<1>9. time <= h + b + c  BY <1>2, <1>6, <1>7, <1>8
<1>10. n2 + a2 * C <= n + x + new * C
  <2>1. (a2 + spent) * C <= (a + new) * C
    <3>1. (a + new - a2 - spent) * C >= 0  OBVIOUS
    <3>2. (a + new - a2 - spent) * C = (a + new) * C - (a2 + spent) * C  OBVIOUS
    <3>3. (a + new) * C \in Nat /\ (a2 + spent) * C \in Nat  OBVIOUS
    <3>4. QED  BY <3>1, <3>2, <3>3
  <2>2. (a2 + spent) * C = a2 * C + spent * C /\ (a + new) * C = a * C + new * C
    OBVIOUS
  <2>3. PICK p \in Nat, q \in Nat, r \in Nat :
          p = a2 * C /\ q = spent * C /\ r = new * C
    OBVIOUS
  <2>4. p + q <= x + r  BY <1>7, <2>1, <2>2, <2>3
  <2>5. n2 <= n + q  BY <1>2, <2>3
  <2>6. n2 + p <= n + x + r  BY ONLY <2>4, <2>5, n \in Nat, n2 \in Nat, x \in Nat,
                               p \in Nat, q \in Nat, r \in Nat
  <2>7. QED  BY <2>3, <2>6
<1>11. CASE new = 0
  <2>1. g = 0 /\ new * C = 0  BY <1>7, <1>11
  <2>2. t2 = t  BY <1>8, <2>1
  <2>3. PICK p \in Nat : p = a2 * C  OBVIOUS
  <2>4. n2 + p <= h + b + c  BY <1>6, <1>8, <1>10, <2>1, <2>3
  <2>5. QED  BY <1>1, <1>2, <1>3, <1>4, <1>6, <1>8, <2>2, <2>3, <2>4 DEF Burst
<1>12. CASE new = 1
  <2>1. g = S /\ new * C = C  BY <1>7, <1>12
  <2>2. t2 > h  BY <1>3, <1>8, <2>1
  <2>3. c = 0
    <3>1. SUFFICES ASSUME t > h  PROVE FALSE  BY <1>8
    <3>2. c = C  BY <1>6, <3>1
    <3>3. t + S <= h + b + C  BY <1>8, <1>9, <2>1, <3>2
    <3>4. QED  BY <1>5, <3>1, <3>3
  <2>4. PICK p \in Nat : p = a2 * C  OBVIOUS
  <2>5. n2 + p <= h + b + C  BY <1>8, <1>10, <2>1, <2>3, <2>4
  <2>6. h - S < t2  BY <2>2
  <2>7. QED  BY <1>1, <1>2, <1>3, <1>4, <2>2, <2>4, <2>5, <2>6 DEF Burst
<1>13. CASE new >= 2
  <2>1. g >= 2 * S
    <3>1. (new - 2) * S >= 0 /\ (new - 2) * S = new * S - 2 * S  BY <1>13
    <3>2. QED  BY <1>7, <3>1
  <2>2. t2 > h + S  BY <1>3, <1>8, <2>1
  <2>3. QED  BY <1>5, <1>6, <1>9, <2>2
<1>14. QED  BY <1>11, <1>12, <1>13

\* After the credit that was waited for there is no token for another one.
LEMMA AfterWaitGoesOn ==
  ASSUME NEW h \in Nat, NEW t \in Nat, NEW n \in Nat, NEW a \in Nat, AfterWait(h, t, n, a),
         NEW time \in Nat, time <= n, NEW new \in Nat, NEW spent \in {0, 1},
         NEW t2 \in Nat, NEW a2 \in Nat,
         t2 = t + new * Spacing, t2 <= time, a2 + spent <= a + new
  PROVE  spent = 0 /\ AfterWait(h, t2, n, a2)
<1>1. PICK C \in Nat \ {0} : C = CredSize  BY CreditQueueAssumption
<1>2. PICK S \in Nat \ {0} : S = Spacing  BY CreditQueueAssumption
<1>3. C < S
  <2>1. PICK M \in Nat \ {0} : M = MaxAvailCred  BY CreditQueueAssumption
  <2>2. (M + 2) * C <= S  BY <1>1, <1>2, <2>1, PaceAssumption
  <2>3. (M - 1) * C >= 0 /\ (M + 2) * C = (M - 1) * C + 3 * C  BY <2>1
  <2>4. PICK x \in Nat : x = (M - 1) * C  BY <2>1
  <2>5. QED  BY <2>2, <2>3, <2>4
<1>4. new = 0
  <2>1. SUFFICES ASSUME new >= 1  PROVE FALSE  OBVIOUS
  <2>2. (new - 1) * S >= 0 /\ (new - 1) * S = new * S - S  BY <2>1
  <2>3. PICK g \in Nat : g = new * S  OBVIOUS
  <2>4. t + g <= t + C  BY <1>1, <1>2, <2>3 DEF AfterWait
  <2>5. QED  BY <1>3, <2>2, <2>3, <2>4
<1>5. new * Spacing = 0  BY <1>2, <1>4
<1>6. t2 = t  BY <1>5
<1>7. a2 = 0 /\ spent = 0  BY <1>4 DEF AfterWait
<1>8. QED  BY <1>6, <1>7 DEF AfterWait

\* The credit that was waited for takes the only token.
LEMMA WaitEnds ==
  ASSUME NEW h \in Nat, NEW t \in Nat, NEW a \in Nat, NEW time \in Nat, DueAt(a, t, time),
         time <= h + Spacing, NEW new \in Nat, NEW t2 \in Nat, NEW a2 \in Nat,
         t2 = t + new * Spacing, t2 <= time, a2 + 1 <= a + new
  PROVE  AfterWait(h, t2, time + CredSize, a2)
<1>1. PICK S \in Nat \ {0} : S = Spacing  BY CreditQueueAssumption
<1>2. PICK g \in Nat : g = new * S  OBVIOUS
<1>3. t2 = t + g  BY <1>1, <1>2
<1>4. CASE a = 1 /\ time = t
  <2>1. g = 0  BY <1>3, <1>4
  <2>2. new = 0  BY <1>2, <2>1
  <2>3. a2 = 0 /\ t2 = time  BY <1>3, <1>4, <2>1, <2>2
  <2>4. QED  BY <2>3 DEF AfterWait
<1>5. CASE a = 0 /\ time = t + S
  <2>1. new >= 1  BY <1>5
  <2>2. ~ (new >= 2)
    <3>1. SUFFICES ASSUME new >= 2  PROVE FALSE  OBVIOUS
    <3>2. (new - 2) * S >= 0 /\ (new - 2) * S = new * S - 2 * S  BY <3>1
    <3>3. QED  BY <1>2, <1>3, <1>5, <3>2
  <2>3. new = 1  BY <2>1, <2>2
  <2>4. g = S  BY <1>2, <2>3
  <2>5. a2 = 0 /\ t2 = time  BY <1>3, <1>5, <2>3, <2>4
  <2>6. QED  BY <2>5 DEF AfterWait
<1>6. QED  BY <1>1, <1>4, <1>5 DEF DueAt

\* What a transmission in progress means.
LEMMA SendingMeans ==
  ASSUME IInv
  PROVE  /\ now \in Nat /\ lastCredT \in Nat /\ availCred \in 0..MaxAvailCred
         /\ lastCredT <= now
         /\ txNext = "CRED" => nextSchedTx \in Nat /\ now <= nextSchedTx
         /\ txNext \in {"NONE", "DATA", "CRED"}
         /\ \A e \in events : e.at \in Nat
         /\ txNext = "NONE" => \A e \in events : now <= e.at /\ e.at <= now + Spacing
<1>1. TypeOK /\ Serving /\ lastCredT <= now  BY DEF IInv, Bucket
<1>2. txNext = "CRED" => nextSchedTx \in Nat /\ now <= nextSchedTx
  BY <1>1 DEF Serving, Sending, Waiting, Resting, NoPendingTx, TypeOK
<1>3. txNext = "NONE" => \A e \in events : now <= e.at /\ e.at <= now + Spacing
  BY <1>1 DEF Serving, Sending, Waiting, Resting
<1>4. QED  BY <1>1, <1>2, <1>3 DEF TypeOK

\* A credit that starts while data waits is one that is allowed.
LEMMA HeadAtStart ==
  ASSUME IInv, IInv', HeadWaits, TimerDue, History, NEW new \in Nat, StartsCredit(new),
         headSince' # -1
  PROVE  Allowed(headSince', lastCredT', nextSchedTx', availCred')
<1>1. PICK t \in Nat, a \in Nat, time \in Nat, t2 \in Nat, a2 \in Nat, n2 \in Nat :
        /\ a2 \in 0..MaxAvailCred
        /\ t = lastCredT /\ a = availCred /\ time = now
        /\ t2 = lastCredT' /\ a2 = availCred' /\ n2 = time + CredSize /\ n2 = nextSchedTx'
  BY CreditQueueAssumption DEF StartsCredit, IInv, TypeOK
<1>2. /\ t2 = t + new * Spacing /\ t2 <= time /\ a2 + 1 <= a + new /\ time < t2 + Spacing
      /\ Due
  BY <1>1 DEF StartsCredit, Refills, UpToDate
<1>3. CASE headSince = -1
  <2>1. headSince' = time  BY <1>1, <1>3 DEF History
  <2>2. Allowed(time, t2, n2, a2)  BY <1>1, <1>2, BurstBegins
  <2>3. QED  BY <1>1, <2>1, <2>2
<1>4. CASE headSince # -1
  <2>1. PICK h \in Nat : h = headSince  BY <1>4 DEF HeadWaits
  <2>2. headSince' = h  BY <1>4, <2>1 DEF History
  <2>3. txNext \in {"NONE", "CRED"} /\ dataQ # <<>>
    BY <1>4, SendingMeans DEF HeadWaits
  <2>4. CASE txNext = "NONE"
    <3>1. PICK e \in events : e.at = time  BY <1>1, <1>2, <2>3, <2>4 DEF Due, IsEmpty
    <3>2. DueAt(a, t, time) /\ time <= h + Spacing
      BY <1>1, <1>4, <2>1, <2>4, <3>1 DEF TimerDue, HeadWaits
    <3>3. AfterWait(h, t2, time + CredSize, a2)  BY <1>2, <3>2, WaitEnds
    <3>4. QED  BY <1>1, <2>2, <3>3 DEF Allowed
  <2>5. CASE txNext = "CRED"
    <3>1. PICK n \in Nat : n = nextSchedTx /\ n = time
      BY <1>1, <1>2, <2>5 DEF Due
    <3>2. Allowed(h, t, n, a)  BY <1>1, <1>4, <2>1, <2>5, <3>1 DEF HeadWaits
    <3>3. ~ AfterWait(h, t, n, a)
      <4>1. SUFFICES ASSUME AfterWait(h, t, n, a)  PROVE FALSE  OBVIOUS
      <4>2. PICK spent \in {0, 1} : spent = 1  OBVIOUS
      <4>3. time <= n /\ a2 + spent <= a + new  BY <1>2, <3>1, <4>2
      <4>4. spent = 0  BY <1>2, <4>1, <4>3, AfterWaitGoesOn, ZenonT(30)
      <4>5. QED  BY <4>2, <4>4
    <3>4. Burst(h, t, n, a)  BY <3>2, <3>3 DEF Allowed
    <3>5. PICK spent \in {0, 1} : spent = 1  OBVIOUS
    <3>6. time <= n /\ a2 + spent <= a + new /\ n2 <= n + spent * CredSize
      <4>1. spent * CredSize = CredSize /\ n2 = n + CredSize /\ n2 <= n2
        BY <1>1, <3>1, <3>5, CreditQueueAssumption
      <4>2. time <= n /\ a2 + spent <= a + new  BY <1>2, <3>1, <3>5
      <4>3. QED  BY <4>1, <4>2
    <3>7. Burst(h, t2, n2, a2)  BY <1>2, <3>4, <3>6, BurstGoesOn
    <3>8. QED  BY <1>1, <2>2, <3>7 DEF Allowed
  <2>6. QED  BY <2>3, <2>4, <2>5
<1>5. QED  BY <1>3, <1>4

\* A packet that arrives while a credit is being sent finds it allowed.
LEMMA HeadGoesOn ==
  ASSUME IInv, IInv', HeadWaits, History, NEW new \in Nat, GoesOn(new),
         headSince' # -1, txNext' = "CRED"
  PROVE  Allowed(headSince', lastCredT', nextSchedTx', availCred')
<1>1. txNext = "CRED" /\ nextSchedTx' = nextSchedTx  BY DEF GoesOn, serviceVars
<1>2. PICK t \in Nat, a \in Nat, time \in Nat, t2 \in Nat, a2 \in Nat, n \in Nat :
        /\ a2 \in 0..MaxAvailCred
        /\ t = lastCredT /\ a = availCred /\ time = now /\ n = nextSchedTx /\ time <= n
        /\ t2 = lastCredT' /\ a2 = availCred'
  BY <1>1, SendingMeans, CreditQueueAssumption, SMTT(30) DEF IInv, TypeOK
<1>3. /\ t2 = t + new * Spacing /\ t2 <= time /\ a2 <= a + new /\ time < t2 + Spacing
  BY <1>2, CreditQueueAssumption DEF GoesOn, Refills, UpToDate
<1>4. CASE headSince = -1
  <2>1. headSince' = time  BY <1>2, <1>4 DEF History
  <2>2. n <= time + CredSize  BY <1>1, <1>2 DEF HeadWaits
  <2>3. Allowed(time, t2, n, a2)  BY <1>2, <1>3, <2>2, BurstBegins
  <2>4. QED  BY <1>1, <1>2, <2>1, <2>3
<1>5. CASE headSince # -1
  <2>1. PICK h \in Nat : h = headSince  BY <1>5 DEF HeadWaits
  <2>2. headSince' = h  BY <1>5, <2>1 DEF History
  <2>3. Allowed(h, t, n, a)  BY <1>1, <1>2, <1>5, <2>1 DEF HeadWaits
  <2>4. PICK spent \in {0, 1} : spent = 0  OBVIOUS
  <2>5. a2 + spent <= a + new /\ n <= n + spent * CredSize
    BY <1>3, <2>4, CreditQueueAssumption
  <2>6. Burst(h, t, n, a) => Burst(h, t2, n, a2)  BY <1>2, <1>3, <2>5, BurstGoesOn
  <2>7. AfterWait(h, t, n, a) => AfterWait(h, t2, n, a2)
    BY <1>2, <1>3, <2>5, AfterWaitGoesOn
  <2>8. QED  BY <1>1, <1>2, <2>2, <2>3, <2>6, <2>7 DEF Allowed
<1>6. QED  BY <1>4, <1>5

\* The head of the data waits for no more than the credits that are allowed.
LEMMA HeadWaitsStep ==
  ASSUME IInv, IInv', Moves, History, HeadWaits, TimerDue
  PROVE  HeadWaits'
<1>1. now \in Nat /\ now' \in Nat /\ now <= now'
  <2>1. now \in Nat /\ now' \in Nat  BY DEF IInv, TypeOK
  <2>2. now' = now \/ now' = now + 1
    BY DEF Moves, Passes, Tick, vars, Starts, StartsCredit, StartsData, StartsWait, Rests,
       GoesOn, Refills
  <2>3. QED  BY <2>1, <2>2
<1>2. headSince' \in Nat \cup {-1} /\ headSince' <= now'
  BY <1>1 DEF History, HeadWaits
<1>3. headSince' # -1 <=> dataQ' # <<>> /\ txNext' # "DATA"
  BY <1>1 DEF History
<1>4. Passes => /\ UNCHANGED <<txNext, nextSchedTx, events, dataQ, lastCredT, availCred>>
                /\ headSince' = headSince
  <2>1. Passes => UNCHANGED <<txNext, nextSchedTx, events, dataQ, lastCredT, availCred>>
    BY DEF Passes, Tick, vars, clockVars, serviceVars
  <2>2. QED  BY <2>1 DEF History, HeadWaits
<1>5. ASSUME txNext' = "NONE", headSince' # -1, NEW e \in events'
      PROVE  e.at <= headSince' + Spacing
  <2>1. CASE Passes
    BY <1>4, <1>5, <2>1 DEF HeadWaits
  <2>2. ASSUME NEW new \in Nat, Starts(new)  PROVE e.at <= headSince' + Spacing
    BY <1>3, <1>5, <2>2 DEF Starts, StartsCredit, StartsData, StartsWait, Rests
  <2>3. ASSUME NEW new \in Nat, GoesOn(new)  PROVE e.at <= headSince' + Spacing
    <3>1. txNext = "NONE" /\ e \in events  BY <1>5, <2>3 DEF GoesOn, serviceVars
    <3>2. e.at <= now + Spacing  BY <3>1, SendingMeans
    <3>3. CASE headSince = -1
      <4>1. headSince' = now  BY <1>5, <3>3 DEF History
      <4>2. QED  BY <3>2, <4>1
    <3>4. CASE headSince # -1
      <4>1. headSince' = headSince  BY <1>5, <3>4 DEF History
      <4>2. QED  BY <3>1, <3>4, <4>1 DEF HeadWaits
    <3>5. QED  BY <3>3, <3>4
  <2>4. QED  BY <2>1, <2>2, <2>3 DEF Moves
<1>6. ASSUME txNext' = "CRED"  PROVE nextSchedTx' <= now' + CredSize
  <2>1. CASE Passes
    <3>1. nextSchedTx \in Nat /\ nextSchedTx <= now + CredSize /\ nextSchedTx' = nextSchedTx
      BY <1>4, <1>6, <2>1, SendingMeans DEF HeadWaits
    <3>2. PICK x \in Nat, y \in Nat, C \in Nat : x = now /\ y = now' /\ C = CredSize /\ x <= y
      BY <1>1, CreditQueueAssumption
    <3>3. PICK z \in Nat : z = nextSchedTx /\ z <= x + C  BY <3>1, <3>2
    <3>4. x <= y /\ z <= x + C  BY <3>2, <3>3
    <3>5. z <= y + C  BY ONLY <3>4, x \in Nat, y \in Nat, z \in Nat, C \in Nat
    <3>6. QED  BY <3>1, <3>2, <3>3, <3>5
  <2>2. ASSUME NEW new \in Nat, Starts(new)  PROVE nextSchedTx' <= now' + CredSize
    <3>1. nextSchedTx' = now + CredSize /\ now' = now
      BY <1>6, <2>2 DEF Starts, StartsCredit, StartsData, StartsWait, Rests, Refills
    <3>2. QED  BY <1>1, <3>1, CreditQueueAssumption
  <2>3. ASSUME NEW new \in Nat, GoesOn(new)  PROVE nextSchedTx' <= now' + CredSize
    BY <1>6, <2>3 DEF GoesOn, Refills, serviceVars, HeadWaits
  <2>4. QED  BY <2>1, <2>2, <2>3 DEF Moves
<1>7. ASSUME txNext' = "CRED", headSince' # -1
      PROVE  Allowed(headSince', lastCredT', nextSchedTx', availCred')
  <2>1. CASE Passes
    BY <1>4, <1>7, <2>1 DEF HeadWaits
  <2>2. ASSUME NEW new \in Nat, Starts(new)
        PROVE  Allowed(headSince', lastCredT', nextSchedTx', availCred')
    <3>1. StartsCredit(new)
      BY <1>7, <2>2 DEF Starts, StartsData, StartsWait, Rests
    <3>2. QED  BY <1>7, <3>1, HeadAtStart
  <2>3. ASSUME NEW new \in Nat, GoesOn(new)
        PROVE  Allowed(headSince', lastCredT', nextSchedTx', availCred')
    BY <1>7, <2>3, HeadGoesOn
  <2>4. QED  BY <2>1, <2>2, <2>3 DEF Moves
<1>8. QED  BY <1>2, <1>3, <1>5, <1>6, <1>7 DEF HeadWaits

\* So the head of the data is never starved.
LEMMA HeadNotStarved == IInv /\ HeadWaits => DataNotStarved
<1> SUFFICES ASSUME IInv, HeadWaits, headSince # -1
             PROVE  now - headSince <= Spacing + (MaxAvailCred + 1) * CredSize
  BY DEF DataNotStarved
<1>1. PICK h \in Nat, time \in Nat, t \in Nat, a \in Nat :
        h = headSince /\ time = now /\ t = lastCredT /\ a = availCred
  BY CreditQueueAssumption DEF IInv, TypeOK, HeadWaits
<1>2. PICK M \in Nat \ {0}, C \in Nat \ {0}, S \in Nat \ {0} :
        M = MaxAvailCred /\ C = CredSize /\ S = Spacing
  BY CreditQueueAssumption
<1>3. PICK b \in Nat : b = (M + 1) * C  OBVIOUS
<1>4. C <= b /\ b + C <= S
  <2>1. (M + 2) * C = (M + 1) * C + C /\ (M + 1) * C = M * C + C  OBVIOUS
  <2>2. (M + 2) * C <= S  BY <1>2, PaceAssumption
  <2>3. PICK x \in Nat : x = M * C  OBVIOUS
  <2>4. QED  BY <1>3, <2>1, <2>2, <2>3
<1>5. txNext \in {"NONE", "CRED"} /\ dataQ # <<>>  BY SendingMeans DEF HeadWaits
<1>6. time <= h + S + b
  <2>1. CASE txNext = "NONE"
    <3>1. PICK e \in events : now <= e.at /\ e.at \in Nat
      BY <1>5, <2>1, SendingMeans DEF IInv, Serving, Sending, Waiting, Resting, IsEmpty
    <3>2. e.at <= h + S  BY <1>1, <1>2, <2>1, <3>1 DEF HeadWaits
    <3>3. QED  BY <1>1, <3>1, <3>2
  <2>2. CASE txNext = "CRED"
    <3>1. PICK n \in Nat : n = nextSchedTx /\ time <= n  BY <1>1, <2>2, SendingMeans
    <3>2. Allowed(h, t, n, a)  BY <1>1, <2>2, <3>1 DEF HeadWaits
    <3>3. CASE Burst(h, t, n, a)
      <4>1. PICK x \in Nat : x = a * C  OBVIOUS
      <4>2. n + x <= h + b + C  BY <1>2, <1>3, <3>3, <4>1 DEF Burst
      <4>3. QED  BY <1>4, <3>1, <4>2
    <3>4. CASE AfterWait(h, t, n, a)
      <4>1. n <= h + S + C  BY <1>2, <3>4 DEF AfterWait
      <4>2. QED  BY <1>4, <3>1, <4>1
    <3>5. QED  BY <3>2, <3>3, <3>4 DEF Allowed
  <2>3. QED  BY <1>5, <2>1, <2>2
<1>7. time - h <= S + b  BY <1>6
<1>8. QED  BY <1>1, <1>2, <1>3, <1>7

-----------------------------------------------------------------------------
(* How long credits live *)

\* A credit that comes now expires after those that came before.
LEMMA SortedAppend ==
  ASSUME NEW q \in Seq(Nat), NEW x \in Nat, SortedUpTo(q, x)
  PROVE  /\ SortedUpTo(Append(q, x), x)
         /\ q # <<>> => Append(q, x)[1] = q[1]
<1>1. PICK r : r = Append(q, x)  OBVIOUS
<1>2. PICK n \in Nat : n = Len(q)  BY LenProperties
<1>3. /\ Len(r) = n + 1 /\ r[n + 1] = x
      /\ \A i \in 1..n : r[i] = q[i] /\ q[i] \in Nat
  BY <1>1, <1>2, AppendProperties, ElementOfSeq
<1>4. ASSUME NEW i \in 1..(n + 1)  PROVE r[i] <= x /\ r[i] \in Nat
  <2>1. CASE i = n + 1  BY <1>3, <2>1
  <2>2. CASE i \in 1..n  BY <1>2, <1>3, <2>2 DEF SortedUpTo
  <2>3. QED  BY <2>1, <2>2
<1>5. ASSUME NEW i \in 1..(n + 1), NEW j \in 1..(n + 1), i < j  PROVE r[i] <= r[j]
  <2>1. CASE j = n + 1  BY <1>3, <1>4, <2>1
  <2>2. CASE j \in 1..n
    <3>1. i \in 1..n  BY <1>5, <2>2
    <3>2. q[i] <= q[j]  BY <1>2, <1>5, <2>2, <3>1 DEF SortedUpTo
    <3>3. QED  BY <1>3, <2>2, <3>1, <3>2
  <2>3. QED  BY <2>1, <2>2
<1>6. q # <<>> => r[1] = q[1]
  <2>1. q # <<>> => 1 \in 1..n  BY <1>2, EmptySeq
  <2>2. QED  BY <1>3, <2>1
<1>7. SortedUpTo(r, x)  BY <1>3, <1>4, <1>5 DEF SortedUpTo
<1>8. QED  BY <1>1, <1>6, <1>7

\* Dropping credits at the front leaves the others in order.
LEMMA SortedDrop ==
  ASSUME NEW q \in Seq(Nat), NEW last, SortedUpTo(q, last), NEW d \in 0..Len(q),
         NEW r \in Seq(Nat), Len(r) = Len(q) - d, \A i \in 1..Len(r) : r[i] = q[i + d]
  PROVE  SortedUpTo(r, last)
<1>1. PICK n \in Nat : n = Len(q)  BY LenProperties
<1>2. \A i \in 1..Len(r) : i + d \in 1..n  BY <1>1
<1>3. ASSUME NEW i \in 1..Len(r)  PROVE r[i] <= last
  BY <1>1, <1>2 DEF SortedUpTo
<1>4. ASSUME NEW i \in 1..Len(r), NEW j \in 1..Len(r), i < j  PROVE r[i] <= r[j]
  <2>1. i + d < j + d  BY <1>1, <1>4
  <2>2. q[i + d] <= q[j + d]  BY <1>1, <1>2, <2>1 DEF SortedUpTo
  <2>3. QED  BY <2>2
<1>5. QED  BY <1>3, <1>4 DEF SortedUpTo

\* beginService starts no credit that would expire on the way.
LEMMA FreshService ==
  ASSUME now \in Nat, now' = now, NEW dq, NEW cq \in Seq(Nat), NEW evs, NEW st,
         SortedUpTo(cq, now + CredTimeout), BeginService(dq, cq, evs, st)
  PROVE  Unexpired'
<1>1. PICK k \in 0..Len(cq) :
        /\ NextCred(cq, k)
        /\ credQ' = SubSeq(cq, k + 1, Len(cq))
        /\ txNext' = "CRED" => credQ' # <<>> /\ nextSchedTx' = now + CredSize
  BY DEF BeginService, SendCredit, SendData, AwaitToken, NothingToSend
<1>2. PICK n \in Nat : n = Len(cq)  BY LenProperties
<1>3. PICK r : r = SubSeq(cq, k + 1, Len(cq))  OBVIOUS
<1>4. k + 1 \in 1..(n + 1) /\ n \in k..n  BY <1>2
<1>5. /\ r \in Seq(Nat) /\ Len(r) = n - k
      /\ \A i \in 1..Len(r) : r[i] = cq[i + k]
  <2>1. /\ r \in Seq(Nat) /\ Len(r) = n - (k + 1) + 1
        /\ \A i \in 1..Len(r) : r[i] = cq[k + 1 + i - 1]
    BY <1>2, <1>3, <1>4, SubSeqProperties
  <2>2. \A i \in Int : k + 1 + i - 1 = i + k  OBVIOUS
  <2>3. QED  BY <1>2, <2>1, <2>2
<1>6. SortedUpTo(r, now + CredTimeout)  BY <1>2, <1>5, SortedDrop
<1>7. ASSUME txNext' = "CRED"  PROVE nextSchedTx' <= r[1]
  <2>1. Len(r) # 0  BY <1>1, <1>3, <1>5, <1>7, EmptySeq
  <2>2. 1 \in 1..Len(r) /\ k < n /\ 1 + k = k + 1  BY <1>2, <1>5, <2>1
  <2>3. r[1] = cq[k + 1] /\ r[1] \in Nat  BY <1>5, <2>2, ElementOfSeq
  <2>4. ~ (now + CredSize > cq[k + 1])  BY <1>1, <1>2, <2>2 DEF NextCred, Expired
  <2>5. QED  BY <1>1, <1>7, <2>3, <2>4, CreditQueueAssumption
<1>8. QED  BY <1>1, <1>3, <1>6, <1>7 DEF Unexpired

\* A step that leaves the credits and the link alone.
LEMMA FreshSame ==
  ASSUME now \in Nat, now' \in Nat, now <= now', credQ \in Seq(Nat), Unexpired,
         UNCHANGED <<credQ, txNext, nextSchedTx>>
  PROVE  Unexpired'
<1>1. PICK x \in Nat, y \in Nat, d \in Nat : x = now /\ y = now' /\ d = CredTimeout
  BY CreditQueueAssumption
<1>2. x + d <= y + d /\ x + d \in Nat /\ y + d \in Nat
  <2>1. x <= y  BY <1>1
  <2>2. QED  BY ONLY <2>1, x \in Nat, y \in Nat, d \in Nat
<1>3. ASSUME NEW i \in 1..Len(credQ)  PROVE credQ[i] <= y + d
  <2>1. PICK z \in Nat : z = credQ[i]  BY ElementOfSeq
  <2>2. z <= x + d  BY <1>1, <2>1 DEF Unexpired, SortedUpTo
  <2>3. QED  BY <1>2, <2>1, <2>2
<1>4. SortedUpTo(credQ, y + d)  BY <1>3 DEF Unexpired, SortedUpTo
<1>5. QED  BY <1>1, <1>4 DEF Unexpired

\* In the Opera simulator no credit leaves, or hides, after it has expired.
LEMMA FreshStep ==
  ASSUME IInv, IInv', Next, Unexpired
  PROVE  Unexpired'
<1>1. /\ Serving /\ now \in Nat /\ now' \in Nat
      /\ credQ \in Seq(Nat) /\ dataQ \in Seq(DataPkts)
      /\ SortedUpTo(credQ, now + CredTimeout)
  BY DEF IInv, TypeOK, Unexpired
<1>2. ASSUME now' = now, UNCHANGED <<credQ, txNext, nextSchedTx>>  PROVE Unexpired'
  <2>1. now <= now'  BY <1>1, <1>2
  <2>2. QED  BY <1>1, <1>2, <2>1, FreshSame
<1>3. ASSUME NEW c \in Credits, ReceiveCredit(c)  PROVE Unexpired'
  <2>1. CASE CreditOverflow(c) \/ CreditTentative(c) \/ CreditShaped(c)
    BY <1>2, <2>1 DEF CreditOverflow, CreditTentative, CreditShaped, DropCredit, serviceVars
  <2>2. CASE CreditAdmitted(c)
    <3>0. PICK x \in Nat : x = now + CredTimeout  BY <1>1, CreditQueueAssumption
    <3>1. PICK cq : x = now + CredTimeout /\ cq = Append(credQ, x)  BY <3>0
    <3>2. cq \in Seq(Nat) /\ SortedUpTo(cq, x) /\ (credQ # <<>> => cq[1] = credQ[1])
      BY <1>1, <3>1, SortedAppend, AppendProperties
    <3>3. CASE IsEmpty
      <4>1. PICK st : BeginService(dataQ, cq, events, st) /\ now' = now
        BY <2>2, <3>1, <3>3 DEF CreditAdmitted
      <4>2. QED  BY <1>1, <3>1, <3>2, <4>1, FreshService
    <3>4. CASE ~ IsEmpty
      <4>1. credQ' = cq /\ now' = now /\ UNCHANGED <<txNext, nextSchedTx>>
        BY <2>2, <3>1, <3>4 DEF CreditAdmitted, serviceVars
      <4>2. txNext = "CRED" => credQ # <<>>
        BY <1>1 DEF Serving, Sending, Waiting, Resting
      <4>3. QED  BY <3>1, <3>2, <4>1, <4>2 DEF Unexpired
    <3>5. QED  BY <3>3, <3>4
  <2>3. QED  BY <1>3, <2>1, <2>2 DEF ReceiveCredit
<1>4. ASSUME NEW p \in DataPkts, ReceiveData(p)  PROVE Unexpired'
  <2>1. CASE DataOverflow(p) \/ DataUnscheduled(p)
    BY <1>2, <2>1 DEF DataOverflow, DataUnscheduled, DropData, serviceVars
  <2>2. CASE DataAdmitted(p) /\ IsEmpty
    <3>1. PICK dq, st : BeginService(dq, credQ, events, st) /\ now' = now
      BY <2>2 DEF DataAdmitted
    <3>2. QED  BY <1>1, <3>1, FreshService
  <2>3. CASE DataAdmitted(p) /\ ~ IsEmpty
    BY <1>2, <2>3 DEF DataAdmitted, serviceVars
  <2>4. QED  BY <1>4, <2>1, <2>2, <2>3 DEF ReceiveData
<1>5. ASSUME NEW e \in events, TxDone(e)  PROVE Unexpired'
  <2>1. PICK dq, cq, st :
          /\ cq = IF txNext = "CRED" THEN Tail(credQ) ELSE credQ
          /\ IF dq = <<>> /\ cq = <<>>
             THEN credQ' = cq /\ NothingToSend(events \ {e})
             ELSE BeginService(dq, cq, events \ {e}, st)
          /\ now' = now
    BY <1>5 DEF TxDone, CompleteService
  <2>2. cq \in Seq(Nat) /\ SortedUpTo(cq, now + CredTimeout)
    <3>1. CASE txNext = "CRED"
      <4>1. credQ # <<>>  BY <1>1, <3>1 DEF Serving, Sending, Waiting, Resting
      <4>2. /\ cq \in Seq(Nat) /\ Len(cq) = Len(credQ) - 1
            /\ \A i \in 1..Len(cq) : cq[i] = credQ[i + 1]
        BY <1>1, <2>1, <3>1, <4>1, HeadTailProperties
      <4>3. 1 \in 0..Len(credQ)
        <5>1. Len(credQ) \in Nat /\ Len(credQ) # 0  BY <1>1, <4>1, LenProperties, EmptySeq
        <5>2. QED  BY <5>1
      <4>4. QED  BY <1>1, <4>2, <4>3, SortedDrop
    <3>2. CASE txNext # "CRED"  BY <1>1, <2>1, <3>2
    <3>3. QED  BY <3>1, <3>2
  <2>3. CASE dq = <<>> /\ cq = <<>>
    BY <2>1, <2>2, <2>3 DEF NothingToSend, Unexpired
  <2>4. CASE ~ (dq = <<>> /\ cq = <<>>)
    BY <1>1, <2>1, <2>2, <2>4, FreshService
  <2>5. QED  BY <2>3, <2>4
<1>6. ASSUME NEW e \in events, CreditTimer(e)  PROVE Unexpired'
  <2>1. CASE timerPending /\ txNext = "NONE"
    <3>1. BeginService(dataQ, credQ, events \ {e}, creds) /\ now' = now
      BY <1>6, <2>1 DEF CreditTimer
    <3>2. QED  BY <1>1, <3>1, FreshService
  <2>2. CASE ~ (timerPending /\ txNext = "NONE")
    BY <1>2, <1>6, <2>2 DEF CreditTimer
  <2>3. QED  BY <2>1, <2>2
<1>7. CASE Tick
  <2>1. now <= now'  BY <1>1, <1>7 DEF Tick
  <2>2. UNCHANGED <<credQ, txNext, nextSchedTx>>  BY <1>7 DEF Tick, serviceVars
  <2>3. QED  BY <1>1, <2>1, <2>2, FreshSame
<1>8. CASE Quiet  BY <1>2, <1>8 DEF Quiet, vars, serviceVars
<1>9. QED  BY <1>3, <1>4, <1>5, <1>6, <1>7, <1>8 DEF Next

-----------------------------------------------------------------------------
(* The bytes in the buffer *)

Counted(p, types) == IF p.type \in types THEN p.size ELSE 0
CountedSeq(q, types) == [i \in 1..Len(q) |-> Counted(q[i], types)]

\* The bytes of some types in a queue are a number.
LEMMA BytesInTypes ==
  ASSUME NEW q \in Seq(DataPkts), NEW types
  PROVE  /\ CountedSeq(q, types) \in Seq(Nat) /\ Len(CountedSeq(q, types)) = Len(q)
         /\ BytesIn(q, types) = SumSeq(CountedSeq(q, types))
         /\ BytesIn(q, types) \in Nat /\ (q = <<>> => BytesIn(q, types) = 0)
<1>1. Len(q) \in Nat /\ \A i \in 1..Len(q) : q[i] \in DataPkts
  BY LenProperties, ElementOfSeq
<1>2. \A p \in DataPkts : Counted(p, types) \in Nat
  BY CreditQueueAssumption DEF DataPkts, Counted
<1>3. CountedSeq(q, types) \in [1..Len(q) -> Nat]  BY <1>1, <1>2 DEF CountedSeq
<1>4. CountedSeq(q, types) \in Seq(Nat)  BY <1>1, <1>3, SeqDef
<1>5. Len(CountedSeq(q, types)) = Len(q)  BY <1>1, <1>3, <1>4, LenProperties
<1>6. PICK s \in Seq(Nat) : s = CountedSeq(q, types)  BY <1>4
<1>7. s \in Seq(Int) /\ SumSeq(s) \in Nat  BY SumNat
<1>8. q = <<>> => s = <<>>
  <2>1. q = <<>> => Len(s) = 0  BY <1>5, <1>6, EmptySeq
  <2>2. QED  BY <2>1, EmptySeq
<1>9. s = <<>> => SumSeq(s) = 0  BY <1>7, SumTypes
<1>10. BytesIn(q, types) = SumSeq(s)  BY <1>6 DEF BytesIn, CountedSeq, Counted
<1>11. QED  BY <1>4, <1>5, <1>6, <1>7, <1>8, <1>9, <1>10

\* A packet put behind the others adds its bytes to those of its type.
LEMMA BytesInAppend ==
  ASSUME NEW q \in Seq(DataPkts), NEW p \in DataPkts, NEW types
  PROVE  BytesIn(Append(q, p), types) = BytesIn(q, types) + Counted(p, types)
<1>1. PICK l : l = Append(q, p)  OBVIOUS
<1>2. /\ l \in Seq(DataPkts) /\ Len(q) \in Nat /\ Len(l) = Len(q) + 1
      /\ \A i \in 1..Len(q) : l[i] = q[i]
      /\ l[Len(q) + 1] = p
  BY <1>1, AppendProperties, LenProperties
<1>3. PICK s \in Seq(Nat) : s = CountedSeq(q, types) /\ Len(s) = Len(q)  BY BytesInTypes
<1>4. PICK x \in Nat : x = Counted(p, types)
  BY CreditQueueAssumption DEF DataPkts, Counted
<1>5. PICK r \in Seq(Nat) : r = CountedSeq(l, types) /\ Len(r) = Len(q) + 1
  BY <1>2, BytesInTypes
<1>6. r = Append(s, x)
  <2>1. PICK a : a = Append(s, x)  OBVIOUS
  <2>2. /\ a \in Seq(Nat) /\ Len(a) = Len(s) + 1
        /\ \A i \in 1..Len(s) : a[i] = s[i]
        /\ a[Len(s) + 1] = x
    BY <2>1, AppendProperties
  <2>3. ASSUME NEW i \in 1..Len(r)  PROVE r[i] = a[i]
    <3>1. r[i] = Counted(l[i], types)  BY <1>2, <1>5, <2>3 DEF CountedSeq
    <3>2. CASE i = Len(q) + 1  BY <1>2, <1>3, <1>4, <2>2, <3>1, <3>2
    <3>3. CASE i \in 1..Len(q)
      <4>1. s[i] = Counted(q[i], types)  BY <1>3, <3>3 DEF CountedSeq
      <4>2. QED  BY <1>2, <1>3, <2>2, <3>1, <3>3, <4>1
    <3>4. QED  BY <1>2, <1>5, <3>2, <3>3
  <2>4. Len(r) = Len(a)  BY <1>3, <1>5, <2>2
  <2>5. r = a  BY <2>2, <2>3, <2>4, SeqEqual
  <2>6. QED  BY <2>1, <2>5
<1>7. s \in Seq(Int) /\ x \in Int  BY SumNat
<1>8. SumSeq(r) = SumSeq(s) + x  BY <1>6, <1>7, SumAppend
<1>9. BytesIn(l, types) = SumSeq(r) /\ BytesIn(q, types) = SumSeq(s)
  BY <1>2, <1>3, <1>5, BytesInTypes
<1>10. QED  BY <1>1, <1>4, <1>8, <1>9

\* The first packet has its bytes, the others the rest.
LEMMA BytesInHead ==
  ASSUME NEW q \in Seq(DataPkts), q # <<>>, NEW types
  PROVE  BytesIn(q, types) = Counted(Head(q), types) + BytesIn(Tail(q), types)
<1>1. PICK t : t = Tail(q)  OBVIOUS
<1>2. /\ t \in Seq(DataPkts) /\ Head(q) = q[1]
      /\ Len(q) \in Nat \ {0} /\ Len(t) = Len(q) - 1
      /\ \A i \in 1..Len(t) : t[i] = q[i + 1]
  BY <1>1, HeadTailProperties, LenProperties, EmptySeq
<1>3. PICK s \in Seq(Nat) : s = CountedSeq(q, types) /\ Len(s) = Len(q)  BY BytesInTypes
<1>4. PICK r \in Seq(Nat) : r = CountedSeq(t, types) /\ Len(r) = Len(t)
  BY <1>2, BytesInTypes
<1>5. s # <<>> /\ s \in Seq(Int)  BY <1>2, <1>3, EmptySeq, SumNat
<1>6. Tail(s) \in Seq(Int) /\ Head(s) \in Int /\ SumSeq(s) = Head(s) + SumSeq(Tail(s))
  BY <1>5, SumHead
<1>7. Head(s) = Counted(Head(q), types)
  <2>1. Head(s) = s[1] /\ 1 \in 1..Len(q)  BY <1>2, <1>5, HeadTailProperties
  <2>2. s[1] = Counted(q[1], types)  BY <1>3, <2>1 DEF CountedSeq
  <2>3. QED  BY <1>2, <2>1, <2>2
<1>8. r = Tail(s)
  <2>1. PICK a : a = Tail(s)  OBVIOUS
  <2>2. /\ a \in Seq(Int) /\ Len(a) = Len(s) - 1
        /\ \A i \in 1..Len(a) : a[i] = s[i + 1]
    BY <1>5, <2>1, HeadTailProperties
  <2>3. Len(r) = Len(a)  BY <1>2, <1>3, <1>4, <2>2
  <2>4. ASSUME NEW i \in 1..Len(r)  PROVE r[i] = a[i]
    <3>1. i + 1 \in 1..Len(q) /\ i \in 1..Len(t) /\ i \in 1..Len(a)
      BY <1>2, <1>4, <2>3
    <3>2. r[i] = Counted(t[i], types) /\ s[i + 1] = Counted(q[i + 1], types)
      BY <1>3, <1>4, <3>1 DEF CountedSeq
    <3>3. QED  BY <1>2, <2>2, <3>1, <3>2
  <2>5. r \in Seq(Int)  BY SumNat
  <2>6. r = a  BY <2>2, <2>3, <2>4, <2>5, SeqEqual
  <2>7. QED  BY <2>1, <2>6
<1>9. BytesIn(t, types) = SumSeq(r) /\ BytesIn(q, types) = SumSeq(s)
  BY <1>2, <1>3, <1>4, BytesInTypes
<1>10. QED  BY <1>1, <1>6, <1>7, <1>8, <1>9

\* What becomes of the data queue in one step.
Joins(p) ==
  /\ dataQ' = Append(dataQ, p) /\ queueSize' = queueSize + p.size
  /\ ~ NoRoom(p) /\ ~ IsAeolus(p) /\ (clos => p.type = "XPDATA")
Leaves ==
  /\ dataQ # <<>> /\ dataQ' = Tail(dataQ)
  /\ queueSize' = queueSize - Head(dataQ).size
QueueMoves ==
  UNCHANGED <<dataQ, queueSize>> \/ (\E p \in DataPkts : Joins(p)) \/ Leaves

\* Every step of the Opera simulator moves the queue like that ...
LEMMA NextQueue ==
  ASSUME IInv, Next, ~ clos
  PROVE  QueueMoves
<1>1. \A dq, cq, evs, st : BeginService(dq, cq, evs, st) => dataQ' = dq
  BY DEF BeginService
<1>2. ASSUME NEW c \in Credits, ReceiveCredit(c)  PROVE QueueMoves
  <2>1. UNCHANGED <<dataQ, queueSize>>
    BY <1>1, <1>2 DEF ReceiveCredit, CreditOverflow, CreditTentative, CreditShaped,
       DropCredit, CreditAdmitted
  <2>2. QED  BY <2>1 DEF QueueMoves
<1>3. ASSUME NEW p \in DataPkts, ReceiveData(p)  PROVE QueueMoves
  <2>1. CASE DataOverflow(p) \/ DataUnscheduled(p)
    BY <2>1 DEF DataOverflow, DataUnscheduled, DropData, QueueMoves
  <2>2. CASE DataAdmitted(p)
    <3>1. dataQ' = Append(dataQ, p)  BY <1>1, <2>2 DEF DataAdmitted
    <3>2. Joins(p)  BY <2>2, <3>1 DEF DataAdmitted, Joins
    <3>3. QED  BY <3>2 DEF QueueMoves
  <2>3. QED  BY <1>3, <2>1, <2>2 DEF ReceiveData
<1>4. ASSUME NEW e \in events, TxDone(e)  PROVE QueueMoves
  <2>1. /\ queueSize' = IF txNext = "CRED" THEN queueSize ELSE queueSize - Head(dataQ).size
        /\ dataQ' = IF txNext = "CRED" THEN dataQ ELSE Tail(dataQ)
    BY <1>1, <1>4 DEF TxDone, CompleteService
  <2>2. txNext # "CRED" => dataQ # <<>>
    <3>1. now = nextSchedTx /\ now \in Nat  BY <1>4 DEF TxDone, IInv, TypeOK
    <3>2. nextSchedTx # NoPendingTx  BY <3>1 DEF NoPendingTx
    <3>3. QED  BY <3>2 DEF IInv, Serving, Sending, Waiting, Resting
  <2>3. QED  BY <2>1, <2>2 DEF QueueMoves, Leaves
<1>5. ASSUME NEW e \in events, CreditTimer(e)  PROVE QueueMoves
  <2>1. UNCHANGED <<dataQ, queueSize>>  BY <1>1, <1>5 DEF CreditTimer
  <2>2. QED  BY <2>1 DEF QueueMoves
<1>6. CASE Tick \/ Quiet  BY <1>6 DEF Tick, Quiet, vars, QueueMoves
<1>7. QED  BY <1>2, <1>3, <1>4, <1>5, <1>6 DEF Next

\* ... and so does every step of the Clos simulator.
LEMMA ClosNextQueue ==
  ASSUME IInv, ClosNext, clos
  PROVE  QueueMoves
<1>1. \A dq, cq, evs : ClosBeginService(dq, cq, evs) => dataQ' = dq
  BY DEF ClosBeginService
<1>2. \A dq, cq : StartIfIdle(dq, cq) => dataQ' = dq
  BY <1>1 DEF StartIfIdle
<1>3. CASE ClosReceiveCredit
  <2>1. UNCHANGED <<dataQ, queueSize>>
    BY <1>2, <1>3 DEF ClosReceiveCredit, CreditOverflow, DropCredit
  <2>2. QED  BY <2>1 DEF QueueMoves
<1>4. ASSUME NEW p \in ClosData, ClosReceiveData(p)  PROVE QueueMoves
  <2>1. p \in DataPkts /\ p.type = "XPDATA" /\ ~ IsAeolus(p)
    BY DEF ClosData, IsAeolus
  <2>2. CASE NoRoom(p) /\ DropData  BY <2>2 DEF DropData, QueueMoves
  <2>3. CASE ~ (NoRoom(p) /\ DropData)
    <3>1. /\ ~ NoRoom(p) /\ queueSize' = queueSize + p.size
          /\ StartIfIdle(Append(dataQ, p), credQ)
      BY <1>4, <2>3 DEF ClosReceiveData
    <3>2. Joins(p)  BY <1>2, <2>1, <3>1 DEF Joins
    <3>3. QED  BY <2>1, <3>2 DEF QueueMoves
  <2>4. QED  BY <2>2, <2>3
<1>5. ASSUME NEW e \in events, ClosTxDone(e)  PROVE QueueMoves
  <2>1. /\ queueSize' = IF txNext = "CRED" THEN queueSize ELSE queueSize - Head(dataQ).size
        /\ dataQ' = IF txNext = "CRED" THEN dataQ ELSE Tail(dataQ)
    BY <1>1, <1>5 DEF ClosTxDone, ClosCompleteService
  <2>2. txNext # "CRED" => dataQ # <<>>
    <3>1. now = nextSchedTx /\ now \in Nat  BY <1>5 DEF ClosTxDone, IInv, TypeOK
    <3>2. nextSchedTx # NoPendingTx  BY <3>1 DEF NoPendingTx
    <3>3. QED  BY <3>2 DEF IInv, Serving, Sending, Waiting, Resting
  <2>3. QED  BY <2>1, <2>2 DEF QueueMoves, Leaves
<1>6. ASSUME NEW e \in events, ClosCreditTimer(e)  PROVE QueueMoves
  <2>1. UNCHANGED <<dataQ, queueSize>>  BY <1>1, <1>6 DEF ClosCreditTimer
  <2>2. QED  BY <2>1 DEF QueueMoves
<1>7. CASE Tick \/ Quiet  BY <1>7 DEF Tick, Quiet, vars, QueueMoves
<1>8. QED  BY <1>3, <1>4, <1>5, <1>6, <1>7 DEF ClosNext

\* The buffer is counted right and never overrun.
LEMMA BufferStep ==
  ASSUME IInv, QueueMoves, Buffer, clos' = clos
  PROVE  Buffer'
<1> DEFINE U == {"UNSCHED"}
           O == {"XPDATA", "XPCTL"}
           A == {"XPDATA", "UNSCHED", "XPCTL"}
<1>1. PICK u \in Nat, o \in Nat, a \in Nat :
        u = BytesIn(dataQ, U) /\ o = BytesIn(dataQ, O) /\ a = BytesIn(dataQ, A)
  BY BytesInTypes DEF IInv, TypeOK
<1>2. /\ queueSize = u + o /\ queueSize = a /\ a <= MaxSize /\ u <= MaxSizeUnsched
      /\ clos => u = 0
  BY <1>1 DEF Buffer, Bytes
<1>3. PICK M \in Nat, N \in Nat : M = MaxSize /\ N = MaxSizeUnsched
  BY CreditQueueAssumption
<1>4. dataQ \in Seq(DataPkts)  BY DEF IInv, TypeOK
<1>5. \A p \in DataPkts : /\ p.size \in Nat
                          /\ Counted(p, A) = p.size
                          /\ \/ p.type = "UNSCHED" /\ Counted(p, U) = p.size /\ Counted(p, O) = 0
                             \/ p.type # "UNSCHED" /\ Counted(p, U) = 0 /\ Counted(p, O) = p.size
  BY CreditQueueAssumption DEF DataPkts, Counted
<1> HIDE DEF U, O, A
<1>6. ASSUME NEW u2 \in Nat, NEW o2 \in Nat, NEW a2 \in Nat,
             u2 = BytesIn(dataQ', U), o2 = BytesIn(dataQ', O), a2 = BytesIn(dataQ', A),
             queueSize' = u2 + o2, queueSize' = a2, a2 <= M, u2 <= N, clos => u2 = 0
      PROVE  Buffer'
  BY <1>3, <1>6 DEF Buffer, Bytes, U, O, A
<1>7. CASE UNCHANGED <<dataQ, queueSize>>
  BY <1>1, <1>2, <1>3, <1>6, <1>7
<1>8. ASSUME NEW p \in DataPkts, Joins(p)  PROVE Buffer'
  <2>1. PICK x \in Nat : x = p.size  BY <1>5
  <2>2. dataQ' = Append(dataQ, p) /\ queueSize' = a + x /\ a + x <= M
    BY <1>2, <1>3, <1>8, <2>1 DEF Joins, NoRoom
  <2>3. p.type = "UNSCHED" => ~ clos /\ a + x <= N
    BY <1>2, <1>3, <1>8, <2>1 DEF Joins, IsAeolus
  <2>4. /\ BytesIn(dataQ', U) = u + Counted(p, U)
        /\ BytesIn(dataQ', O) = o + Counted(p, O)
        /\ BytesIn(dataQ', A) = a + Counted(p, A)
    BY <1>1, <1>4, <2>2, BytesInAppend
  <2>5. CASE p.type = "UNSCHED"
    <3>1. /\ BytesIn(dataQ', U) = u + x /\ BytesIn(dataQ', O) = o + 0
          /\ BytesIn(dataQ', A) = a + x
      BY <1>5, <2>1, <2>4, <2>5
    <3>2. /\ u + x \in Nat /\ a + x \in Nat /\ o + 0 = o /\ a + x = (u + x) + o
          /\ u + x <= N /\ ~ clos
      BY <1>2, <2>3, <2>5
    <3>3. QED  BY <1>6, <2>2, <3>1, <3>2
  <2>6. CASE p.type # "UNSCHED"
    <3>1. /\ BytesIn(dataQ', U) = u + 0 /\ BytesIn(dataQ', O) = o + x
          /\ BytesIn(dataQ', A) = a + x
      BY <1>5, <2>1, <2>4, <2>6
    <3>2. /\ o + x \in Nat /\ a + x \in Nat /\ u + 0 = u /\ a + x = u + (o + x)
          /\ u <= N
      BY <1>2, <1>3
    <3>3. QED  BY <1>2, <1>6, <2>2, <3>1, <3>2
  <2>7. QED  BY <2>5, <2>6
<1>9. CASE Leaves
  <2>1. dataQ # <<>> /\ dataQ' = Tail(dataQ) /\ queueSize' = queueSize - Head(dataQ).size
    BY <1>9 DEF Leaves
  <2>2. Head(dataQ) \in DataPkts /\ Tail(dataQ) \in Seq(DataPkts)
    BY <1>4, <2>1, HeadTailProperties
  <2>3. PICK p \in DataPkts : p = Head(dataQ)  BY <2>2
  <2>4. PICK x \in Nat : x = p.size  BY <1>5
  <2>5. PICK u2 \in Nat, o2 \in Nat, a2 \in Nat :
          /\ u2 = BytesIn(dataQ', U) /\ o2 = BytesIn(dataQ', O) /\ a2 = BytesIn(dataQ', A)
    BY <2>1, <2>2, BytesInTypes
  <2>6. u = Counted(p, U) + u2 /\ o = Counted(p, O) + o2 /\ a = Counted(p, A) + a2
    BY <1>1, <1>4, <2>1, <2>3, <2>5, BytesInHead
  <2>7. queueSize' = a - x /\ a = x + a2  BY <1>2, <1>5, <2>1, <2>3, <2>4, <2>6
  <2>8. \/ u = x + u2 /\ o = 0 + o2
        \/ u = 0 + u2 /\ o = x + o2
    BY <1>5, <2>4, <2>6
  <2>9. /\ queueSize' = a2 /\ a2 = u2 + o2 /\ a2 <= M /\ u2 <= N /\ u2 <= u
    BY <1>2, <1>3, <2>7, <2>8
  <2>10. clos => u2 = 0  BY <1>2, <2>9
  <2>11. QED  BY <1>6, <2>5, <2>9, <2>10
<1>10. QED  BY <1>7, <1>8, <1>9 DEF QueueMoves

-----------------------------------------------------------------------------
(* Both queues *)

\* The empty queue of either simulator satisfies the invariant.
LEMMA InitBoth == MCInit => BothInv
<1> SUFFICES ASSUME MCInit  PROVE BothInv
  OBVIOUS
<1>1. Init /\ clos \in BOOLEAN /\ starts = <<>> /\ headSince = -1
  BY DEF MCInit, ClosInit
<1>2. IInv  BY <1>1, InitIInv
<1>3. dataQ = <<>> /\ credQ = <<>> /\ events = {} /\ txNext = "NONE" /\ queueSize = 0
      /\ now = 0 /\ timerPending = FALSE
  BY <1>1 DEF Init
<1>4. starts \in Seq(Nat) /\ Len(starts) = 0 /\ Len(credQ) = 0
  BY <1>1, <1>3, EmptySeq
<1>5. BurstPace /\ Window
  BY <1>4, CreditQueueAssumption DEF BurstPace, Window
<1>6. TimerDue /\ ClosTimer  BY <1>3 DEF TimerDue, ClosTimer, TimerWaits
<1>7. Fresh
  <2>1. \A i : i \notin 1..Len(credQ)  BY <1>4
  <2>2. QED  BY <1>3, <2>1 DEF Fresh, Unexpired, SortedUpTo
<1>8. HeadWaits  BY <1>1, <1>3 DEF HeadWaits
<1>9. Buffer
  <2>1. dataQ \in Seq(DataPkts)  BY <1>3, EmptySeq
  <2>2. \A types : BytesIn(dataQ, types) = 0  BY <1>3, <2>1, BytesInTypes
  <2>3. QED  BY <1>3, <2>2, CreditQueueAssumption DEF Buffer, Bytes
<1>10. QED  BY <1>1, <1>2, <1>5, <1>6, <1>7, <1>8, <1>9 DEF BothInv, Bounds

\* Every step of either simulator keeps the invariant.
LEMMA NextBoth == BothInv /\ [MCNext]_mcVars => BothInv'
<1> SUFFICES ASSUME BothInv, [MCNext]_mcVars  PROVE BothInv'
  OBVIOUS
<1>1. /\ IInv /\ clos \in BOOLEAN /\ BurstPace /\ Window /\ TimerDue /\ ClosTimer
      /\ Fresh /\ HeadWaits /\ Buffer
  BY DEF BothInv, Bounds
<1>2. CASE MCNext
  <2>1. History /\ clos' = clos /\ ((~ clos /\ Next) \/ (clos /\ ClosNext))
    BY <1>2 DEF MCNext
  <2>2. IInv' /\ Moves /\ QueueMoves /\ ClosTimer' /\ Fresh'
    <3>1. CASE ~ clos /\ Next
      <4>1. IInv'  BY <1>1, <3>1, NextIInv
      <4>2. Moves /\ QueueMoves  BY <1>1, <3>1, NextMoves, NextQueue
      <4>3. Unexpired'  BY <1>1, <3>1, <4>1, FreshStep DEF Fresh
      <4>4. QED  BY <2>1, <3>1, <4>1, <4>2, <4>3 DEF ClosTimer, Fresh
    <3>2. CASE clos /\ ClosNext
      <4>1. IInv' /\ Moves /\ TimerWaits'  BY <1>1, <3>2, ClosNextStep
      <4>2. QueueMoves  BY <1>1, <3>2, ClosNextQueue
      <4>3. QED  BY <2>1, <3>2, <4>1, <4>2 DEF ClosTimer, Fresh
    <3>3. QED  BY <2>1, <3>1, <3>2
  <2>3. Window' /\ BurstPace'  BY <1>1, <2>1, <2>2, WindowStep
  <2>4. TimerDue'  BY <1>1, <2>2, TimerDueStep
  <2>5. HeadWaits'  BY <1>1, <2>1, <2>2, HeadWaitsStep
  <2>6. Buffer'  BY <1>1, <2>1, <2>2, BufferStep
  <2>7. QED  BY <1>1, <2>1, <2>2, <2>3, <2>4, <2>5, <2>6 DEF BothInv, Bounds
<1>3. CASE UNCHANGED mcVars
  <2>1. UNCHANGED vars /\ UNCHANGED <<clos, starts, headSince>>  BY <1>3 DEF mcVars
  <2>2. IInv'  BY <1>1, <2>1, NextIInv
  <2>3. BurstPace' /\ Window' /\ TimerDue' /\ ClosTimer'
    BY <1>1, <2>1 DEF vars, clockVars, serviceVars, BurstPace, Window, TimerDue, ClosTimer,
       TimerWaits
  <2>4. Fresh' /\ HeadWaits' /\ Buffer'
    BY <1>1, <2>1 DEF vars, clockVars, serviceVars, Fresh, Unexpired, HeadWaits, Buffer,
       Bytes
  <2>5. QED  BY <1>1, <2>1, <2>2, <2>3, <2>4 DEF BothInv, Bounds
<1>4. QED  BY <1>2, <1>3

\* The invariant of both queues holds in every reachable state.
THEOREM BothInvariance == MCSpec => []BothInv
<1>1. QED  BY InitBoth, NextBoth, PTL DEF MCSpec

\* The invariant of the Opera simulator's queue holds for the Clos simulator's
\* as well, and with it what follows from it above: one event
\* outstanding, the assertions, no credit and no packet lost, the pace of the
\* credits and the bounded wait for a token.
THEOREM BothQueuesSound ==
  MCSpec => [](/\ TypeOK /\ OneWakeUp /\ EventMeaning /\ Conservation
               /\ CreditPace /\ IdleOnlyForToken)
<1>1. BothInv => IInv  BY DEF BothInv
<1>2. IInv => /\ TypeOK /\ OneWakeUp /\ EventMeaning /\ Conservation
              /\ CreditPace /\ IdleOnlyForToken
  BY SoundWhenInvariant
<1>3. QED  BY <1>1, <1>2, BothInvariance, PTL

\* The queue keeps its bounds: no burst of credits is too long, no credit is
\* sent to expire on the way, data is never starved, and the bytes queued are
\* counted and fit the buffer.
THEOREM BoundsKept == MCSpec => []WithinBounds
<1>1. BothInv => WithinBounds
  <2> SUFFICES ASSUME BothInv  PROVE WithinBounds
    OBVIOUS
  <2>1. IInv /\ BurstPace /\ Fresh /\ HeadWaits /\ Buffer  BY DEF BothInv, Bounds
  <2>2. ~ clos => CreditsFresh  BY <2>1 DEF Fresh, Unexpired, SortedUpTo, CreditsFresh
  <2>3. DataNotStarved  BY <2>1, HeadNotStarved
  <2>4. BufferBytes  BY <2>1 DEF Buffer, BufferBytes
  <2>5. QED  BY <2>1, <2>2, <2>3, <2>4 DEF WithinBounds
<1>2. QED  BY <1>1, BothInvariance, PTL

-----------------------------------------------------------------------------
(* The host queue: the clock of the slices *)

\* The lengths are numbers.
LEMMA ClockTypes ==
  /\ SliceTime[0] \in Nat /\ SliceTime[1] \in Nat /\ SliceTime[2] \in Nat
  /\ SuperTime \in Nat \ {0} /\ NSuperSlices \in Nat \ {0}
  /\ CycleTime \in Nat /\ CycleTime >= SuperTime /\ CycleTime = NSuperSlices * SuperTime
<1>1. /\ SliceTime[0] \in Nat /\ SliceTime[1] \in Nat /\ SliceTime[2] \in Nat
      /\ NSuperSlices \in Nat \ {0}
  BY SlicesAssumption
<1>2. SuperTime \in Nat \ {0}  BY <1>1, SlicesAssumption DEF SuperTime
<1>3. CycleTime = NSuperSlices * SuperTime  BY DEF CycleTime
<1>4. NSuperSlices * SuperTime \in Nat /\ NSuperSlices * SuperTime >= SuperTime
  <2>1. (NSuperSlices - 1) * SuperTime \in Nat  BY <1>1, <1>2
  <2>2. NSuperSlices * SuperTime = (NSuperSlices - 1) * SuperTime + SuperTime
    BY <1>1, <1>2
  <2>3. QED  BY <1>2, <2>1, <2>2
<1>5. QED  BY <1>1, <1>2, <1>3, <1>4

\* The slice of a time is found from the superslices gone by since the start
\* and the time since the present one began.
LEMMA SliceOfTime ==
  ASSUME NEW t \in Nat
  PROVE  /\ t \div SuperTime \in Nat /\ t % SuperTime \in 0..(SuperTime - 1)
         /\ t = (t \div SuperTime) * SuperTime + (t % SuperTime)
         /\ TimeToSlice(t)
              = ((t \div SuperTime) % NSuperSlices) * 3 + Phase(t % SuperTime)
<1>1. PICK m \in Nat, r \in 0..(SuperTime - 1) :
        m = t \div SuperTime /\ r = t % SuperTime /\ t = m * SuperTime + r
  BY ClockTypes, Division, ZenonT(30)
<1>2. PICK q \in Nat, k \in 0..(NSuperSlices - 1) :
        q = m \div NSuperSlices /\ k = m % NSuperSlices /\ m = q * NSuperSlices + k
  BY ClockTypes, Division, ZenonT(30)
<1>3. PICK x : x = k * SuperTime + r  OBVIOUS
<1>4. x \in 0..(CycleTime - 1)
  <2>1. k * SuperTime \in Nat  BY ClockTypes
  <2>2. k * SuperTime + SuperTime <= NSuperSlices * SuperTime
    BY ClockTypes, MultiplesApart
  <2>3. QED  BY <1>3, <2>1, <2>2, ClockTypes
<1>5. t = q * CycleTime + x
  <2>1. m * SuperTime = (q * NSuperSlices) * SuperTime + k * SuperTime
    BY <1>2, ClockTypes
  <2>2. (q * NSuperSlices) * SuperTime = q * CycleTime
    BY ClockTypes
  <2>3. /\ q * CycleTime \in Int /\ k * SuperTime \in Int /\ r \in Int
        /\ (q * NSuperSlices) * SuperTime \in Int /\ m * SuperTime \in Int
    BY ClockTypes
  <2>4. t = m * SuperTime + r  BY <1>1
  <2>5. QED  BY ONLY <1>3, <2>1, <2>2, <2>3, <2>4
<1>6. t \div CycleTime = q
  <2>1. CycleTime \in Nat \ {0}  BY ClockTypes
  <2>2. QED  BY <1>4, <1>5, <2>1, DivisionUnique
<1>7. t - k * SuperTime - q * CycleTime = r
  <2>1. q * CycleTime \in Int /\ k * SuperTime \in Int /\ r \in Int  BY ClockTypes
  <2>2. QED  BY ONLY <1>3, <1>5, <2>1
<1>8. TimeToSlice(t) = k * 3 + Phase(r)
  <2>1. TimeToSuperslice(t) = k  BY <1>1, <1>2 DEF TimeToSuperslice
  <2>2. QED  BY <1>6, <1>7, <2>1 DEF TimeToSlice
<1>9. QED  BY <1>1, <1>2, <1>8

\* A superslice has three phases, in order, each as long as SliceTime says.
LEMMA Phases ==
  ASSUME NEW r \in 0..(SuperTime - 1), NEW x \in r..(SuperTime - 1)
  PROVE  /\ Phase(r) \in 0..2 /\ Phase(r) <= Phase(x)
         /\ Phase(r) = Phase(x) => x - r < SliceTime[Phase(r)]
  BY ClockTypes DEF Phase, SuperTime

\* Every time is of some slice.
LEMMA SliceTypes ==
  ASSUME NEW t \in Nat
  PROVE  TimeToSlice(t) \in 0..(NSlices - 1)
<1>1. PICK k \in 0..(NSuperSlices - 1), p \in 0..2 : TimeToSlice(t) = k * 3 + p
  <2>1. t % SuperTime \in 0..(SuperTime - 1) /\ t \div SuperTime \in Nat  BY SliceOfTime
  <2>2. Phase(t % SuperTime) \in 0..2  BY <2>1, ClockTypes, Phases
  <2>3. (t \div SuperTime) % NSuperSlices \in 0..(NSuperSlices - 1)
    BY <2>1, ClockTypes, Division
  <2>4. QED  BY <2>2, <2>3, SliceOfTime
<1>2. QED  BY <1>1, ClockTypes DEF NSlices

\* Two times of the same slice, no further apart than two selections can be,
\* are of the same turn of that slice: so is every time between them.
LEMMA SameTurn ==
  ASSUME NEW t \in Nat, NEW u \in Nat, NEW v \in Nat, t <= u, u <= v,
         NEW wait \in DataSizes \cup {CredSize, Spacing}, v <= t + wait,
         TimeToSlice(t) = TimeToSlice(v)
  PROVE  TimeToSlice(u) = TimeToSlice(t)
<1> DEFINE M(x) == x \div SuperTime
           R(x) == x % SuperTime
<1>1. ASSUME NEW x \in Nat
      PROVE  /\ M(x) \in Nat /\ R(x) \in 0..(SuperTime - 1)
             /\ x = M(x) * SuperTime + R(x)
             /\ TimeToSlice(x) = (M(x) % NSuperSlices) * 3 + Phase(R(x))
             /\ Phase(R(x)) \in 0..2 /\ M(x) % NSuperSlices \in Nat
             /\ M(x) * SuperTime \in Nat
  <2>1. M(x) \in Nat /\ R(x) \in 0..(SuperTime - 1)  BY SliceOfTime
  <2>2. Phase(R(x)) \in 0..2  BY <2>1, ClockTypes, Phases
  <2>3. M(x) % NSuperSlices \in Nat  BY <2>1, ClockTypes, Division
  <2>4. M(x) * SuperTime \in Nat  BY <2>1, ClockTypes
  <2> HIDE DEF M, R
  <2>5. QED  BY <2>1, <2>2, <2>3, <2>4, SliceOfTime DEF M, R
<1> HIDE DEF M, R
<1>2. PICK mt \in Nat, mu \in Nat, mv \in Nat, rt \in 0..(SuperTime - 1),
           ru \in 0..(SuperTime - 1), rv \in 0..(SuperTime - 1) :
        /\ mt = M(t) /\ mu = M(u) /\ mv = M(v)
        /\ rt = R(t) /\ ru = R(u) /\ rv = R(v)
  BY <1>1
<1>3. /\ t = mt * SuperTime + rt /\ u = mu * SuperTime + ru /\ v = mv * SuperTime + rv
      /\ mt * SuperTime \in Nat /\ mu * SuperTime \in Nat /\ mv * SuperTime \in Nat
  BY <1>1, <1>2
<1>4. SuperTime \in Nat /\ rt < SuperTime /\ ru < SuperTime /\ rv < SuperTime
      /\ rt \in Nat /\ ru \in Nat /\ rv \in Nat
  BY <1>2, ClockTypes
<1>5. mt <= mu /\ mu <= mv
  <2>1. mt <= mu
    <3>1. SUFFICES ASSUME mu < mt  PROVE FALSE  OBVIOUS
    <3>2. mu * SuperTime + SuperTime <= mt * SuperTime
      BY <3>1, ClockTypes, MultiplesApart
    <3>3. QED  BY ONLY <1>3, <1>4, <3>2, t <= u
  <2>2. mu <= mv
    <3>1. SUFFICES ASSUME mv < mu  PROVE FALSE  OBVIOUS
    <3>2. mv * SuperTime + SuperTime <= mu * SuperTime
      BY <3>1, ClockTypes, MultiplesApart
    <3>3. QED  BY ONLY <1>3, <1>4, <3>2, u <= v
  <2>3. QED  BY <2>1, <2>2
<1>6. Phase(rt) = Phase(rv) /\ mt % NSuperSlices = mv % NSuperSlices
  <2>1. PICK a \in Nat, b \in Nat, p \in 0..2, q \in 0..2 :
          /\ a = mt % NSuperSlices /\ p = Phase(rt)
          /\ b = mv % NSuperSlices /\ q = Phase(rv)
    BY <1>1, <1>2
  <2>2. a * 3 + p = b * 3 + q  BY <1>1, <1>2, <2>1
  <2>3. a = b /\ p = q  BY ONLY <2>2, a \in Nat, b \in Nat, p \in 0..2, q \in 0..2
  <2>4. QED  BY <2>1, <2>3
<1>7. CASE mt = mv
  <2>1. mu = mt  BY <1>5, <1>7
  <2>2. rt <= ru /\ ru <= rv
    <3>1. t = mt * SuperTime + rt /\ u = mt * SuperTime + ru /\ v = mt * SuperTime + rv
      BY <1>3, <1>7, <2>1
    <3>2. QED  BY ONLY <1>3, <1>4, <3>1, t <= u, u <= v
  <2>3. Phase(rt) <= Phase(ru) /\ Phase(ru) <= Phase(rv)
    <3>1. ru \in rt..(SuperTime - 1) /\ rv \in ru..(SuperTime - 1)
      BY <1>2, <1>4, <2>2, ClockTypes
    <3>2. QED  BY <3>1, Phases
  <2>4. Phase(rt) \in 0..2 /\ Phase(ru) \in 0..2 /\ Phase(rv) \in 0..2
    BY ClockTypes, Phases
  <2>5. Phase(ru) = Phase(rt)
    <3>1. PICK a \in 0..2, b \in 0..2, c \in 0..2 :
            a = Phase(rt) /\ b = Phase(ru) /\ c = Phase(rv)
      BY <2>4
    <3>2. a <= b /\ b <= c /\ a = c  BY <1>6, <2>3, <3>1
    <3>3. a = b  BY ONLY <3>2, a \in 0..2, b \in 0..2, c \in 0..2
    <3>4. QED  BY <3>1, <3>3
  <2>6. TimeToSlice(u) = (mu % NSuperSlices) * 3 + Phase(ru)  BY <1>1, <1>2
  <2>7. TimeToSlice(t) = (mt % NSuperSlices) * 3 + Phase(rt)  BY <1>1, <1>2
  <2>8. QED  BY <2>1, <2>5, <2>6, <2>7
<1>8. CASE mt # mv
  <2>1. mt + NSuperSlices <= mv
    <3>1. PICK a \in Nat, b \in Nat, k \in Nat :
            mt = a * NSuperSlices + k /\ mv = b * NSuperSlices + k
      <4>1. /\ mt = (mt \div NSuperSlices) * NSuperSlices + (mt % NSuperSlices)
            /\ mv = (mv \div NSuperSlices) * NSuperSlices + (mv % NSuperSlices)
            /\ mt \div NSuperSlices \in Nat /\ mv \div NSuperSlices \in Nat
            /\ mt % NSuperSlices \in 0..(NSuperSlices - 1)
        BY ClockTypes, Division
      <4>2. mt % NSuperSlices \in Nat  BY <4>1, ClockTypes
      <4>3. QED  BY <1>6, <4>1, <4>2
    <3>2. a < b
      <4>1. SUFFICES ASSUME b <= a  PROVE FALSE  OBVIOUS
      <4>2. b * NSuperSlices <= a * NSuperSlices
        <5>1. CASE b < a
          <6>1. b * NSuperSlices + NSuperSlices <= a * NSuperSlices
            BY <5>1, ClockTypes, MultiplesApart
          <6>2. QED  BY <6>1, ClockTypes
        <5>2. CASE a = b
          <6>1. a * NSuperSlices \in Int  BY ClockTypes
          <6>2. QED  BY <5>2, <6>1
        <5>3. QED  BY <4>1, <5>1, <5>2
      <4>3. a * NSuperSlices \in Int /\ b * NSuperSlices \in Int  BY ClockTypes
      <4>4. QED  BY ONLY <1>5, <1>8, <3>1, <4>2, <4>3, k \in Nat, mt \in Nat, mu \in Nat,
                         mv \in Nat
    <3>3. a * NSuperSlices + NSuperSlices <= b * NSuperSlices
      BY <3>2, ClockTypes, MultiplesApart
    <3>4. a * NSuperSlices \in Int /\ b * NSuperSlices \in Int /\ NSuperSlices \in Int
      BY ClockTypes
    <3>5. QED  BY ONLY <3>1, <3>3, <3>4, k \in Nat
  <2>2. mt * SuperTime + CycleTime <= mv * SuperTime
    <3>1. PICK d \in Nat : mv = mt + NSuperSlices + d
      <4>1. NSuperSlices \in Nat  BY ClockTypes
      <4>2. mv - mt - NSuperSlices \in Nat  BY <2>1, <4>1
      <4>3. mv = mt + NSuperSlices + (mv - mt - NSuperSlices)  BY <4>1
      <4>4. QED  BY <4>2, <4>3
    <3>2. mv * SuperTime = mt * SuperTime + NSuperSlices * SuperTime + d * SuperTime
      BY <3>1, ClockTypes
    <3>3. d * SuperTime \in Nat  BY ClockTypes
    <3>4. CycleTime \in Nat /\ CycleTime = NSuperSlices * SuperTime  BY ClockTypes
    <3>5. QED  BY ONLY <1>3, <3>2, <3>3, <3>4
  <2>3. PICK p \in 0..2 : p = Phase(rt) /\ p = Phase(rv)  BY <1>1, <1>2, <1>6
  <2>4. SliceTime[p] \in Nat  BY ClockTypes
  <2>5. rt - rv < SliceTime[p]
    <3>1. CASE rv <= rt
      <4>1. rt \in rv..(SuperTime - 1)  BY <1>2, <3>1, ClockTypes
      <4>2. QED  BY <2>3, <4>1, Phases
    <3>2. CASE rt < rv
      <4>1. rv \in rt..(SuperTime - 1)  BY <1>2, <3>2, ClockTypes
      <4>2. rv - rt < SliceTime[p]  BY <2>3, <4>1, Phases
      <4>3. QED  BY ONLY <1>4, <2>4, <3>2, <4>2
    <3>3. QED  BY <1>4, <3>1, <3>2
  <2>6. CycleTime \in Nat  BY ClockTypes
  <2>7. v - t >= CycleTime + rv - rt  BY ONLY <1>3, <1>4, <2>2, <2>6
  <2>8. wait \in Nat /\ wait + SliceTime[p] <= CycleTime
    BY NICAssumption, CreditQueueAssumption
  <2>9. FALSE
    BY ONLY <1>4, <2>4, <2>5, <2>6, <2>7, <2>8, v <= t + wait, t \in Nat, v \in Nat
  <2>10. QED  BY <2>9
<1>9. QED  BY <1>7, <1>8

-----------------------------------------------------------------------------
(* The host queue: the inductive invariant *)

SliceNumbers == -1..(NSlices - 1)
CreditRec == [seq : Nat, dst : Dsts, expiry : Nat, slice : SliceNumbers, path : Nat, hops : Nat]
DataRec == [type : {"XPDATA", "UNSCHED", "XPCTL"}, size : DataSizes, dst : Dsts,
            ts : SliceNumbers]
Waits == DataSizes \cup {CredSize, Spacing}

\* The credits of q are numbered below n, in the order of their arrival.
Numbered(q, n) ==
  /\ q \in Seq(CreditRec)
  /\ \A i \in 1..Len(q) : q[i].seq \in 1..(n - 1)
  /\ \A i, j \in 1..Len(q) : i < j => q[i].seq < q[j].seq

\* The rank of a credit, if it has one, is the length of its path.
WellRanked(c) ==
  c.slice # NoSlice =>
    c.path \in Paths(c.dst, c.slice) /\ c.hops = HopCount(c.dst, c.slice, c.path)

\* Of the slice ls of the last selection, or arrived in another one.
Arrival(c) == c.expiry - CredTimeout
RankedFor(c, ls) == IF c.slice = NoSlice THEN TimeToSlice(Arrival(c)) # ls ELSE c.slice = ls

\* A queue of credits cq none of which is in service, and their order.
Selectable(cq, ord, ls) ==
  /\ ord = KeysOf(ToSet(cq))
  /\ \A c \in ToSet(cq) : WellRanked(c) /\ RankedFor(c, ls)

Clocks ==
  /\ now \in Nat /\ lastCredT \in Nat /\ lastCredT <= now
  /\ nextSeq \in Nat \ {0} /\ lastSlice \in SliceNumbers

Lists ==
  /\ dataQ \in Seq(DataRec) /\ queueSize = BytesOf(dataQ)
  /\ Numbered(credQ, nextSeq)

\* The credit in service is queued and has a rank; no other credit is in
\* service.
Ranking ==
  /\ order = KeysOf({c \in ToSet(credQ) : c.seq # inService})
  /\ \A c \in ToSet(credQ) :
       /\ WellRanked(c)
       /\ IF c.seq = inService THEN c.slice # NoSlice ELSE RankedFor(c, lastSlice)
  /\ IF txNext = "CRED" THEN \E c \in ToSet(credQ) : c.seq = inService ELSE inService = 0

Routed == route \in [slice : SliceNumbers, dst : Dsts, path : Nat, hops : Nat] /\ RouteExists

\* While anything is queued the last selection, at t, is no longer ago than a
\* transmission or a token takes, and credits without a rank came after it.
Recent ==
  IsEmpty \/ \E t \in Nat, wait \in Waits :
    /\ t <= now /\ lastSlice = TimeToSlice(t)
    /\ \A e \in events : e.at <= t + wait
    /\ \A c \in ToSet(credQ) : c.slice = NoSlice => t <= Arrival(c) /\ Arrival(c) <= now

NICIInv ==
  Clocks /\ Lists /\ ServiceTypes /\ Serving /\ Ranking /\ Routed /\ Recent

-----------------------------------------------------------------------------
(* The host queue: queues of credits *)

\* The elements of a sequence are those at its places.
LEMMA Elements ==
  ASSUME NEW T, NEW s \in Seq(T)
  PROVE  /\ Len(s) \in Nat /\ DOMAIN s = 1..Len(s)
         /\ ToSet(s) = Members(s) /\ ToSet(s) \subseteq T
         /\ s = <<>> <=> ToSet(s) = {}
<1>1. Len(s) \in Nat /\ DOMAIN s = 1..Len(s)  BY LenProperties
<1>2. \A i \in 1..Len(s) : s[i] \in T  BY ElementOfSeq
<1>3. ToSet(s) = Members(s)  BY <1>1 DEF ToSet, Members
<1>4. s = <<>> <=> Len(s) = 0  BY EmptySeq
<1>5. Len(s) = 0 <=> Members(s) = {}
  <2>1. Len(s) # 0 => 1 \in 1..Len(s)  BY <1>1
  <2>2. Len(s) = 0 => 1..Len(s) = {}  OBVIOUS
  <2>3. QED  BY <2>1, <2>2 DEF Members
<1>6. QED  BY <1>1, <1>2, <1>3, <1>4, <1>5 DEF Members

\* No two credits of a queue have the same number.
LEMMA NumbersDiffer ==
  ASSUME NEW q, NEW n, Numbered(q, n), NEW c \in ToSet(q), NEW d \in ToSet(q),
         c.seq = d.seq
  PROVE  c = d
<1>1. q \in Seq(CreditRec)  BY DEF Numbered
<1>2. PICK i \in 1..Len(q), j \in 1..Len(q) : c = q[i] /\ d = q[j]
  BY <1>1, Elements DEF Members
<1>3. q[i].seq \in Nat /\ q[j].seq \in Nat /\ i \in Nat /\ j \in Nat
  <2>1. q[i] \in CreditRec /\ q[j] \in CreditRec  BY <1>1, ElementOfSeq
  <2>2. QED  BY <2>1 DEF CreditRec
<1>4. ~ (i < j) /\ ~ (j < i)  BY <1>2, <1>3 DEF Numbered
<1>5. i = j  BY <1>3, <1>4
<1>6. QED  BY <1>2, <1>5

\* Numbers and types of the credits of a queue.
LEMMA QueuedCredit ==
  ASSUME NEW q, NEW n, Numbered(q, n), NEW c \in ToSet(q)
  PROVE  c \in CreditRec /\ c.seq \in 1..(n - 1)
<1>1. q \in Seq(CreditRec)  BY DEF Numbered
<1>2. PICK i \in 1..Len(q) : c = q[i]  BY <1>1, Elements DEF Members
<1>3. QED  BY <1>1, <1>2, ElementOfSeq DEF Numbered

\* What is kept of a queue is still in the order of arrival.
LEMMA NumberedKept ==
  ASSUME NEW q, NEW n, Numbered(q, n), NEW S, NEW k, k = Kept(q, S)
  PROVE  Numbered(k, n) /\ ToSet(k) = ToSet(q) \cap S
<1>1. q \in Seq(CreditRec)  BY DEF Numbered
<1>2. /\ k \in Seq(CreditRec) /\ Members(k) = Members(q) \cap S
      /\ \A i, j \in 1..Len(k) : i < j =>
           \E a, b \in 1..Len(q) : a < b /\ k[i] = q[a] /\ k[j] = q[b]
  <2>1. PICK T : T = CreditRec  OBVIOUS
  <2>2. q \in Seq(T)  BY <1>1, <2>1
  <2>3. k \in Seq(T) /\ Members(k) = Members(q) \cap S /\ InOrderOf(k, q)
    BY <2>2, KeptElements
  <2>4. QED  BY <2>1, <2>3 DEF InOrderOf
<1>3. ToSet(k) = ToSet(q) \cap S  BY <1>1, <1>2, Elements
<1>4. ASSUME NEW i \in 1..Len(k)  PROVE k[i].seq \in 1..(n - 1)
  <2>1. k[i] \in ToSet(q)  BY <1>2, <1>3, Elements DEF Members
  <2>2. QED  BY <2>1, QueuedCredit
<1>5. ASSUME NEW i \in 1..Len(k), NEW j \in 1..Len(k), i < j  PROVE k[i].seq < k[j].seq
  <2>1. PICK a \in 1..Len(q), b \in 1..Len(q) : a < b /\ k[i] = q[a] /\ k[j] = q[b]
    BY <1>2, <1>5
  <2>2. QED  BY <2>1 DEF Numbered
<1>6. QED  BY <1>2, <1>3, <1>4, <1>5 DEF Numbered

\* A new credit has the next number.
LEMMA NumberedAppend ==
  ASSUME NEW q, NEW n \in Nat \ {0}, Numbered(q, n), NEW c \in CreditRec, c.seq = n,
         NEW l, l = Append(q, c)
  PROVE  Numbered(l, n + 1) /\ ToSet(l) = ToSet(q) \cup {c} /\ l # <<>>
<1>1. q \in Seq(CreditRec)  BY DEF Numbered
<1>2. /\ l \in Seq(CreditRec) /\ Len(q) \in Nat /\ Len(l) = Len(q) + 1
      /\ \A i \in 1..Len(q) : l[i] = q[i]
      /\ l[Len(q) + 1] = c
  BY <1>1, AppendProperties, LenProperties
<1>3. \A i \in 1..Len(l) : i = Len(l) \/ i \in 1..Len(q)  BY <1>2
<1>4. \A i \in 1..Len(q) : q[i].seq \in 1..(n - 1)  BY DEF Numbered
<1>5. ASSUME NEW i \in 1..Len(l)  PROVE l[i].seq \in 1..n
  BY <1>2, <1>3, <1>4
<1>6. ASSUME NEW i \in 1..Len(l), NEW j \in 1..Len(l), i < j  PROVE l[i].seq < l[j].seq
  <2>1. i \in 1..Len(q)  BY <1>2, <1>6
  <2>2. CASE j = Len(l)  BY <1>2, <1>4, <2>1, <2>2
  <2>3. CASE j \in 1..Len(q)  BY <1>2, <1>6, <2>1, <2>3 DEF Numbered
  <2>4. QED  BY <1>3, <2>2, <2>3
<1>7. Members(l) = Members(q) \cup {c}
  <2>1. Len(l) \in 1..Len(l) /\ \A i \in 1..Len(q) : i \in 1..Len(l)  BY <1>2
  <2>2. QED  BY <1>2, <1>3, <2>1 DEF Members
<1>8. n + 1 - 1 = n /\ l # <<>>  BY <1>2, EmptySeq
<1>9. ToSet(l) = ToSet(q) \cup {c}
  <2>1. ToSet(l) = Members(l) /\ ToSet(q) = Members(q)  BY <1>1, <1>2, Elements
  <2>2. QED  BY <1>7, <2>1
<1>10. Numbered(l, n + 1)  BY <1>2, <1>5, <1>6, <1>8 DEF Numbered
<1>11. QED  BY <1>8, <1>9, <1>10

\* Without the keys of some credits, those of the others are left.
LEMMA KeysWithout ==
  ASSUME NEW q, NEW n, Numbered(q, n),
         NEW A \in SUBSET ToSet(q), NEW B \in SUBSET ToSet(q)
  PROVE  KeysOf(A) \ KeysOf(B) = KeysOf(A \ B)
<1>1. ASSUME NEW c \in ToSet(q), NEW d \in ToSet(q), Key(c) = Key(d)  PROVE c = d
  <2>1. c.seq = d.seq  BY <1>1 DEF Key
  <2>2. QED  BY <2>1, NumbersDiffer
<1>2. ASSUME NEW k \in KeysOf(A) \ KeysOf(B)  PROVE k \in KeysOf(A \ B)
  <2>1. PICK c \in A : c.slice # NoSlice /\ k = Key(c)  BY <1>2 DEF KeysOf
  <2>2. c \notin B  BY <1>2, <2>1 DEF KeysOf
  <2>3. QED  BY <2>1, <2>2 DEF KeysOf
<1>3. ASSUME NEW k \in KeysOf(A \ B)  PROVE k \in KeysOf(A) \ KeysOf(B)
  <2>1. PICK c \in A \ B : c.slice # NoSlice /\ k = Key(c)  BY <1>3 DEF KeysOf
  <2>2. k \in KeysOf(A)  BY <2>1 DEF KeysOf
  <2>3. ASSUME k \in KeysOf(B)  PROVE FALSE
    <3>1. PICK d \in B : k = Key(d)  BY <2>3 DEF KeysOf
    <3>2. QED  BY <1>1, <2>1, <3>1
  <2>4. QED  BY <2>2, <2>3
<1>4. QED  BY <1>2, <1>3

\* Paths have numbers, and a hop count.
LEMMA PathTypes ==
  ASSUME NEW dst \in Dsts, NEW slice \in 0..(NSlices - 1), NEW path \in Paths(dst, slice)
  PROVE  path \in Nat \ {0} /\ HopCount(dst, slice, path) \in Nat
<1>1. CASE dst \in SameRack
  BY <1>1 DEF Paths, HopCount
<1>2. CASE dst \notin SameRack
  <2>1. PICK s \in Seq(Nat \ {0}) : s = PathHops[dst][slice]  BY <1>2, NICAssumption
  <2>2. DOMAIN s = 1..Len(s) /\ \A i \in 1..Len(s) : s[i] \in Nat
    BY <2>1, LenProperties, ElementOfSeq
  <2>3. path \in DOMAIN s /\ HopCount(dst, slice, path) = s[path]
    BY <1>2, <2>1 DEF Paths, HopCount
  <2>4. QED  BY <2>2, <2>3
<1>3. QED  BY <1>1, <1>2

\* A credit ranked by a path of the present slice.
LEMMA RankedCredit ==
  ASSUME Clocks, NEW c \in CreditRec, NEW path \in Paths(c.dst, CurSlice),
         NEW d, d = Ranked(c, CurSlice, path)
  PROVE  /\ d \in CreditRec /\ d.seq = c.seq /\ d.dst = c.dst /\ d.expiry = c.expiry
         /\ d.slice = CurSlice /\ d.slice # NoSlice /\ WellRanked(d)
<1>1. CurSlice \in 0..(NSlices - 1) /\ CurSlice \in SliceNumbers /\ CurSlice # NoSlice
  <2>1. CurSlice \in 0..(NSlices - 1)  BY SliceTypes DEF CurSlice, Clocks
  <2>2. NSlices \in Nat  BY ClockTypes DEF NSlices
  <2>3. QED  BY <2>1, <2>2 DEF SliceNumbers, NoSlice
<1>2. c.dst \in Dsts  BY DEF CreditRec
<1>3. path \in Nat /\ HopCount(c.dst, CurSlice, path) \in Nat
  BY <1>1, <1>2, PathTypes
<1>4. PICK h \in Nat : h = HopCount(c.dst, CurSlice, path)  BY <1>3
<1>5. d = [c EXCEPT !.slice = CurSlice, !.path = path, !.hops = h]
  BY <1>4 DEF Ranked
<1>6. /\ d \in CreditRec /\ d.seq = c.seq /\ d.dst = c.dst /\ d.expiry = c.expiry
      /\ d.slice = CurSlice /\ d.path = path /\ d.hops = h
  BY <1>1, <1>3, <1>5 DEF CreditRec
<1>7. WellRanked(d)  BY <1>4, <1>6 DEF WellRanked
<1>8. QED  BY <1>1, <1>6, <1>7

-----------------------------------------------------------------------------
(* The host queue: beginService *)

\* A rebuild ranks every credit of the queue by a path of the present slice.
LEMMA RebuiltQueue ==
  ASSUME Clocks, NEW q, NEW n, Numbered(q, n), NEW r \in Rebuilt(q)
  PROVE  /\ Numbered(r, n) /\ (r = <<>> <=> q = <<>>)
         /\ \A c \in ToSet(r) : /\ c.slice = CurSlice /\ c.slice # NoSlice /\ WellRanked(c)
                                /\ \E d \in ToSet(q) : c.expiry = d.expiry
<1>1. q \in Seq(CreditRec) /\ Len(q) \in Nat /\ DOMAIN q = 1..Len(q)
  BY Elements DEF Numbered
<1>2. PICK f \in [DOMAIN q -> UNION {Paths(d, CurSlice) : d \in Dsts}] :
        /\ \A i \in DOMAIN q : f[i] \in Paths(q[i].dst, CurSlice)
        /\ r = [i \in DOMAIN q |-> Ranked(q[i], CurSlice, f[i])]
  BY DEF Rebuilt
<1>3. ASSUME NEW i \in 1..Len(q)
      PROVE  /\ r[i] \in CreditRec /\ r[i].seq = q[i].seq /\ r[i].expiry = q[i].expiry
             /\ r[i].slice = CurSlice /\ r[i].slice # NoSlice /\ WellRanked(r[i])
  <2>1. q[i] \in CreditRec  BY <1>1, ElementOfSeq
  <2>2. PICK path \in Paths(q[i].dst, CurSlice) : r[i] = Ranked(q[i], CurSlice, path)
    BY <1>1, <1>2
  <2>3. PICK c \in CreditRec, d \in {r[i]} : c = q[i] /\ d = r[i]  BY <2>1
  <2>4. path \in Paths(c.dst, CurSlice) /\ d = Ranked(c, CurSlice, path)  BY <2>2, <2>3
  <2>5. /\ d \in CreditRec /\ d.seq = c.seq /\ d.expiry = c.expiry
        /\ d.slice = CurSlice /\ d.slice # NoSlice /\ WellRanked(d)
    BY <2>4, RankedCredit
  <2>6. QED  BY <2>3, <2>5
<1>4. r \in Seq(CreditRec) /\ Len(r) = Len(q)
  <2>1. r \in [1..Len(q) -> CreditRec]  BY <1>1, <1>2, <1>3
  <2>2. r \in Seq(CreditRec)  BY <1>1, <2>1, SeqDef
  <2>3. QED  BY <1>1, <2>1, <2>2, LenProperties
<1>5. Numbered(r, n)
  <2>1. \A i \in 1..Len(r) : r[i].seq \in 1..(n - 1)  BY <1>3, <1>4 DEF Numbered
  <2>2. \A i, j \in 1..Len(r) : i < j => r[i].seq < r[j].seq
    BY <1>3, <1>4 DEF Numbered
  <2>3. QED  BY <1>4, <2>1, <2>2 DEF Numbered
<1>6. r = <<>> <=> q = <<>>  BY <1>1, <1>4, EmptySeq
<1>7. ASSUME NEW c \in ToSet(r)
      PROVE  /\ c.slice = CurSlice /\ c.slice # NoSlice /\ WellRanked(c)
             /\ \E d \in ToSet(q) : c.expiry = d.expiry
  <2>1. PICK i \in 1..Len(q) : c = r[i]  BY <1>4, Elements DEF Members
  <2>2. q[i] \in ToSet(q)  BY <1>1, Elements DEF Members
  <2>3. QED  BY <1>3, <2>1, <2>2
<1>8. QED  BY <1>5, <1>6, <1>7

\* No credit is without a rank if the ranks are of the present slice.
NoneForgotten(cq) == CurSlice = lastSlice => \A c \in ToSet(cq) : c.slice # NoSlice

\* What is selected from: credits that are not expired, all ranked by a path
\* of the present slice, and exactly their keys.
Selected(sel, n) ==
  /\ Numbered(sel.queue, n)
  /\ sel.order = KeysOf(ToSet(sel.queue))
  /\ \A c \in ToSet(sel.queue) :
       c.slice = CurSlice /\ c.slice # NoSlice /\ WellRanked(c) /\ ~ NICExpired(c)

\* That is what selectRxCredit leaves.
LEMMA SelectStep ==
  ASSUME Clocks, NEW cq, NEW n, Numbered(cq, n), NEW ord,
         Selectable(cq, ord, lastSlice), NoneForgotten(cq),
         NEW sel \in Select(cq, ord)
  PROVE  Selected(sel, n)
<1> DEFINE alive == {c \in ToSet(cq) : ~ NICExpired(c)}
           gone  == {c \in ToSet(cq) : NICExpired(c)}
<1>1. PICK fresh : fresh = Kept(cq, alive)  OBVIOUS
<1>2. Numbered(fresh, n) /\ ToSet(fresh) = alive
  <2>1. Numbered(fresh, n) /\ ToSet(fresh) = ToSet(cq) \cap alive  BY <1>1, NumberedKept
  <2>2. QED  BY <2>1
<1>3. CASE CurSlice = lastSlice
  <2>1. sel = [queue |-> fresh, order |-> ord \ KeysOf(gone)]
    BY <1>1, <1>3 DEF Select
  <2>2. sel.order = KeysOf(ToSet(sel.queue))
    <3>1. KeysOf(ToSet(cq)) \ KeysOf(gone) = KeysOf(ToSet(cq) \ gone)  BY KeysWithout
    <3>2. ToSet(cq) \ gone = alive  OBVIOUS
    <3>3. ord = KeysOf(ToSet(cq))  BY DEF Selectable
    <3> HIDE DEF alive, gone
    <3>4. QED  BY <1>2, <2>1, <3>1, <3>2, <3>3
  <2>3. ASSUME NEW c \in ToSet(sel.queue)
        PROVE  c.slice = CurSlice /\ c.slice # NoSlice /\ WellRanked(c) /\ ~ NICExpired(c)
    <3>1. c \in ToSet(cq) /\ ~ NICExpired(c)  BY <1>2, <2>1, <2>3
    <3>2. c.slice # NoSlice  BY <1>3, <3>1 DEF NoneForgotten
    <3>3. WellRanked(c) /\ RankedFor(c, lastSlice)  BY <3>1 DEF Selectable
    <3>4. c.slice = lastSlice  BY <3>2, <3>3 DEF RankedFor
    <3>5. QED  BY <1>3, <3>1, <3>2, <3>3, <3>4
  <2>4. Numbered(sel.queue, n)  BY <1>2, <2>1
  <2>5. QED  BY <2>2, <2>3, <2>4 DEF Selected
<1>4. CASE CurSlice # lastSlice
  <2>1. PICK r \in Rebuilt(fresh) : sel = [queue |-> r, order |-> KeysOf(ToSet(r))]
    BY <1>1, <1>4 DEF Select
  <2>2. /\ Numbered(r, n)
        /\ \A c \in ToSet(r) : /\ c.slice = CurSlice /\ c.slice # NoSlice /\ WellRanked(c)
                               /\ \E d \in ToSet(fresh) : c.expiry = d.expiry
    BY <1>2, RebuiltQueue
  <2>3. ASSUME NEW c \in ToSet(r)  PROVE ~ NICExpired(c)
    <3>1. PICK d \in ToSet(fresh) : c.expiry = d.expiry  BY <2>2
    <3>2. ~ NICExpired(d)  BY <1>2
    <3>3. QED  BY <3>1, <3>2 DEF NICExpired
  <2>4. sel.queue = r /\ sel.order = KeysOf(ToSet(r))  BY <2>1
  <2>5. QED  BY <2>2, <2>3, <2>4 DEF Selected
<1>5. QED  BY <1>3, <1>4

\* A credit is started only ahead of all that wait, none expired, all ranked
\* by a path of the present slice.
Chosen(c, d) == d.slice = CurSlice /\ ~ NICExpired(d) /\ (d # c => Before(Key(c), Key(d)))

\* beginService leaves the ranking in order for the present slice, one event
\* or an empty queue, and starts the best credit if it starts one.
LEMMA NICBeginServiceStep ==
  ASSUME Clocks, ServiceTypes, now' = now,
         NEW dq \in Seq(DataRec), NEW cq, NEW n, Numbered(cq, n), NEW ord,
         Selectable(cq, ord, lastSlice), NoneForgotten(cq), NEW st,
         NICBeginService(dq, cq, ord, {}, st)
  PROVE  /\ dataQ' = dq /\ Numbered(credQ', n)
         /\ lastSlice' = CurSlice /\ lastCredT' \in Nat /\ lastCredT' <= now'
         /\ ServiceTypes' /\ Serving' /\ Ranking' /\ Recent'
         /\ inService' # 0 =>
              \A c, d \in ToSet(credQ') : c.seq = inService' => Chosen(c, d)
<1> now \in Nat  BY DEF Clocks
<1>1. PICK sel \in Select(cq, ord), ready \in BOOLEAN, found \in BOOLEAN :
        /\ ready = (Tokens > 0) /\ found = (sel.order # {})
        /\ credQ' = sel.queue /\ dataQ' = dq /\ lastSlice' = CurSlice
        /\ lastCredT' = TokenTime
        /\ \/ /\ ready /\ found /\ SendCredit({})
              /\ \E k \in First(sel.order) :
                   order' = sel.order \ {k} /\ inService' = k[2]
           \/ /\ \/ ~ (ready /\ found) /\ dq # <<>> /\ SendData(Head(dq), {})
                 \/ ~ ready /\ found /\ dq = <<>> /\ AwaitToken({})
                 \/ ~ found /\ dq = <<>> /\ NothingToSend({})
              /\ order' = sel.order /\ inService' = 0
  <2>1. PICK sel \in Select(cq, ord) :
        /\ credQ' = sel.queue /\ dataQ' = dq /\ lastSlice' = CurSlice
        /\ lastCredT' = TokenTime
        /\ \/ /\ Tokens > 0 /\ sel.order # {} /\ SendCredit({})
              /\ \E k \in First(sel.order) :
                   order' = sel.order \ {k} /\ inService' = k[2]
           \/ /\ \/ /\ ~ (Tokens > 0 /\ sel.order # {})
                    /\ dq # <<>> /\ SendData(Head(dq), {})
                 \/ ~ (Tokens > 0) /\ sel.order # {} /\ dq = <<>> /\ AwaitToken({})
                 \/ ~ (sel.order # {}) /\ dq = <<>> /\ NothingToSend({})
              /\ order' = sel.order /\ inService' = 0
    BY DEF NICBeginService
  <2>2. (Tokens > 0) \in BOOLEAN /\ (sel.order # {}) \in BOOLEAN  OBVIOUS
  <2>3. QED  BY <2>1, <2>2
<1>2. PICK q, o : q = sel.queue /\ o = sel.order  OBVIOUS
<1>3. /\ Numbered(q, n) /\ o = KeysOf(ToSet(q))
      /\ \A c \in ToSet(q) :
           c.slice = CurSlice /\ c.slice # NoSlice /\ WellRanked(c) /\ ~ NICExpired(c)
  BY <1>2, SelectStep DEF Selected
<1>4. q \in Seq(CreditRec)  BY <1>3 DEF Numbered
<1>5. found <=> q # <<>>
  <2>1. o = {Key(c) : c \in ToSet(q)}  BY <1>3 DEF KeysOf
  <2>2. o # {} <=> ToSet(q) # {}  BY <2>1
  <2>3. QED  BY <1>1, <1>2, <1>4, <2>2, Elements
<1>6. TokenTime \in Nat /\ TokenTime <= now /\ now < TokenTime + Spacing
  <2>1. now - lastCredT \in Nat  BY DEF Clocks
  <2>2. /\ (now - lastCredT) % Spacing \in 0..(Spacing - 1)
        /\ (now - lastCredT) % Spacing <= now - lastCredT
    BY <2>1, DivMod
  <2>3. QED  BY <2>1, <2>2, CreditQueueAssumption DEF TokenTime, Clocks
<1>7. dq # <<>> => Head(dq).size \in DataSizes
  <2>1. dq # <<>> => Head(dq) \in DataRec  BY HeadTailProperties
  <2>2. QED  BY <2>1 DEF DataRec
<1>8. ServiceTypes' /\ Serving'
  <2>1. \/ ready /\ credQ' # <<>> /\ SendCredit({})
        \/ ~ (ready /\ credQ' # <<>>) /\ dataQ' # <<>> /\ SendData(Head(dataQ'), {})
        \/ ~ ready /\ credQ' # <<>> /\ dataQ' = <<>> /\ AwaitToken({})
        \/ credQ' = <<>> /\ dataQ' = <<>> /\ NothingToSend({})
    BY <1>1, <1>2, <1>5
  <2>2. dataQ' # <<>> => Head(dataQ').size \in Nat
    BY <1>1, <1>7, CreditQueueAssumption
  <2>3. QED  BY <1>6, <2>1, <2>2, LinkStep
<1>9. ASSUME inService' = 0, order' = o, txNext' # "CRED"
      PROVE  Ranking' /\ inService' = 0
  <2>1. \A c \in ToSet(q) : c.seq # 0
    <3>1. \A c \in ToSet(q) : c.seq \in 1..(n - 1)  BY <1>3, QueuedCredit
    <3>2. QED  BY <3>1
  <2>2. {c \in ToSet(q) : c.seq # inService'} = ToSet(q)  BY <1>9, <2>1
  <2>3. Ranking'
    <3>1. order' = KeysOf({c \in ToSet(credQ') : c.seq # inService'})
      BY <1>1, <1>2, <1>3, <1>9, <2>2
    <3>2. \A c \in ToSet(credQ') :
            /\ WellRanked(c)
            /\ IF c.seq = inService' THEN c.slice # NoSlice ELSE RankedFor(c, lastSlice')
      BY <1>1, <1>2, <1>3 DEF RankedFor
    <3>3. QED  BY <1>9, <3>1, <3>2 DEF Ranking, KeysOf, Key, WellRanked, RankedFor,
          Paths, HopCount, Arrival, TimeToSlice, TimeToSuperslice
  <2>4. QED  BY <1>9, <2>3
<1>10. ASSUME SendCredit({}),
              \E k \in First(o) : order' = o \ {k} /\ inService' = k[2]
       PROVE  /\ Ranking'
              /\ \A c, d \in ToSet(credQ') : c.seq = inService' => Chosen(c, d)
  <2>1. PICK k \in First(o) : order' = o \ {k} /\ inService' = k[2]  BY <1>10
  <2>2. PICK c \in ToSet(q) : c.slice # NoSlice /\ k = Key(c)
    BY <1>3, <2>1 DEF First, KeysOf
  <2>3. inService' = c.seq  BY <2>1, <2>2 DEF Key
  <2>4. \A d \in ToSet(q) : d.seq = c.seq => d = c  BY <1>3, NumbersDiffer
  <2>5. {d \in ToSet(q) : d.seq # inService'} = ToSet(q) \ {c}  BY <2>3, <2>4
  <2>6. order' = KeysOf(ToSet(q) \ {c})
    <3>1. KeysOf({c}) = {k}  BY <2>2 DEF KeysOf
    <3>2. KeysOf(ToSet(q)) \ KeysOf({c}) = KeysOf(ToSet(q) \ {c})
      <4>1. \A A, B \in SUBSET ToSet(q) : KeysOf(A) \ KeysOf(B) = KeysOf(A \ B)
        BY <1>3, KeysWithout
      <4>2. ToSet(q) \in SUBSET ToSet(q) /\ {c} \in SUBSET ToSet(q)  OBVIOUS
      <4>3. QED  BY <4>1, <4>2
    <3>3. QED  BY <1>3, <2>1, <3>1, <3>2
  <2>7. Ranking'
    <3>1. order' = KeysOf({d \in ToSet(credQ') : d.seq # inService'})
      BY <1>1, <1>2, <2>5, <2>6
    <3>2. \A d \in ToSet(credQ') :
            /\ WellRanked(d)
            /\ IF d.seq = inService' THEN d.slice # NoSlice ELSE RankedFor(d, lastSlice')
      BY <1>1, <1>2, <1>3 DEF RankedFor
    <3>3. \E d \in ToSet(credQ') : d.seq = inService'  BY <1>1, <1>2, <2>3
    <3>4. txNext' = "CRED"  BY <1>10 DEF SendCredit
    <3>5. QED  BY <3>1, <3>2, <3>3, <3>4 DEF Ranking, KeysOf, Key, WellRanked, RankedFor,
          Paths, HopCount, Arrival, TimeToSlice, TimeToSuperslice
  <2>8. ASSUME NEW a \in ToSet(q), NEW d \in ToSet(q), a.seq = inService'  PROVE Chosen(a, d)
    <3>1. a = c  BY <2>3, <2>4, <2>8
    <3>2. d # c => Before(Key(c), Key(d))
      <4>1. Key(d) \in o  BY <1>3 DEF KeysOf
      <4>2. d # c => Key(d) # k
        <5>1. d # c => d.seq # c.seq  BY <2>4
        <5>2. QED  BY <2>2, <5>1 DEF Key
      <4>3. QED  BY <2>1, <2>2, <4>1, <4>2 DEF First
    <3>3. QED  BY <1>3, <3>1, <3>2 DEF Chosen
  <2>9. QED  BY <1>1, <1>2, <2>7, <2>8
<1>11. \/ inService' = 0 /\ order' = o /\ txNext' # "CRED"
       \/ /\ ready /\ found /\ SendCredit({})
          /\ \E k \in First(o) : order' = o \ {k} /\ inService' = k[2]
  <2>1. SendData(Head(dq), {}) => txNext' # "CRED"  BY DEF SendData
  <2>2. AwaitToken({}) => txNext' # "CRED"  BY DEF AwaitToken
  <2>3. NothingToSend({}) => txNext' # "CRED"  BY DEF NothingToSend
  <2>4. QED  BY <1>1, <1>2, <2>1, <2>2, <2>3
<1>12. Recent'
  <2>1. \E wait \in Waits : \A e \in events' : e.at <= now + wait
    <3>1. ASSUME NEW kind, NEW time  PROVE Scheduled({}, kind, time) = {Event(kind, time)}
      BY DEF Scheduled, Event
    <3>2. CASE SendCredit({})
      <4>1. \A e \in events' : e.at = now + CredSize  BY <3>1, <3>2 DEF SendCredit, Event
      <4>2. CredSize \in Waits /\ now + CredSize \in Int
        BY CreditQueueAssumption DEF Waits
      <4>3. QED  BY <4>1, <4>2
    <3>3. CASE dq # <<>> /\ SendData(Head(dq), {})
      <4>1. \A e \in events' : e.at = now + Head(dq).size
        BY <3>1, <3>3 DEF SendData, Event
      <4>2. Head(dq).size \in Waits /\ now + Head(dq).size \in Int
        <5>1. PICK x \in DataSizes : x = Head(dq).size  BY <1>7, <3>3
        <5>2. x \in Waits /\ x \in Nat  BY CreditQueueAssumption DEF Waits
        <5>3. QED  BY <5>1, <5>2
      <4>3. QED  BY <4>1, <4>2
    <3>4. CASE AwaitToken({})
      <4>1. \A e \in events' : e.at = TokenTime + Spacing
        BY <3>1, <3>4 DEF AwaitToken, Event
      <4>2. Spacing \in Waits /\ TokenTime + Spacing <= now + Spacing
        BY <1>6, CreditQueueAssumption DEF Waits
      <4>3. QED  BY <4>1, <4>2
    <3>5. CASE NothingToSend({})
      <4>1. events' = {} /\ Spacing \in Waits  BY <3>5 DEF NothingToSend, Waits
      <4>2. QED  BY <4>1
    <3>6. QED  BY <1>1, <3>2, <3>3, <3>4, <3>5
  <2>2. \A c \in ToSet(credQ') : c.slice # NoSlice  BY <1>1, <1>2, <1>3
  <2>3. lastSlice' = TimeToSlice(now)  BY <1>1 DEF CurSlice
  <2>4. now <= now'  OBVIOUS
  <2>5. QED  BY <2>1, <2>2, <2>3, <2>4 DEF Recent, TimeToSlice, TimeToSuperslice, NoSlice
<1>13. Numbered(credQ', n)  BY <1>1, <1>2, <1>3
<1>14. QED  BY <1>1, <1>6, <1>8, <1>9, <1>10, <1>11, <1>12, <1>13

-----------------------------------------------------------------------------
(* The host queue: what the actions have in common *)

\* Everything but the route.
Core == Clocks /\ Lists /\ ServiceTypes /\ Serving /\ Ranking /\ Recent

\* A credit started in a step is ahead of all that wait.
StartsBest ==
  inService' # 0 /\ inService' # inService =>
    \A c, d \in ToSet(credQ') : c.seq = inService' => Chosen(c, d)

\* Packets have sizes.
LEMMA DataSizesAreSizes == \A p \in DataRec : p.size \in Nat /\ p.size \in DataSizes
  BY CreditQueueAssumption DEF DataRec

\* Bringing the bucket up to date keeps the clocks.
LEMMA BucketStep ==
  ASSUME Clocks, UpdateAvailCredit, now' = now
  PROVE  lastCredT' \in Nat /\ lastCredT' <= now'
<1>1. now - lastCredT \in Nat  BY DEF Clocks
<1>2. /\ (now - lastCredT) % Spacing \in 0..(Spacing - 1)
      /\ (now - lastCredT) % Spacing <= now - lastCredT
  BY <1>1, DivMod
<1>3. QED  BY <1>1, <1>2, CreditQueueAssumption DEF TokenTime, Clocks, UpdateAvailCredit

\* The credit in service was numbered before.
LEMMA InServiceNumber ==
  ASSUME Core
  PROVE  inService \in 0..(nextSeq - 1)
<1>1. CASE txNext = "CRED"
  <2>1. PICK c \in ToSet(credQ) : c.seq = inService  BY <1>1 DEF Core, Ranking
  <2>2. c.seq \in 1..(nextSeq - 1)  BY QueuedCredit DEF Core, Lists
  <2>3. QED  BY <2>1, <2>2 DEF Core, Clocks
<1>2. CASE txNext # "CRED"
  BY <1>2 DEF Core, Ranking, Clocks
<1>3. QED  BY <1>1, <1>2

\* When an event is due no credit has been forgotten: one without a rank came
\* after the last selection, so if the slice were still the same it would have
\* got its rank when it came.
LEMMA NothingForgotten ==
  ASSUME Core, NEW e \in events, e.at = now,
         NEW cq, ToSet(cq) \subseteq ToSet(credQ)
  PROVE  NoneForgotten(cq)
<1>1. SUFFICES ASSUME CurSlice = lastSlice, NEW c \in ToSet(credQ), c.slice = NoSlice
               PROVE  FALSE
  BY DEF NoneForgotten
<1>2. ~ IsEmpty
  BY DEF Core, Serving, Sending, Waiting, Resting, IsEmpty
<1>3. PICK t \in Nat, wait \in Waits :
        /\ t <= now /\ lastSlice = TimeToSlice(t) /\ e.at <= t + wait
        /\ t <= Arrival(c) /\ Arrival(c) <= now
  BY <1>1, <1>2 DEF Core, Recent
<1>4. Arrival(c) \in Nat
  <2>1. c \in CreditRec  BY QueuedCredit DEF Core, Lists
  <2>2. Arrival(c) \in Int  BY <2>1, CreditQueueAssumption DEF CreditRec, Arrival
  <2>3. QED  BY <1>3, <2>2
<1>5. now \in Nat /\ TimeToSlice(t) = TimeToSlice(now) /\ now <= t + wait
  BY <1>1, <1>3 DEF CurSlice, Core, Clocks
<1>6. TimeToSlice(Arrival(c)) = lastSlice
  BY <1>3, <1>4, <1>5, SameTurn DEF Waits
<1>7. QED  BY <1>1, <1>6 DEF Core, Ranking, RankedFor

\* beginService on the lists dq and cq, of which none is in service.
LEMMA NICStartStep ==
  ASSUME Clocks, ServiceTypes, now' = now,
         nextSeq' \in Nat \ {0}, NEW dq \in Seq(DataRec), queueSize' = BytesOf(dq),
         NEW cq, Numbered(cq, nextSeq'), NEW ord,
         Selectable(cq, ord, lastSlice), NoneForgotten(cq), NEW st,
         NICBeginService(dq, cq, ord, {}, st)
  PROVE  Core' /\ StartsBest
<1>1. PICK n : n = nextSeq'  OBVIOUS
<1>2. /\ dataQ' = dq /\ Numbered(credQ', n)
      /\ lastSlice' = CurSlice /\ lastCredT' \in Nat /\ lastCredT' <= now'
      /\ ServiceTypes' /\ Serving' /\ Ranking' /\ Recent'
      /\ inService' # 0 =>
           \A c, d \in ToSet(credQ') : c.seq = inService' => Chosen(c, d)
  BY <1>1, NICBeginServiceStep
<1>3. CurSlice \in SliceNumbers
  <2>1. CurSlice \in 0..(NSlices - 1)  BY SliceTypes DEF CurSlice, Clocks
  <2>2. NSlices \in Nat  BY ClockTypes DEF NSlices
  <2>3. QED  BY <2>1, <2>2 DEF SliceNumbers
<1>4. Clocks'  BY <1>2, <1>3 DEF Clocks, SliceNumbers
<1>5. Lists'  BY <1>1, <1>2 DEF Lists, BytesOf, SizeSeq, SumSeq, Numbered
<1>6. StartsBest  BY <1>2 DEF StartsBest
<1>7. QED  BY <1>2, <1>4, <1>5, <1>6 DEF Core

\* A link that rests has nothing queued, nothing ranked and no event.
LEMMA AtRest ==
  ASSUME Core, IsEmpty
  PROVE  /\ dataQ = <<>> /\ credQ = <<>> /\ ToSet(credQ) = {} /\ events = {}
         /\ order = {} /\ inService = 0 /\ queueSize = 0
<1>1. dataQ = <<>> /\ credQ = <<>> /\ ToSet(credQ) = {}
  BY DEF IsEmpty, ToSet
<1>2. txNext = "NONE" /\ events = {}  BY RestingWhenEmpty DEF Core
<1>3. order = {} /\ inService = 0  BY <1>1, <1>2 DEF Core, Ranking, KeysOf
<1>4. BytesOf(dataQ) = 0  BY <1>1, DataSizesAreSizes, BytesTypes DEF Core, Lists
<1>5. QED  BY <1>1, <1>2, <1>3, <1>4 DEF Core, Lists

\* A refused packet only brings the bucket up to date.
LEMMA RefusedStep ==
  ASSUME NICIInv, UpdateAvailCredit,
         UNCHANGED <<now, dataQ, queueSize, credQ, serviceVars, nicVars>>
  PROVE  NICIInv' /\ StartsBest
<1>1. Clocks'  BY BucketStep DEF NICIInv, Clocks, nicVars
<1>2. Lists' /\ ServiceTypes' /\ Serving'
  <2>1. Serving'  BY SameLink DEF NICIInv
  <2>2. QED  BY <2>1 DEF NICIInv, Lists, ServiceTypes, serviceVars, nicVars
<1>3. Ranking' /\ Routed'
  BY DEF NICIInv, Ranking, Routed, RouteExists, serviceVars, nicVars
<1>4. Recent'  BY DEF NICIInv, Recent, IsEmpty, serviceVars, nicVars
<1>5. StartsBest  BY DEF StartsBest, nicVars
<1>6. QED  BY <1>1, <1>2, <1>3, <1>4, <1>5 DEF NICIInv

-----------------------------------------------------------------------------
(* The host queue: the steps *)

\* A new credit has a rank if and only if the ranks are of the present slice.
LEMMA NewCredit ==
  ASSUME Clocks, NEW dst \in Dsts, NEW entry \in Tracked(dst)
  PROVE  /\ entry \in CreditRec /\ entry.seq = nextSeq /\ WellRanked(entry)
         /\ RankedFor(entry, lastSlice) /\ Arrival(entry) = now
         /\ CurSlice = lastSlice => entry.slice # NoSlice
<1>1. PICK u : u = Unranked(dst)  OBVIOUS
<1>2. CredTimeout \in Nat /\ now \in Nat /\ nextSeq \in Nat /\ NSlices \in Nat
  BY CreditQueueAssumption, ClockTypes DEF Clocks, NSlices
<1>3. /\ u \in CreditRec /\ u.seq = nextSeq /\ u.dst = dst
      /\ u.expiry = now + CredTimeout /\ u.slice = NoSlice
  BY <1>1, <1>2 DEF Unranked, CreditRec, SliceNumbers, NoSlice
<1>4. CASE CurSlice = lastSlice
  <2>1. PICK path \in Paths(dst, CurSlice) : entry = Ranked(u, CurSlice, path)
    BY <1>1, <1>4 DEF Tracked
  <2>2. path \in Paths(u.dst, CurSlice)  BY <1>3, <2>1
  <2>3. /\ entry \in CreditRec /\ entry.seq = u.seq /\ entry.expiry = u.expiry
        /\ entry.slice = CurSlice /\ entry.slice # NoSlice /\ WellRanked(entry)
    BY <1>3, <2>1, <2>2, RankedCredit
  <2>4. Arrival(entry) = now  BY <1>2, <1>3, <2>3 DEF Arrival
  <2>5. QED  BY <1>3, <1>4, <2>3, <2>4 DEF RankedFor
<1>5. CASE CurSlice # lastSlice
  <2>1. entry = u  BY <1>1, <1>5 DEF Tracked
  <2>2. Arrival(entry) = now  BY <1>2, <1>3, <2>1 DEF Arrival
  <2>3. QED  BY <1>3, <1>5, <2>1, <2>2 DEF WellRanked, RankedFor, CurSlice
<1>6. QED  BY <1>4, <1>5

\* The keys of credits and one more.
LEMMA KeysUnion ==
  ASSUME NEW A, NEW B
  PROVE  KeysOf(A) \cup KeysOf(B) = KeysOf(A \cup B)
  BY DEF KeysOf

\* A credit that is admitted to a queue at rest starts the link; any other
\* waits in its place of the order.
LEMMA CreditAdmittedStep ==
  ASSUME NICIInv, NEW c \in CreditKinds, NEW dst \in Dsts, NICCreditAdmitted(c, dst)
  PROVE  NICIInv' /\ StartsBest
<1>1. Core /\ Clocks /\ Lists /\ Serving /\ ServiceTypes /\ Ranking  BY DEF NICIInv, Core
<1>2. PICK entry, cq, ord, st :
        /\ entry \in Tracked(dst)
        /\ cq = Append(credQ, entry) /\ ord = order \cup KeysOf({entry})
        /\ IF IsEmpty
           THEN NICBeginService(dataQ, cq, ord, events, st)
           ELSE /\ credQ' = cq /\ order' = ord
                /\ UpdateAvailCredit
                /\ UNCHANGED <<dataQ, serviceVars, inService, lastSlice>>
        /\ nextSeq' = nextSeq + 1 /\ UNCHANGED <<now, queueSize, route>>
  BY DEF NICCreditAdmitted
<1>3. /\ entry \in CreditRec /\ entry.seq = nextSeq /\ WellRanked(entry)
      /\ RankedFor(entry, lastSlice) /\ Arrival(entry) = now
      /\ CurSlice = lastSlice => entry.slice # NoSlice
  BY <1>1, <1>2, NewCredit
<1>4. Numbered(cq, nextSeq') /\ ToSet(cq) = ToSet(credQ) \cup {entry} /\ cq # <<>>
  BY <1>1, <1>2, <1>3, NumberedAppend DEF Clocks, Lists
<1>5. nextSeq' \in Nat \ {0}  BY <1>1, <1>2 DEF Clocks
<1>6. Routed'  BY <1>2 DEF NICIInv, Routed, RouteExists
<1>7. CASE IsEmpty
  <2>1. ToSet(credQ) = {} /\ events = {} /\ order = {} /\ dataQ = <<>>  BY <1>1, <1>7, AtRest
  <2>2. ToSet(cq) = {entry}  BY <1>4, <2>1
  <2>3. Selectable(cq, ord, lastSlice)  BY <1>2, <1>3, <2>1, <2>2 DEF Selectable
  <2>4. NoneForgotten(cq)  BY <1>3, <2>2 DEF NoneForgotten
  <2>5. NICBeginService(dataQ, cq, ord, {}, st)  BY <1>2, <1>7, <2>1
  <2>6. dataQ \in Seq(DataRec) /\ queueSize' = BytesOf(dataQ)  BY <1>1, <1>2 DEF Lists
  <2>7. Core' /\ StartsBest
    BY <1>1, <1>2, <1>4, <1>5, <2>3, <2>4, <2>5, <2>6, NICStartStep
  <2>8. QED  BY <1>6, <2>7 DEF NICIInv, Core
<1>8. CASE ~ IsEmpty
  <2>1. /\ credQ' = cq /\ order' = ord /\ UpdateAvailCredit
        /\ UNCHANGED <<dataQ, serviceVars, inService, lastSlice, now, queueSize, route>>
    BY <1>2, <1>8
  <2>2. Clocks'  BY <1>1, <1>5, <2>1, BucketStep DEF Clocks
  <2>3. Lists'  BY <1>1, <1>4, <2>1 DEF Lists, Numbered
  <2>4. ServiceTypes'  BY <1>1, <2>1 DEF ServiceTypes, serviceVars
  <2>5. Serving'  BY <1>1, <1>4, <1>8, <2>1, LongerQueues
  <2>6. inService \in 0..(nextSeq - 1) /\ entry.seq # inService
    BY <1>1, <1>3, InServiceNumber DEF Clocks
  <2>7. {d \in ToSet(cq) : d.seq # inService}
          = {d \in ToSet(credQ) : d.seq # inService} \cup {entry}
    BY <1>4, <2>6
  <2>8. Ranking'
    <3>1. order' = KeysOf({d \in ToSet(cq) : d.seq # inService})
      BY <1>1, <1>2, <2>1, <2>7, KeysUnion DEF Ranking
    <3>2. \A d \in ToSet(cq) :
            /\ WellRanked(d)
            /\ IF d.seq = inService THEN d.slice # NoSlice ELSE RankedFor(d, lastSlice)
      BY <1>1, <1>3, <1>4, <2>6 DEF Ranking
    <3>3. IF txNext = "CRED" THEN \E d \in ToSet(cq) : d.seq = inService
          ELSE inService = 0
      BY <1>1, <1>4 DEF Ranking
    <3>4. QED  BY <2>1, <3>1, <3>2, <3>3 DEF Ranking, serviceVars
  <2>9. Recent'
    <3>1. PICK t \in Nat, wait \in Waits :
            /\ t <= now /\ lastSlice = TimeToSlice(t)
            /\ \A e \in events : e.at <= t + wait
            /\ \A d \in ToSet(credQ) :
                 d.slice = NoSlice => t <= Arrival(d) /\ Arrival(d) <= now
      BY <1>8 DEF NICIInv, Recent
    <3>2. \A d \in ToSet(cq) : d.slice = NoSlice => t <= Arrival(d) /\ Arrival(d) <= now
      BY <1>1, <1>3, <1>4, <3>1 DEF Clocks
    <3>3. QED  BY <2>1, <3>1, <3>2 DEF Recent, serviceVars
  <2>10. StartsBest  BY <2>1 DEF StartsBest
  <2>11. QED  BY <1>6, <2>2, <2>3, <2>4, <2>5, <2>8, <2>9, <2>10 DEF NICIInv
<1>9. QED  BY <1>7, <1>8

\* So does any other packet, which waits behind the others of its kind.
LEMMA DataAdmittedStep ==
  ASSUME NICIInv, NEW p \in DataKinds, NEW dst \in Dsts, NEW ts \in {NoSlice} \cup RealSlices,
         NICDataAdmitted(p, dst, ts)
  PROVE  NICIInv' /\ StartsBest
<1>1. Core /\ Clocks /\ Lists /\ Serving /\ ServiceTypes /\ Ranking  BY DEF NICIInv, Core
<1>2. PICK new, dq :
        /\ new = [type |-> p.type, size |-> p.size, dst |-> dst, ts |-> ts]
        /\ dq = Append(dataQ, new)
        /\ queueSize' = queueSize + p.size
        /\ IF IsEmpty
           THEN NICBeginService(dq, credQ, order, events, creds)
           ELSE /\ dataQ' = dq
                /\ UpdateAvailCredit
                /\ UNCHANGED <<credQ, serviceVars, order, inService, lastSlice>>
        /\ UNCHANGED <<now, nextSeq, route>>
  BY DEF NICDataAdmitted
<1>3. new \in DataRec /\ new.size = p.size
  <2>1. p \in DataPkts  BY NICAssumption
  <2>2. ts \in SliceNumbers
    BY ClockTypes DEF SliceNumbers, NSlices, NoSlice, RealSlices
  <2>3. QED  BY <1>2, <2>1, <2>2 DEF DataPkts, DataRec
<1>4. /\ dq \in Seq(DataRec) /\ dq # <<>>
      /\ queueSize' = BytesOf(dq)
  <2>1. /\ Append(dataQ, new) \in Seq(DataRec) /\ Append(dataQ, new) # <<>>
        /\ BytesOf(Append(dataQ, new)) = BytesOf(dataQ) + new.size
    <3>1. \A d \in DataRec : d.size \in Nat  BY DataSizesAreSizes
    <3>2. PICK T : T = DataRec  OBVIOUS
    <3>3. dataQ \in Seq(T) /\ new \in T /\ \A d \in T : d.size \in Nat
      BY <1>1, <1>3, <3>1, <3>2 DEF Lists
    <3>4. /\ Append(dataQ, new) \in Seq(T) /\ Append(dataQ, new) # <<>>
          /\ BytesOf(Append(dataQ, new)) = BytesOf(dataQ) + new.size
      BY <3>3, BytesAppend
    <3>5. QED  BY <3>2, <3>4
  <2>2. QED  BY <1>1, <1>2, <1>3, <2>1 DEF Lists
<1>5. Routed'  BY <1>2 DEF NICIInv, Routed, RouteExists
<1>6. CASE IsEmpty
  <2>1. ToSet(credQ) = {} /\ events = {} /\ order = {}  BY <1>1, <1>6, AtRest
  <2>2. Selectable(credQ, order, lastSlice) /\ NoneForgotten(credQ)
    BY <2>1 DEF Selectable, NoneForgotten, KeysOf
  <2>3. NICBeginService(dq, credQ, order, {}, creds)  BY <1>2, <1>6, <2>1
  <2>4. Numbered(credQ, nextSeq') /\ nextSeq' \in Nat \ {0}
    BY <1>1, <1>2 DEF Lists, Clocks
  <2>5. Core' /\ StartsBest
    BY <1>1, <1>2, <1>4, <2>2, <2>3, <2>4, NICStartStep
  <2>6. QED  BY <1>5, <2>5 DEF NICIInv, Core
<1>7. CASE ~ IsEmpty
  <2>1. /\ dataQ' = dq /\ UpdateAvailCredit
        /\ UNCHANGED <<credQ, serviceVars, order, inService, lastSlice, now, nextSeq, route>>
    BY <1>2, <1>7
  <2>2. Clocks'  BY <1>1, <2>1, BucketStep DEF Clocks
  <2>3. Lists'  BY <1>1, <1>4, <2>1 DEF Lists, Numbered
  <2>4. ServiceTypes'  BY <1>1, <2>1 DEF ServiceTypes, serviceVars
  <2>5. Serving'  BY <1>1, <1>4, <1>7, <2>1, LongerQueues
  <2>6. Ranking'  BY <1>1, <2>1 DEF Ranking, serviceVars
  <2>7. Recent'  BY <1>7, <2>1 DEF NICIInv, Recent, serviceVars
  <2>8. StartsBest  BY <2>1 DEF StartsBest
  <2>9. QED  BY <1>5, <2>2, <2>3, <2>4, <2>5, <2>6, <2>7, <2>8 DEF NICIInv
<1>8. QED  BY <1>6, <1>7

\* A packet is stamped with a path of the slice it is stamped with.
LEMMA RouteStep ==
  ASSUME NEW dst \in Dsts, NEW slice \in 0..(NSlices - 1),
         NEW paths \in SUBSET Paths(dst, slice), SetRoute(dst, slice, paths)
  PROVE  Routed'
<1>1. NSlices \in Nat  BY ClockTypes DEF NSlices
<1>2. CASE dst \in SameRack
  <2>1. route' = [slice |-> NoSlice, dst |-> dst, path |-> 0, hops |-> 0]
    BY <1>2 DEF SetRoute, NoRoute
  <2>2. QED  BY <1>1, <2>1 DEF Routed, RouteExists, SliceNumbers, NoSlice
<1>3. CASE dst \notin SameRack
  <2>1. PICK path, h :
          /\ path \in paths /\ h = HopCount(dst, slice, path)
          /\ route' = [slice |-> slice, dst |-> dst, path |-> path, hops |-> h]
    BY <1>3 DEF SetRoute
  <2>2. path \in Paths(dst, slice) /\ path \in Nat /\ h \in Nat
    BY <2>1, PathTypes
  <2>3. route' \in [slice : SliceNumbers, dst : Dsts, path : Nat, hops : Nat]
    BY <1>1, <2>1, <2>2 DEF SliceNumbers
  <2>4. /\ route'.slice = slice /\ route'.dst = dst /\ route'.path = path
        /\ route'.hops = h
    BY <2>1
  <2>5. RouteExists'
    BY <2>1, <2>2, <2>4 DEF RouteExists, Paths, HopCount
  <2>6. QED  BY <2>3, <2>5 DEF Routed, SliceNumbers
<1>4. QED  BY <1>2, <1>3

\* The slices are numbered from 0, the present one included.
LEMMA PresentSlice ==
  ASSUME Clocks
  PROVE  CurSlice \in 0..(NSlices - 1)
  BY SliceTypes DEF CurSlice, Clocks

\* With nothing left to send the link rests.
LEMMA NothingLeft ==
  ASSUME Core, NothingToSend({}), now' = now, dataQ' = <<>>, credQ' = <<>>, queueSize' = 0,
         order' = {}, inService' = 0,
         UNCHANGED <<clockVars, lastSlice, nextSeq>>
  PROVE  Core' /\ StartsBest
<1>1. Clocks'  BY DEF Core, Clocks, clockVars
<1>2. Lists'
  <2>1. dataQ' \in Seq(DataRec) /\ credQ' \in Seq(CreditRec) /\ Len(credQ') = 0
    BY EmptySeq
  <2>2. PICK q \in Seq(DataRec) : q = dataQ'  BY <2>1
  <2>3. BytesOf(q) = 0  BY <2>2, DataSizesAreSizes, BytesTypes
  <2>4. Numbered(credQ', nextSeq')  BY <2>1 DEF Numbered
  <2>5. QED  BY <2>2, <2>3, <2>4 DEF Lists, BytesOf, SizeSeq, SumSeq, Numbered
<1>3. ServiceTypes' /\ Serving'
  BY DEF Core, ServiceTypes, Serving, Resting, IsEmpty, NothingToSend
<1>4. Ranking'
  <2>1. ToSet(credQ') = {} /\ txNext' # "CRED"  BY DEF ToSet, NothingToSend
  <2>2. QED  BY <2>1 DEF Ranking, KeysOf, Key, ToSet
<1>5. Recent'  BY DEF Recent, IsEmpty
<1>6. QED  BY <1>1, <1>2, <1>3, <1>4, <1>5 DEF Core, StartsBest

\* The end of a credit's transmission.
LEMMA CompleteCreditStep ==
  ASSUME NICIInv, NEW e \in events, e.at = now, NICCompleteCredit({}),
         UNCHANGED <<now, nextSeq>>
  PROVE  NICIInv' /\ StartsBest
<1>1. Core /\ Clocks /\ Lists /\ Serving /\ ServiceTypes /\ Ranking  BY DEF NICIInv, Core
<1>2. PICK c, cq, st :
        /\ c = SentCredit /\ cq = Kept(credQ, ToSet(credQ) \ {c})
        /\ SetRoute(c.dst, CurSlice,
                    IF c.slice = CurSlice THEN {c.path} ELSE Paths(c.dst, CurSlice))
        /\ IF dataQ = <<>> /\ cq = <<>>
           THEN /\ credQ' = cq /\ inService' = 0 /\ NothingToSend({})
                /\ UNCHANGED <<dataQ, clockVars, order, lastSlice>>
           ELSE NICBeginService(dataQ, cq, order, {}, st)
        /\ UNCHANGED queueSize
  BY DEF NICCompleteCredit
<1>3. c \in ToSet(credQ) /\ c.seq = inService
  <2>1. txNext = "CRED"  BY DEF NICCompleteCredit
  <2>2. \E d \in ToSet(credQ) : d.seq = inService  BY <1>1, <2>1 DEF Ranking
  <2>3. QED  BY <1>2, <2>2 DEF SentCredit
<1>4. \A d \in ToSet(credQ) : d.seq = inService => d = c
  BY <1>1, <1>3, NumbersDiffer DEF Lists
<1>5. Numbered(cq, nextSeq) /\ ToSet(cq) = ToSet(credQ) \ {c}
  <2>1. Numbered(cq, nextSeq) /\ ToSet(cq) = ToSet(credQ) \cap (ToSet(credQ) \ {c})
    BY <1>1, <1>2, NumberedKept DEF Lists
  <2>2. QED  BY <2>1
<1>6. ToSet(cq) = {d \in ToSet(credQ) : d.seq # inService}
  BY <1>3, <1>4, <1>5
<1>7. Selectable(cq, order, lastSlice)
  BY <1>1, <1>6 DEF Selectable, Ranking
<1>8. NoneForgotten(cq)  BY <1>1, <1>5, NothingForgotten
<1>9. Routed'
  <2>1. c \in CreditRec  BY <1>1, <1>3, QueuedCredit DEF Lists
  <2>2. c.dst \in Dsts  BY <2>1 DEF CreditRec
  <2>3. c.slice # NoSlice /\ WellRanked(c)  BY <1>1, <1>3 DEF Ranking
  <2>4. PICK paths : paths = IF c.slice = CurSlice THEN {c.path} ELSE Paths(c.dst, CurSlice)
    OBVIOUS
  <2>5. paths \in SUBSET Paths(c.dst, CurSlice)  BY <2>3, <2>4 DEF WellRanked
  <2>6. CurSlice \in 0..(NSlices - 1)  BY <1>1, PresentSlice
  <2>7. QED  BY <1>2, <2>2, <2>4, <2>5, <2>6, RouteStep
<1>10. Core' /\ StartsBest
  <2>1. CASE dataQ = <<>> /\ cq = <<>>
    <3>1. ToSet(cq) = {}  BY <2>1 DEF ToSet
    <3>2. order = {}  BY <1>7, <3>1 DEF Selectable, KeysOf
    <3>3. queueSize = 0
      BY <1>1, <2>1, DataSizesAreSizes, BytesTypes DEF Lists
    <3>4. QED  BY <1>1, <1>2, <2>1, <3>2, <3>3, NothingLeft
  <2>2. CASE ~ (dataQ = <<>> /\ cq = <<>>)
    <3>1. NICBeginService(dataQ, cq, order, {}, st)  BY <1>2, <2>2
    <3>2. dataQ \in Seq(DataRec) /\ queueSize' = BytesOf(dataQ)
      BY <1>1, <1>2 DEF Lists
    <3>3. Numbered(cq, nextSeq') /\ nextSeq' \in Nat \ {0}
      BY <1>1, <1>5 DEF Clocks
    <3>4. QED  BY <1>1, <1>7, <1>8, <3>1, <3>2, <3>3, NICStartStep
  <2>3. QED  BY <2>1, <2>2
<1>11. QED  BY <1>9, <1>10 DEF NICIInv, Core

\* The end of any other packet's transmission.
LEMMA CompleteDataStep ==
  ASSUME NICIInv, NEW e \in events, e.at = now, dataQ # <<>>, NICCompleteData({}),
         UNCHANGED <<now, nextSeq>>
  PROVE  NICIInv' /\ StartsBest
<1>1. Core /\ Clocks /\ Lists /\ Serving /\ ServiceTypes /\ Ranking  BY DEF NICIInv, Core
<1>2. PICK p, dq, slice :
        /\ p = Head(dataQ) /\ dq = Tail(dataQ)
        /\ slice = (IF p.ts # NoSlice THEN p.ts ELSE CurSlice)
        /\ SetRoute(p.dst, slice, Paths(p.dst, slice))
        /\ queueSize' = queueSize - p.size
        /\ IF dq = <<>> /\ credQ = <<>>
           THEN /\ dataQ' = dq /\ NothingToSend({})
                /\ UNCHANGED <<credQ, creds, clockVars, order, inService, lastSlice>>
           ELSE NICBeginService(dq, credQ, order, {}, creds)
  BY DEF NICCompleteData
<1>3. p \in DataRec /\ dq \in Seq(DataRec) /\ queueSize' = BytesOf(dq)
  <2>1. PICK T : T = DataRec  OBVIOUS
  <2>2. dataQ \in Seq(T) /\ \A d \in T : d.size \in Nat
    BY <1>1, <2>1, DataSizesAreSizes DEF Lists
  <2>3. /\ Head(dataQ) \in T /\ Tail(dataQ) \in Seq(T) /\ Head(dataQ).size \in Nat
        /\ BytesOf(Tail(dataQ)) \in Nat
        /\ BytesOf(dataQ) = Head(dataQ).size + BytesOf(Tail(dataQ))
    BY <2>2, BytesHead
  <2>4. queueSize = BytesOf(dataQ)  BY <1>1 DEF Lists
  <2>5. QED  BY <1>2, <2>1, <2>3, <2>4
<1>4. txNext # "CRED" /\ inService = 0
  BY <1>1 DEF NICCompleteData, Ranking
<1>5. {c \in ToSet(credQ) : c.seq # inService} = ToSet(credQ)
  <2>1. \A c \in ToSet(credQ) : c.seq \in 1..(nextSeq - 1)
    BY <1>1, QueuedCredit DEF Lists
  <2>2. QED  BY <1>4, <2>1
<1>6. Selectable(credQ, order, lastSlice)
  BY <1>1, <1>5 DEF Selectable, Ranking
<1>7. NoneForgotten(credQ)  BY <1>1, NothingForgotten
<1>8. Routed'
  <2>1. p.dst \in Dsts /\ p.ts \in SliceNumbers  BY <1>3 DEF DataRec
  <2>2. CurSlice \in 0..(NSlices - 1) /\ NSlices \in Nat
    BY <1>1, ClockTypes, PresentSlice DEF NSlices
  <2>3. slice \in 0..(NSlices - 1)  BY <1>2, <2>1, <2>2 DEF SliceNumbers, NoSlice
  <2>4. Paths(p.dst, slice) \in SUBSET Paths(p.dst, slice)  OBVIOUS
  <2>5. QED  BY <1>2, <2>1, <2>3, <2>4, RouteStep
<1>9. Core' /\ StartsBest
  <2>1. CASE dq = <<>> /\ credQ = <<>>
    <3>1. ToSet(credQ) = {}  BY <2>1 DEF ToSet
    <3>2. order = {}  BY <1>6, <3>1 DEF Selectable, KeysOf
    <3>3. queueSize' = 0
      BY <1>3, <2>1, DataSizesAreSizes, BytesTypes
    <3>4. QED  BY <1>1, <1>2, <1>4, <2>1, <3>2, <3>3, NothingLeft
  <2>2. CASE ~ (dq = <<>> /\ credQ = <<>>)
    <3>1. NICBeginService(dq, credQ, order, {}, creds)  BY <1>2, <2>2
    <3>2. Numbered(credQ, nextSeq') /\ nextSeq' \in Nat \ {0}
      BY <1>1 DEF Clocks, Lists
    <3>3. QED  BY <1>1, <1>3, <1>6, <1>7, <3>1, <3>2, NICStartStep
  <2>3. QED  BY <2>1, <2>2
<1>10. QED  BY <1>8, <1>9 DEF NICIInv, Core

\* The only event that can be due at nextSchedTx is the end of a transmission.
LEMMA NICTxDoneStep ==
  ASSUME NICIInv, NEW e \in events, NICTxDone(e)
  PROVE  NICIInv' /\ StartsBest
<1>1. e.at = now /\ now = nextSchedTx /\ UNCHANGED <<now, nextSeq>>  BY DEF NICTxDone
<1>2. nextSchedTx # NoPendingTx  BY <1>1 DEF NICIInv, Clocks, NoPendingTx
<1>3. events \ {e} = {} /\ (txNext = "CRED" \/ dataQ # <<>>)
  BY <1>2 DEF NICIInv, Serving, Sending, Waiting, Resting
<1>4. CASE NICCompleteCredit({})
  BY <1>1, <1>4, CompleteCreditStep
<1>5. CASE NICCompleteData({})
  <2>1. dataQ # <<>>  BY <1>3, <1>5 DEF NICCompleteData
  <2>2. QED  BY <1>1, <1>5, <2>1, CompleteDataStep
<1>6. QED  BY <1>3, <1>4, <1>5 DEF NICTxDone

\* The end of the wait for a token.
LEMMA NICCreditTimerStep ==
  ASSUME NICIInv, NEW e \in events, NICCreditTimer(e)
  PROVE  NICIInv' /\ StartsBest
<1>1. Core /\ Clocks /\ Lists /\ Serving /\ ServiceTypes /\ Ranking  BY DEF NICIInv, Core
<1>2. e.at = now /\ now # nextSchedTx  BY DEF NICCreditTimer
<1>3. events \ {e} = {} /\ timerPending /\ txNext = "NONE"
  BY <1>1, <1>2 DEF Serving, Sending, Waiting, Resting, Event
<1>4. /\ NICBeginService(dataQ, credQ, order, {}, creds)
      /\ UNCHANGED <<now, queueSize, nextSeq, route>>
  BY <1>3 DEF NICCreditTimer
<1>5. {c \in ToSet(credQ) : c.seq # inService} = ToSet(credQ)
  <2>1. \A c \in ToSet(credQ) : c.seq \in 1..(nextSeq - 1)
    BY <1>1, QueuedCredit DEF Lists
  <2>2. inService = 0  BY <1>1, <1>3 DEF Ranking
  <2>3. QED  BY <2>1, <2>2
<1>6. Selectable(credQ, order, lastSlice) /\ NoneForgotten(credQ)
  <2>1. Selectable(credQ, order, lastSlice)  BY <1>1, <1>5 DEF Selectable, Ranking
  <2>2. NoneForgotten(credQ)  BY <1>1, <1>2, NothingForgotten
  <2>3. QED  BY <2>1, <2>2
<1>7. /\ dataQ \in Seq(DataRec) /\ queueSize' = BytesOf(dataQ)
      /\ Numbered(credQ, nextSeq') /\ nextSeq' \in Nat \ {0}
  BY <1>1, <1>4 DEF Lists, Clocks
<1>8. Core' /\ StartsBest  BY <1>1, <1>4, <1>6, <1>7, NICStartStep
<1>9. Routed'  BY <1>4 DEF NICIInv, Routed, RouteExists
<1>10. QED  BY <1>8, <1>9 DEF NICIInv, Core

\* Time passes.
LEMMA NICTickStep ==
  ASSUME NICIInv, Tick, UNCHANGED nicVars
  PROVE  NICIInv' /\ StartsBest
<1>1. /\ now' = now + 1 /\ now \in Nat
      /\ UNCHANGED <<dataQ, queueSize, credQ, clockVars, serviceVars, nicVars>>
  BY DEF Tick, NICIInv, Clocks
<1>2. Clocks'  BY <1>1 DEF NICIInv, Clocks, clockVars, nicVars
<1>3. Serving'  BY <1>1, TickServing DEF NICIInv
<1>4. Lists' /\ ServiceTypes'
  BY <1>1 DEF NICIInv, Lists, ServiceTypes, serviceVars, nicVars
<1>5. Ranking' /\ Routed'
  BY <1>1 DEF NICIInv, Ranking, Routed, RouteExists, serviceVars, nicVars
<1>6. Recent'
  <2>1. CASE IsEmpty  BY <1>1, <2>1 DEF Recent, IsEmpty
  <2>2. CASE ~ IsEmpty
    <3>1. PICK t \in Nat, wait \in Waits :
            /\ t <= now /\ lastSlice = TimeToSlice(t)
            /\ \A e \in events : e.at <= t + wait
            /\ \A d \in ToSet(credQ) :
                 d.slice = NoSlice => t <= Arrival(d) /\ Arrival(d) <= now
      BY <2>2 DEF NICIInv, Recent
    <3>2. ASSUME NEW d \in ToSet(credQ), d.slice = NoSlice
          PROVE  t <= Arrival(d) /\ Arrival(d) <= now'
      <4>1. d \in CreditRec  BY QueuedCredit DEF NICIInv, Lists
      <4>2. Arrival(d) \in Int  BY <4>1, CreditQueueAssumption DEF CreditRec, Arrival
      <4>3. QED  BY <1>1, <3>1, <3>2, <4>2
    <3>3. t <= now'  BY <1>1, <3>1
    <3>4. QED  BY <1>1, <3>1, <3>2, <3>3 DEF Recent, serviceVars, nicVars
  <2>3. QED  BY <2>1, <2>2
<1>7. StartsBest  BY <1>1 DEF StartsBest, nicVars
<1>8. QED  BY <1>2, <1>3, <1>4, <1>5, <1>6, <1>7 DEF NICIInv

\* A step that changes nothing.
LEMMA StutterStep ==
  ASSUME NICIInv, UNCHANGED allVars
  PROVE  NICIInv' /\ StartsBest
<1>1. UNCHANGED <<now, dataQ, queueSize, credQ, clockVars, serviceVars, nicVars>>
  BY DEF allVars, vars
<1>2. Clocks' /\ Lists'  BY <1>1 DEF NICIInv, Clocks, Lists, clockVars, nicVars
<1>3. ServiceTypes'  BY <1>1 DEF NICIInv, ServiceTypes, serviceVars
<1>4. Serving'  BY <1>1, SameLink DEF NICIInv
<1>5. Ranking' /\ Routed'
  BY <1>1 DEF NICIInv, Ranking, Routed, RouteExists, serviceVars, nicVars
<1>6. Recent'  BY <1>1 DEF NICIInv, Recent, IsEmpty, serviceVars, nicVars
<1>7. StartsBest  BY <1>1 DEF StartsBest, nicVars
<1>8. QED  BY <1>2, <1>3, <1>4, <1>5, <1>6, <1>7 DEF NICIInv

\* The queue at rest satisfies the invariant.
LEMMA NICInitIInv == NICInit => NICIInv
<1> SUFFICES ASSUME NICInit  PROVE NICIInv
  OBVIOUS
<1> USE DEF NICInit, Init
<1>1. NSlices \in Nat  BY ClockTypes DEF NSlices
<1>2. Clocks  BY <1>1 DEF Clocks, SliceNumbers, NoSlice
<1>3. Lists
  <2>1. dataQ \in Seq(DataRec) /\ credQ \in Seq(CreditRec) /\ Len(credQ) = 0
    BY EmptySeq
  <2>2. BytesOf(dataQ) = 0  BY <2>1, DataSizesAreSizes, BytesTypes
  <2>3. Numbered(credQ, nextSeq)  BY <2>1 DEF Numbered
  <2>4. QED  BY <2>1, <2>2, <2>3 DEF Lists
<1>4. ServiceTypes /\ Serving
  BY DEF ServiceTypes, Serving, Resting, IsEmpty
<1>5. Ranking  BY DEF Ranking, KeysOf, ToSet
<1>6. Routed
  <2>1. (CHOOSE d \in Dsts : TRUE) \in Dsts  BY NICAssumption
  <2>2. QED  BY <1>1, <2>1 DEF Routed, RouteExists, NoRoute, SliceNumbers, NoSlice
<1>7. Recent  BY DEF Recent, IsEmpty
<1>8. QED  BY <1>2, <1>3, <1>4, <1>5, <1>6, <1>7 DEF NICIInv

\* Every action keeps the invariant, and starts only the best credit.
LEMMA NICNextIInv ==
  ASSUME NICIInv, [NICNext]_allVars
  PROVE  NICIInv' /\ StartsBest
<1>1. ASSUME NEW c \in CreditKinds, NEW dst \in Dsts, NICReceiveCredit(c, dst)
      PROVE  NICIInv' /\ StartsBest
  <2>1. CASE (CreditOverflow(c) \/ CreditTentative(c) \/ CreditShaped(c))
             /\ UNCHANGED nicVars
    <3>1. UpdateAvailCredit /\ UNCHANGED <<now, dataQ, queueSize, credQ, serviceVars>>
      BY <2>1 DEF CreditOverflow, CreditTentative, CreditShaped, DropCredit
    <3>2. QED  BY <2>1, <3>1, RefusedStep
  <2>2. CASE NICCreditAdmitted(c, dst)  BY <2>2, CreditAdmittedStep
  <2>3. QED  BY <1>1, <2>1, <2>2 DEF NICReceiveCredit
<1>2. ASSUME NEW p \in DataKinds, NEW dst \in Dsts, NEW ts \in {NoSlice} \cup RealSlices,
             NICReceiveData(p, dst, ts)
      PROVE  NICIInv' /\ StartsBest
  <2>1. CASE (DataOverflow(p) \/ DataUnscheduled(p)) /\ UNCHANGED nicVars
    <3>1. UpdateAvailCredit /\ UNCHANGED <<now, dataQ, queueSize, credQ, serviceVars>>
      BY <2>1 DEF DataOverflow, DataUnscheduled, DropData
    <3>2. QED  BY <2>1, <3>1, RefusedStep
  <2>2. CASE NICDataAdmitted(p, dst, ts)  BY <2>2, DataAdmittedStep
  <2>3. QED  BY <1>2, <2>1, <2>2 DEF NICReceiveData
<1>3. ASSUME NEW e \in events, NICTxDone(e)  PROVE NICIInv' /\ StartsBest
  BY <1>3, NICTxDoneStep
<1>4. ASSUME NEW e \in events, NICCreditTimer(e)  PROVE NICIInv' /\ StartsBest
  BY <1>4, NICCreditTimerStep
<1>5. CASE Tick /\ UNCHANGED nicVars
  BY <1>5, NICTickStep
<1>6. CASE UNCHANGED allVars
  BY <1>6, StutterStep
<1>7. CASE Quiet /\ UNCHANGED nicVars
  <2>1. UNCHANGED allVars  BY <1>7 DEF Quiet, allVars
  <2>2. QED  BY <2>1, StutterStep
<1>8. QED  BY <1>1, <1>2, <1>3, <1>4, <1>5, <1>6, <1>7 DEF NICNext

-----------------------------------------------------------------------------
(* The host queue: theorems *)

\* The invariant behind all that follows holds in every reachable state.
THEOREM NICInvariance == NICSpec => []NICIInv
<1>1. NICIInv /\ [NICNext]_allVars => NICIInv'  BY NICNextIInv
<1>2. QED  BY <1>1, NICInitIInv, PTL DEF NICSpec

\* The ordered set and the queue agree, each rank is the length of a path of
\* the slice of the last selection, and every variable keeps its type: for
\* every topology, clock, load and choice of paths.
THEOREM RankingSound == NICSpec => []NICInv
<1>1. NICIInv => NICInv
  <2> SUFFICES ASSUME NICIInv  PROVE NICInv
    OBVIOUS
  <2>1. Core /\ Clocks /\ Lists /\ Ranking  BY DEF NICIInv, Core
  <2>2. \A c \in ToSet(credQ) : c \in CreditRec /\ c.seq \in 1..(nextSeq - 1)
    BY <2>1, QueuedCredit DEF Lists
  <2>3. order \subseteq Nat \X Nat
    BY <2>1, <2>2 DEF Ranking, KeysOf, Key, CreditRec
  <2>4. NICTypeOK
    <3>1. queueSize \in Nat  BY <2>1, DataSizesAreSizes, BytesTypes DEF Lists
    <3>2. inService \in Nat
      <4>1. inService \in 0..(nextSeq - 1)  BY <2>1, InServiceNumber
      <4>2. QED  BY <2>1, <4>1 DEF Clocks
    <3>3. QED
      BY <2>1, <2>3, <3>1, <3>2
      DEF NICTypeOK, NICIInv, Clocks, Lists, Routed, Numbered, DataRec, CreditRec, SliceNumbers
  <2>5. OrderMatchesQueue
    <3>1. ASSUME NEW i \in DOMAIN credQ, NEW j \in DOMAIN credQ, credQ[i].seq = credQ[j].seq
          PROVE  i = j
      <4>1. credQ \in Seq(CreditRec)  BY <2>1 DEF Lists, Numbered
      <4>2. DOMAIN credQ = 1..Len(credQ) /\ Len(credQ) \in Nat  BY <4>1, Elements
      <4>3. i \in 1..Len(credQ) /\ j \in 1..Len(credQ) /\ i \in Nat /\ j \in Nat
        BY <4>2
      <4>4. credQ[i].seq \in 1..(nextSeq - 1) /\ credQ[j].seq \in 1..(nextSeq - 1)
        BY <2>1, <4>3 DEF Lists, Numbered
      <4>5. ~ (i < j) /\ ~ (j < i)  BY <2>1, <3>1, <4>3, <4>4 DEF Lists, Numbered
      <4>6. QED  BY <4>3, <4>5
    <3>2. (txNext = "CRED") = (\E c \in ToSet(credQ) : c.seq = inService)
      <4>1. txNext = "CRED" => \E c \in ToSet(credQ) : c.seq = inService
        BY <2>1 DEF Ranking
      <4>2. txNext # "CRED" => ~ \E c \in ToSet(credQ) : c.seq = inService
        BY <2>1, <2>2 DEF Ranking
      <4>3. QED  BY <4>1, <4>2
    <3>3. QED  BY <2>1, <3>1, <3>2 DEF OrderMatchesQueue, Ranking
  <2>6. RanksOfOneSlice
    BY <2>1 DEF RanksOfOneSlice, Ranking, WellRanked, RankedFor, Arrival
  <2>7. QED  BY <2>4, <2>5, <2>6 DEF NICInv
<1>2. QED  BY <1>1, NICInvariance, PTL

\* Every packet leaves with a path of the slice it is stamped with.
THEOREM RoutesExist == NICSpec => []RouteExists
<1>1. NICIInv => RouteExists  BY DEF NICIInv, Routed
<1>2. QED  BY <1>1, NICInvariance, PTL

\* A credit that is started is the one with the shortest path in the present
\* slice, the oldest of those, and has not expired.
THEOREM BestFirst == NICSpec => ShortestFirst
<1> DEFINE A == inService' # 0 /\ inService' # inService =>
                  \A c, d \in ToSet(credQ') :
                    c.seq = inService' =>
                      /\ d.slice = CurSlice /\ ~ NICExpired(d)
                      /\ d # c => Before(Key(c), Key(d))
<1>1. NICIInv /\ [NICNext]_allVars => [A]_allVars
  <2> SUFFICES ASSUME NICIInv, [NICNext]_allVars  PROVE A
    OBVIOUS
  <2>1. StartsBest  BY NICNextIInv
  <2>2. QED  BY <2>1 DEF StartsBest, Chosen
<1> HIDE DEF A
<1>2. NICSpec => [][A]_allVars
  BY <1>1, NICInvariance, PTL DEF NICSpec
<1>3. QED  BY <1>2 DEF A, ShortestFirst

\* The queue is never stuck and never has two events outstanding.
THEOREM NICExactlyOneEvent == NICSpec => []OneWakeUp
<1>1. NICIInv => OneWakeUp
  BY DEF NICIInv, Serving, Sending, Waiting, Resting, IsEmpty, OneWakeUp
<1>2. QED  BY <1>1, NICInvariance, PTL

=============================================================================
