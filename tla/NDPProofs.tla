------------------------------ MODULE NDPProofs -------------------------------
(***************************************************************************)
(* Theorems about NDP as MCNDP puts the two simulators together, for every *)
(* size of flow and window and any number of faults: no packet is in two   *)
(* places, none that the sink misses is forgotten, no more are in the      *)
(* network than the receiver asked for, and the flow keeps the promise of  *)
(* FlowTransfer.                                                           *)
(*                                                                         *)
(* The proofs look at where the numbers of the packets are: in the network *)
(* (Carries), in an answer on its way back (Answered), in the queue of     *)
(* retransmissions, or with a timer.                                       *)
(***************************************************************************)
EXTENDS MCNDP, PacketListFacts, FiniteSetTheorems

-----------------------------------------------------------------------------
(* Lists without repetition *)

Injective(s) == \A i, j \in 1..Len(s) : s[i] = s[j] => i = j
Distinct(T, s) == s \in Seq(T) /\ Injective(s)

\* What is said of sets of a list's elements in the model.
LEMMA ToSetIsMembers ==
  ASSUME NEW T, NEW s \in Seq(T)
  PROVE  ToSet(s) = Members(s) /\ Members(s) \subseteq T /\ Len(s) \in Nat
<1>1. Len(s) \in Nat /\ DOMAIN s = 1..Len(s)  BY LenProperties
<1>2. \A i \in 1..Len(s) : s[i] \in T  BY ElementOfSeq
<1>3. QED  BY <1>1, <1>2 DEF ToSet, Members

\* Two lists without a common element, one after the other.
LEMMA ConcatDistinct ==
  ASSUME NEW T, NEW s, NEW t, Distinct(T, s), Distinct(T, t),
         Members(s) \cap Members(t) = {}
  PROVE  Distinct(T, s \o t) /\ Members(s \o t) = Members(s) \cup Members(t)
<1>1. /\ s \in Seq(T) /\ t \in Seq(T) /\ s \o t \in Seq(T)
      /\ Len(s \o t) = Len(s) + Len(t) /\ Len(s) \in Nat /\ Len(t) \in Nat
      /\ \A i \in 1..(Len(s) + Len(t)) :
           (s \o t)[i] = IF i <= Len(s) THEN s[i] ELSE t[i - Len(s)]
  BY ConcatProperties, LenProperties DEF Distinct
<1>2. PICK u : \E m, n \in Nat : u = s \o t /\ m = Len(s) /\ n = Len(t)  BY <1>1
<1>3. PICK m, n \in Nat : u = s \o t /\ m = Len(s) /\ n = Len(t)  BY <1>2
<1>4. \A i \in 1..(m + n) : \/ i \in 1..m /\ u[i] = s[i]
                            \/ i > m /\ i - m \in 1..n /\ u[i] = t[i - m]
  BY <1>1, <1>3
<1>5. \A i \in 1..m, j \in 1..n : s[i] # t[j]  BY <1>3 DEF Members
<1>6. ASSUME NEW i \in 1..(m + n), NEW j \in 1..(m + n), u[i] = u[j]  PROVE i = j
  <2>1. CASE i \in 1..m /\ u[i] = s[i] /\ j \in 1..m /\ u[j] = s[j]
    BY <1>3, <1>6, <2>1 DEF Distinct, Injective
  <2>2. CASE i > m /\ i - m \in 1..n /\ u[i] = t[i - m] /\ j > m /\ j - m \in 1..n /\ u[j] = t[j - m]
    <3>1. i - m = j - m  BY <1>3, <1>6, <2>2 DEF Distinct, Injective
    <3>2. QED  BY <3>1
  <2>3. CASE i \in 1..m /\ u[i] = s[i] /\ j > m /\ j - m \in 1..n /\ u[j] = t[j - m]
    BY <1>5, <1>6, <2>3
  <2>4. CASE j \in 1..m /\ u[j] = s[j] /\ i > m /\ i - m \in 1..n /\ u[i] = t[i - m]
    BY <1>5, <1>6, <2>4
  <2>5. QED  BY <1>4, <2>1, <2>2, <2>3, <2>4
<1>7. Members(u) \subseteq Members(s) \cup Members(t)
  BY <1>1, <1>3, <1>4 DEF Members
<1>8. ASSUME NEW i \in 1..m  PROVE s[i] \in Members(u)
  <2>1. i \in 1..(m + n) /\ u[i] = s[i]  BY <1>4
  <2>2. QED  BY <1>1, <1>3, <2>1 DEF Members
<1>9. ASSUME NEW i \in 1..n  PROVE t[i] \in Members(u)
  <2>1. m + i \in 1..(m + n) /\ (m + i) - m = i /\ ~ (m + i <= m)  OBVIOUS
  <2>2. u[m + i] = t[i]  BY <1>1, <1>3, <2>1
  <2>3. QED  BY <1>1, <1>3, <2>1, <2>2 DEF Members
<1>10. Members(u) = Members(s) \cup Members(t)
  BY <1>3, <1>7, <1>8, <1>9 DEF Members
<1>11. QED  BY <1>1, <1>3, <1>6, <1>10 DEF Distinct, Injective

\* A list of one element.
LEMMA SingletonDistinct ==
  ASSUME NEW T, NEW e \in T
  PROVE  Distinct(T, <<e>>) /\ Members(<<e>>) = {e}
<1>1. <<e>> \in Seq(T) /\ Len(<<e>>) = 1 /\ <<e>>[1] = e  OBVIOUS
<1>2. 1..1 = {1}  OBVIOUS
<1>3. QED  BY <1>1, <1>2 DEF Distinct, Injective, Members

\* The empty list.
LEMMA EmptyDistinct ==
  ASSUME NEW T
  PROVE  Distinct(T, <<>>) /\ Members(<<>>) = {} /\ <<>> \in Seq(T)
BY EmptySeq DEF Distinct, Injective, Members

\* A list and its first elements, and the others.
LEMMA SplitDistinct ==
  ASSUME NEW T, NEW s, Distinct(T, s), NEW k \in 0..Len(s)
  PROVE  /\ Distinct(T, SubSeq(s, 1, k)) /\ Distinct(T, SubSeq(s, k + 1, Len(s)))
         /\ Len(SubSeq(s, 1, k)) = k
         /\ Members(SubSeq(s, k + 1, Len(s))) = Members(s) \ Members(SubSeq(s, 1, k))
         /\ Members(SubSeq(s, 1, k)) = {s[i] : i \in 1..k}
         /\ Members(SubSeq(s, 1, k)) \subseteq Members(s)
<1>1. s \in Seq(T) /\ Len(s) \in Nat /\ \A i \in 1..Len(s) : s[i] \in T
  BY LenProperties, ElementOfSeq DEF Distinct
<1>2. PICK n \in Nat : n = Len(s)  BY <1>1
<1>3. PICK a, b : a = SubSeq(s, 1, k) /\ b = SubSeq(s, k + 1, n)  OBVIOUS
<1>4. /\ a \in Seq(T) /\ Len(a) = k /\ \A i \in 1..k : a[i] = s[i]
  <2>1. \A i \in 1..k : s[i] \in T  BY <1>1, <1>2
  <2>2. /\ SubSeq(s, 1, k) \in Seq(T)
        /\ Len(SubSeq(s, 1, k)) = IF 1 <= k THEN k - 1 + 1 ELSE 0
        /\ \A i \in 1..(k - 1 + 1) : SubSeq(s, 1, k)[i] = s[1 + i - 1]
    BY <1>2, <2>1, SubSeqProperties
  <2>3. k - 1 + 1 = k /\ \A i \in 1..k : 1 + i - 1 = i  BY <1>2
  <2>4. QED  BY <1>2, <1>3, <2>2, <2>3
<1>5. /\ b \in Seq(T) /\ Len(b) = n - k /\ \A i \in 1..(n - k) : b[i] = s[k + i]
  <2>1. \A i \in (k + 1)..n : s[i] \in T  BY <1>1, <1>2
  <2>2. /\ SubSeq(s, k + 1, n) \in Seq(T)
        /\ Len(SubSeq(s, k + 1, n)) = IF k + 1 <= n THEN n - (k + 1) + 1 ELSE 0
        /\ \A i \in 1..(n - (k + 1) + 1) : SubSeq(s, k + 1, n)[i] = s[(k + 1) + i - 1]
    BY <1>2, <2>1, SubSeqProperties
  <2>3. n - (k + 1) + 1 = n - k /\ \A i \in 1..(n - k) : (k + 1) + i - 1 = k + i  BY <1>2
  <2>4. QED  BY <1>2, <1>3, <2>2, <2>3
<1>6. \A i, j \in 1..n : s[i] = s[j] => i = j  BY <1>2 DEF Distinct, Injective
<1>7. Injective(a)  BY <1>2, <1>4, <1>6 DEF Injective
<1>8. Injective(b)
  <2>1. ASSUME NEW i \in 1..(n - k), NEW j \in 1..(n - k), b[i] = b[j]  PROVE i = j
    <3>1. k + i \in 1..n /\ k + j \in 1..n /\ s[k + i] = s[k + j]  BY <1>2, <1>5, <2>1
    <3>2. k + i = k + j  BY <1>6, <3>1
    <3>3. QED  BY <1>2, <3>2
  <2>2. QED  BY <1>5, <2>1 DEF Injective
<1>9. Members(a) = {s[i] : i \in 1..k}  BY <1>4 DEF Members
<1>10. Members(b) = Members(s) \ Members(a)
  <2>1. ASSUME NEW i \in 1..(n - k)  PROVE b[i] \in Members(s) \ Members(a)
    <3>1. k + i \in 1..n /\ b[i] = s[k + i] /\ \A j \in 1..k : j # k + i /\ j \in 1..n
      BY <1>2, <1>5
    <3>2. QED  BY <1>2, <1>6, <1>9, <3>1 DEF Members
  <2>2. ASSUME NEW i \in 1..n, s[i] \notin Members(a)  PROVE s[i] \in Members(b)
    <3>1. i \notin 1..k  BY <1>9, <2>2
    <3>2. i - k \in 1..(n - k) /\ k + (i - k) = i  BY <1>2, <3>1
    <3>3. b[i - k] = s[i]  BY <1>5, <3>2
    <3>4. QED  BY <1>5, <3>2, <3>3 DEF Members
  <2>3. Members(b) \subseteq Members(s) \ Members(a)  BY <1>5, <2>1 DEF Members
  <2>4. Members(s) \ Members(a) \subseteq Members(b)
    <3>1. SUFFICES ASSUME NEW x \in Members(s) \ Members(a)  PROVE x \in Members(b)
      OBVIOUS
    <3>2. PICK i \in 1..n : x = s[i]  BY <1>2 DEF Members
    <3>3. QED  BY <2>2, <3>1, <3>2
  <2>5. QED  BY <2>3, <2>4
<1>11. Members(a) \subseteq Members(s)
  <2>1. 1..k \subseteq 1..n  BY <1>2
  <2>2. QED  BY <1>2, <1>9, <2>1 DEF Members
<1>12. QED  BY <1>2, <1>3, <1>4, <1>5, <1>7, <1>8, <1>9, <1>10, <1>11 DEF Distinct

\* What is left when some elements leave a list.
LEMMA WithoutDistinct ==
  ASSUME NEW T, NEW s, Distinct(T, s), NEW S
  PROVE  Distinct(T, Without(s, S)) /\ Members(Without(s, S)) = Members(s) \ S
<1>1. s \in Seq(T) /\ ToSet(s) = Members(s)  BY ToSetIsMembers DEF Distinct
<1>2. PICK k : k = Without(s, S)  OBVIOUS
<1>3. k = Kept(s, ToSet(s) \ S)  BY <1>2 DEF Without
<1>4. /\ k \in Seq(T) /\ Len(s) \in Nat /\ Len(k) \in Nat
      /\ Members(k) = Members(s) \cap (ToSet(s) \ S) /\ InOrderOf(k, s)
  BY <1>1, <1>3, KeptElements
<1>5. ASSUME NEW i \in 1..Len(k), NEW j \in 1..Len(k), i < j  PROVE k[i] # k[j]
  <2>1. PICK a, b \in 1..Len(s) : a < b /\ k[i] = s[a] /\ k[j] = s[b]
    BY <1>4, <1>5 DEF InOrderOf
  <2>2. a # b  BY <1>4, <2>1
  <2>3. QED  BY <2>1, <2>2 DEF Distinct, Injective
<1>6. Injective(k)
  <2>1. ASSUME NEW i \in 1..Len(k), NEW j \in 1..Len(k), k[i] = k[j]  PROVE i = j
    <3>1. ~ (i < j) /\ ~ (j < i)  BY <1>5, <2>1
    <3>2. QED  BY <1>4, <3>1
  <2>2. QED  BY <2>1 DEF Injective
<1>7. QED  BY <1>1, <1>2, <1>4, <1>6 DEF Distinct

-----------------------------------------------------------------------------
(* The network: every packet in it once *)

Numbers == 1..FlowPackets
Forms   == {"data", "header", "bounced"}
Packets == [no : Numbers, form : Forms]

Carries(N) == {p.no : p \in DOMAIN N}
Headers(N) == {p \in DOMAIN N : p.form = "header"}

NetOK(N) ==
  /\ DOMAIN N \subseteq Packets /\ IsFiniteSet(DOMAIN N)
  /\ N = [p \in DOMAIN N |-> 1]
  /\ \A p, q \in DOMAIN N : p.no = q.no => p = q

\* Sets of data packets, by their numbers.
DataOf(B) == {Packet(b, "data") : b \in B}

\* A set of data packets is no larger than that of their numbers.
LEMMA DataCount ==
  ASSUME NEW B, IsFiniteSet(B)
  PROVE  IsFiniteSet(DataOf(B)) /\ Cardinality(DataOf(B)) <= Cardinality(B)
<1>1. PICK f : f = [b \in B |-> Packet(b, "data")]  OBVIOUS
<1>2. f \in Surjection(B, DataOf(B))  BY <1>1 DEF Surjection, DataOf
<1>3. QED  BY <1>2, FS_Surjection

\* A list has no more elements than places.
LEMMA MembersCount ==
  ASSUME NEW T, NEW s \in Seq(T)
  PROVE  IsFiniteSet(Members(s)) /\ Cardinality(Members(s)) <= Len(s)
         /\ Cardinality(Members(s)) \in Nat
<1>1. Len(s) \in Nat /\ s \in [1..Len(s) -> T]  BY LenProperties
<1>2. s \in Surjection(1..Len(s), Members(s))  BY <1>1 DEF Surjection, Members
<1>3. IsFiniteSet(1..Len(s)) /\ Cardinality(1..Len(s)) = Len(s)  BY <1>1, FS_Interval
<1>4. QED  BY <1>1, <1>2, <1>3, FS_Surjection, FS_CardinalityType

\* Data packets in a bag, one for each element of a list.
LEMMA BagOfBatch ==
  ASSUME NEW T, NEW s, Distinct(T, s), NEW t, DOMAIN t = 1..Len(s),
         \A i \in 1..Len(s) : t[i] = Packet(s[i], "data")
  PROVE  BagOfSeq(t) = [p \in DataOf(Members(s)) |-> 1]
<1>1. ToSet(t) = DataOf(Members(s))  BY DEF ToSet, DataOf, Members
<1>2. ASSUME NEW p \in ToSet(t)  PROVE Cardinality({i \in DOMAIN t : t[i] = p}) = 1
  <2>1. PICK j \in 1..Len(s) : t[j] = p  BY <1>2 DEF ToSet
  <2>2. \A i \in 1..Len(s) : t[i] = p => s[i] = s[j]  BY <2>1 DEF Packet
  <2>3. \A i \in 1..Len(s) : t[i] = p => i = j  BY <2>2 DEF Distinct, Injective
  <2>4. {i \in DOMAIN t : t[i] = p} = {j}  BY <2>1, <2>3
  <2>5. QED  BY <2>4, FS_Singleton
<1>3. BagOfSeq(t) = [p \in ToSet(t) |-> 1]  BY <1>2 DEF BagOfSeq
<1>4. QED  BY <1>1, <1>3

\* New data packets enter the network.
LEMMA NetSend ==
  ASSUME NEW N, NetOK(N), NEW B, B \subseteq Numbers, IsFiniteSet(B),
         B \cap Carries(N) = {},
         NEW M, M = N (+) [p \in DataOf(B) |-> 1]
  PROVE  /\ NetOK(M) /\ Carries(M) = Carries(N) \cup B
         /\ Cardinality(DOMAIN M) <= Cardinality(DOMAIN N) + Cardinality(B)
         /\ Headers(M) = Headers(N)
<1>1. DOMAIN M = DOMAIN N \cup DataOf(B)  BY DEF (+)
<1>2. \A p \in DataOf(B) : p \in Packets /\ p.no \in B /\ p.form = "data"
  BY DEF DataOf, Packet, Packets, Forms
<1>3. \A p \in DOMAIN N : p \notin DataOf(B) /\ p.no \notin B /\ N[p] = 1
  BY <1>2 DEF Carries, NetOK
<1>4. M = [p \in DOMAIN M |-> 1]
  <2>1. \A p \in DOMAIN M : \/ p \in DOMAIN N /\ p \notin DataOf(B) /\ N[p] = 1
                            \/ p \notin DOMAIN N /\ p \in DataOf(B)
    BY <1>1, <1>3
  <2>2. \A p \in DOMAIN M :
          (IF p \in DOMAIN N THEN N[p] ELSE 0) +
          (IF p \in DOMAIN [q \in DataOf(B) |-> 1] THEN [q \in DataOf(B) |-> 1][p] ELSE 0) = 1
    BY <2>1
  <2>3. QED  BY <1>1, <2>2 DEF (+)
<1>5. \A p, q \in DataOf(B) : p.no = q.no => p = q  BY DEF DataOf, Packet
<1>6. \A p, q \in DOMAIN M : p.no = q.no => p = q
  <2>1. \A p, q \in DOMAIN N : p.no = q.no => p = q  BY DEF NetOK
  <2>2. QED  BY <1>1, <1>2, <1>3, <1>5, <2>1
<1>7. /\ IsFiniteSet(DOMAIN M)
      /\ Cardinality(DOMAIN M) <= Cardinality(DOMAIN N) + Cardinality(B)
  <2>1. /\ IsFiniteSet(DOMAIN N) /\ IsFiniteSet(DataOf(B))
        /\ Cardinality(DataOf(B)) <= Cardinality(B)
    BY DataCount DEF NetOK
  <2>2. DOMAIN N \cap DataOf(B) = {}  BY <1>3
  <2>3. /\ IsFiniteSet(DOMAIN M)
        /\ Cardinality(DOMAIN M) = Cardinality(DOMAIN N) + Cardinality(DataOf(B)) - 0
    BY <1>1, <2>1, <2>2, FS_Union, FS_EmptySet
  <2>4. /\ Cardinality(DOMAIN N) \in Nat /\ Cardinality(DataOf(B)) \in Nat
        /\ Cardinality(B) \in Nat
    BY <2>1, FS_CardinalityType
  <2>5. QED  BY <2>1, <2>3, <2>4
<1>8. Carries(M) = Carries(N) \cup B
  <2>1. \A b \in B : Packet(b, "data") \in DataOf(B) /\ Packet(b, "data").no = b
    BY DEF DataOf, Packet
  <2>2. QED  BY <1>1, <1>2, <2>1 DEF Carries
<1>9. Headers(M) = Headers(N)  BY <1>1, <1>2 DEF Headers
<1>10. DOMAIN M \subseteq Packets  BY <1>1, <1>2 DEF NetOK
<1>11. QED  BY <1>4, <1>6, <1>7, <1>8, <1>9, <1>10 DEF NetOK

\* A packet leaves the network.
LEMMA NetRemove ==
  ASSUME NEW N, NetOK(N), NEW p \in DOMAIN N, NEW M, M = N (-) One(p)
  PROVE  /\ NetOK(M) /\ p.no \in Carries(N) /\ Carries(M) = Carries(N) \ {p.no}
         /\ DOMAIN M = DOMAIN N \ {p} /\ Headers(M) = Headers(N) \ {p}
         /\ Cardinality(DOMAIN M) = Cardinality(DOMAIN N) - 1
         /\ Cardinality(DOMAIN M) \in Nat
<1>1. N[p] = 1  BY DEF NetOK
<1>2. PICK L : L = [e \in DOMAIN N |-> IF e \in {p} THEN N[e] - 1 ELSE N[e]]  OBVIOUS
<1>3. M = [e \in {d \in DOMAIN L : L[d] > 0} |-> L[e]]
  <2>1. DOMAIN One(p) = {p} /\ One(p)[p] = 1  BY DEF One, SetToBag
  <2>2. L = [e \in DOMAIN N |-> IF e \in DOMAIN One(p) THEN N[e] - One(p)[e] ELSE N[e]]
    BY <1>2, <2>1
  <2>3. QED  BY <2>2 DEF (-)
<1>4. DOMAIN L = DOMAIN N /\ \A e \in DOMAIN N : L[e] = IF e = p THEN 0 ELSE 1
  BY <1>1, <1>2 DEF NetOK
<1>5. DOMAIN M = DOMAIN N \ {p} /\ \A e \in DOMAIN M : M[e] = 1  BY <1>3, <1>4
<1>6. M = [e \in DOMAIN M |-> 1]  BY <1>3, <1>5
<1>7. /\ IsFiniteSet(DOMAIN M) /\ Cardinality(DOMAIN M) = Cardinality(DOMAIN N) - 1
      /\ Cardinality(DOMAIN M) \in Nat
  BY <1>5, FS_RemoveElement, FS_CardinalityType DEF NetOK
<1>8. Carries(M) = Carries(N) \ {p.no}  BY <1>5 DEF Carries, NetOK
<1>9. QED  BY <1>5, <1>6, <1>7, <1>8 DEF NetOK, Carries, Headers

\* A packet takes another form.
LEMMA NetReform ==
  ASSUME NEW N, NetOK(N), NEW p \in DOMAIN N, NEW form \in Forms, NEW M,
         M = (N (-) One(p)) (+) One(Packet(p.no, form))
  PROVE  /\ NetOK(M) /\ Carries(M) = Carries(N)
         /\ Cardinality(DOMAIN M) = Cardinality(DOMAIN N)
         /\ Headers(M) = (Headers(N) \ {p})
                           \cup {q \in {Packet(p.no, form)} : form = "header"}
<1>1. PICK L : L = N (-) One(p)  OBVIOUS
<1>2. PICK q : q = Packet(p.no, form)  OBVIOUS
<1>3. /\ NetOK(L) /\ p.no \in Carries(N) /\ Carries(L) = Carries(N) \ {p.no}
      /\ Headers(L) = Headers(N) \ {p}
      /\ Cardinality(DOMAIN L) = Cardinality(DOMAIN N) - 1 /\ Cardinality(DOMAIN L) \in Nat
  BY <1>1, NetRemove, ZenonT(60)
<1>4. q \in Packets /\ q.no = p.no /\ q.form = form
  BY <1>2 DEF Packet, Packets, NetOK
<1>5. q \notin DOMAIN L  BY <1>3, <1>4 DEF Carries
<1>6. M = [e \in DOMAIN L \cup {q} |->
             (IF e \in DOMAIN L THEN L[e] ELSE 0) + (IF e = q THEN 1 ELSE 0)]
  <2>1. DOMAIN One(q) = {q} /\ One(q)[q] = 1  BY DEF One, SetToBag
  <2>2. M = [e \in DOMAIN L \cup DOMAIN One(q) |->
               (IF e \in DOMAIN L THEN L[e] ELSE 0)
                 + (IF e \in DOMAIN One(q) THEN One(q)[e] ELSE 0)]
    BY <1>1, <1>2 DEF (+)
  <2>3. QED  BY <2>1, <2>2
<1>7. DOMAIN M = DOMAIN L \cup {q} /\ \A e \in DOMAIN M : M[e] = 1
  <2>1. \A e \in DOMAIN L : L[e] = 1  BY <1>3 DEF NetOK
  <2>2. QED  BY <1>5, <1>6, <2>1
<1>8. M = [e \in DOMAIN M |-> 1]  BY <1>6, <1>7
<1>9. /\ IsFiniteSet(DOMAIN M) /\ Cardinality(DOMAIN M) = Cardinality(DOMAIN L) + 1
  BY <1>3, <1>5, <1>7, FS_AddElement DEF NetOK
<1>10. \A a, b \in DOMAIN M : a.no = b.no => a = b
  <2>1. \A a \in DOMAIN L : a.no # q.no  BY <1>3, <1>4 DEF Carries
  <2>2. QED  BY <1>3, <1>7, <2>1 DEF NetOK
<1>11. Carries(M) = Carries(L) \cup {p.no}  BY <1>4, <1>7 DEF Carries
<1>12. Headers(M) = Headers(L) \cup {x \in {q} : form = "header"}
  BY <1>4, <1>7 DEF Headers
<1>13. Cardinality(DOMAIN N) \in Nat  BY FS_CardinalityType DEF NetOK
<1>14. QED
  BY <1>2, <1>3, <1>4, <1>7, <1>8, <1>9, <1>10, <1>11, <1>12, <1>13 DEF NetOK

-----------------------------------------------------------------------------
(* The feedback: an answer for each packet at most *)

AnswerType == [kind : {"ack", "nack"}, packet : Numbers, cum : 0..FlowPackets,
               no : Nat, pull : BOOLEAN]
PullType   == [kind : {"pull"}, no : Nat]

Answers(F)  == {f \in F : f.kind # "pull"}
Answered(F) == {f.packet : f \in Answers(F)}
Nacks(F)    == {f \in F : f.kind = "nack"}

FeedbackOK(F) ==
  /\ F \subseteq AnswerType \cup PullType /\ IsFiniteSet(F)
  /\ \A f, g \in Answers(F) : f.packet = g.packet => f = g

\* Feedback is taken by the source, or lost.
LEMMA FeedbackRemove ==
  ASSUME NEW F, FeedbackOK(F), NEW f \in F, NEW G, G = F \ {f}
  PROVE  /\ FeedbackOK(G)
         /\ f.kind # "pull" => f.packet \in Answered(F) /\ Answered(G) = Answered(F) \ {f.packet}
         /\ f.kind = "pull" => Answered(G) = Answered(F)
         /\ Cardinality(Nacks(G)) \in Nat
         /\ Cardinality(Nacks(F)) = Cardinality(Nacks(G)) + (IF f.kind = "nack" THEN 1 ELSE 0)
<1>1. FeedbackOK(G)  BY FS_RemoveElement DEF FeedbackOK, Answers
<1>2. Answers(G) = Answers(F) \ {f}  BY DEF Answers
<1>3. ASSUME f.kind # "pull"
      PROVE  f.packet \in Answered(F) /\ Answered(G) = Answered(F) \ {f.packet}
  <2>1. f \in Answers(F)  BY <1>3 DEF Answers
  <2>2. QED  BY <1>2, <2>1 DEF Answered, FeedbackOK
<1>4. ASSUME f.kind = "pull"  PROVE Answered(G) = Answered(F)
  BY <1>4 DEF Answered, Answers
<1>5. Nacks(G) = Nacks(F) \ {f} /\ (f \in Nacks(F) <=> f.kind = "nack")  BY DEF Nacks
<1>6. IsFiniteSet(Nacks(F))  BY FS_Subset DEF Nacks, FeedbackOK
<1>7. /\ IsFiniteSet(Nacks(G))
      /\ Cardinality(Nacks(G)) = IF f \in Nacks(F) THEN Cardinality(Nacks(F)) - 1
                                 ELSE Cardinality(Nacks(F))
  BY <1>5, <1>6, FS_RemoveElement
<1>8. Cardinality(Nacks(F)) \in Nat /\ Cardinality(Nacks(G)) \in Nat
  BY <1>6, <1>7, FS_CardinalityType
<1>9. Cardinality(Nacks(F)) = Cardinality(Nacks(G)) + (IF f.kind = "nack" THEN 1 ELSE 0)
  BY <1>5, <1>7, <1>8
<1>10. QED  BY <1>1, <1>3, <1>4, <1>8, <1>9

\* A pull goes to the source.
LEMMA FeedbackPull ==
  ASSUME NEW F, FeedbackOK(F), NEW f \in PullType, NEW G, G = F \cup {f}
  PROVE  FeedbackOK(G) /\ Answered(G) = Answered(F) /\ Nacks(G) = Nacks(F)
<1>1. f.kind = "pull"  BY DEF PullType
<1>2. Answers(G) = Answers(F) /\ Nacks(G) = Nacks(F)  BY <1>1 DEF Answers, Nacks
<1>3. IsFiniteSet(G)  BY FS_AddElement DEF FeedbackOK
<1>4. QED  BY <1>2, <1>3 DEF FeedbackOK, Answered

\* The answer to a packet goes to the source.
LEMMA FeedbackAdd ==
  ASSUME NEW F, FeedbackOK(F), NEW a \in AnswerType, a.packet \notin Answered(F),
         NEW G, G = F \cup {a}
  PROVE  /\ FeedbackOK(G) /\ Answered(G) = Answered(F) \cup {a.packet}
         /\ Cardinality(Nacks(F)) \in Nat /\ Cardinality(Nacks(G)) \in Nat
         /\ Cardinality(Nacks(G)) <= Cardinality(Nacks(F)) + (IF a.kind = "nack" THEN 1 ELSE 0)
<1>1. a.kind # "pull"  BY DEF AnswerType
<1>2. Answers(G) = Answers(F) \cup {a}  BY <1>1 DEF Answers
<1>3. IsFiniteSet(G)  BY FS_AddElement DEF FeedbackOK
<1>4. \A g \in Answers(F) : g.packet # a.packet  BY DEF Answered
<1>5. FeedbackOK(G)
  <2>1. \A f, g \in Answers(G) : f.packet = g.packet => f = g
    BY <1>2, <1>4 DEF FeedbackOK
  <2>2. QED  BY <1>3, <2>1 DEF FeedbackOK
<1>6. Answered(G) = Answered(F) \cup {a.packet}  BY <1>2 DEF Answered
<1>7. IsFiniteSet(Nacks(F))  BY FS_Subset DEF Nacks, FeedbackOK
<1>8. Cardinality(Nacks(F)) \in Nat  BY <1>7, FS_CardinalityType
<1>9. CASE a.kind = "nack"
  <2>1. Nacks(G) = Nacks(F) \cup {a}  BY <1>9 DEF Nacks
  <2>2. /\ IsFiniteSet(Nacks(G))
        /\ Cardinality(Nacks(G)) = IF a \in Nacks(F) THEN Cardinality(Nacks(F))
                                   ELSE Cardinality(Nacks(F)) + 1
    BY <1>7, <2>1, FS_AddElement, ZenonT(30)
  <2>3. Cardinality(Nacks(G)) \in Nat  BY <2>2, FS_CardinalityType
  <2>4. QED  BY <1>5, <1>6, <1>8, <1>9, <2>2, <2>3
<1>10. CASE a.kind # "nack"
  <2>1. Nacks(G) = Nacks(F)  BY <1>10 DEF Nacks
  <2>2. (IF a.kind = "nack" THEN 1 ELSE 0) = 0  BY <1>10
  <2>3. \A n \in Nat : n <= n + 0  OBVIOUS
  <2>4. QED  BY <1>5, <1>6, <1>8, <2>1, <2>2, <2>3
<1>11. QED  BY <1>9, <1>10

-----------------------------------------------------------------------------
(* send_packet *)

\* The packets B have been sent: N, R and S are the network, the queue of
\* retransmissions and the timers before.
SentBatch(B, N, R, S) ==
  /\ B \subseteq Numbers /\ IsFiniteSet(B) /\ B \cap Carries(N) = {}
  /\ NetOK(net') /\ Carries(net') = Carries(N) \cup B
  /\ Cardinality(DOMAIN net') <= Cardinality(DOMAIN N) + Cardinality(B)
  /\ Headers(net') = Headers(N)
  /\ Distinct(Numbers, rtxQueue') /\ Members(rtxQueue') = Members(R) \ B
  /\ Distinct(Numbers, sentTimes') /\ Members(sentTimes') = Members(S) \cup B
  /\ highestSent' \in highestSent..FlowPackets
  /\ B \subseteq Members(R) \cup (highestSent + 1)..highestSent'
  /\ (highestSent + 1)..highestSent' \subseteq B

\* The new packets of a batch.
LEMMA NewNumbers ==
  ASSUME NEW h \in Nat, NEW n \in Nat, h + n <= FlowPackets, NEW s,
         s = [i \in 1..n |-> h + i]
  PROVE  Distinct(Numbers, s) /\ Len(s) = n /\ Members(s) = (h + 1)..(h + n)
<1>1. FlowPackets \in Nat  BY NDPAssumption
<1>2. \A i \in 1..n : h + i \in Numbers  BY <1>1 DEF Numbers
<1>3. s \in Seq(Numbers) /\ Len(s) = n
  <2>1. s \in [1..n -> Numbers]  BY <1>2
  <2>2. s \in Seq(Numbers)  BY <2>1, SeqDef
  <2>3. QED  BY <2>1, <2>2, LenProperties
<1>4. Injective(s)  BY <1>3 DEF Injective
<1>5. Members(s) = (h + 1)..(h + n)
  <2>1. \A i \in 1..n : s[i] \in (h + 1)..(h + n)  BY <1>3
  <2>2. ASSUME NEW x \in (h + 1)..(h + n)  PROVE \E i \in 1..n : s[i] = x
    <3>1. x - h \in 1..n /\ h + (x - h) = x  OBVIOUS
    <3>2. QED  BY <3>1
  <2>3. QED  BY <1>3, <2>1, <2>2 DEF Members
<1>6. QED  BY <1>3, <1>4, <1>5 DEF Distinct

\* k calls of send_packet send at most k packets, none of them twice: those
\* at the front of the queue and the next new ones.
LEMMA SendsBatch ==
  ASSUME NEW N, NetOK(N), NEW R, Distinct(Numbers, R), NEW S, Distinct(Numbers, S),
         NEW k \in Nat, highestSent \in 0..FlowPackets,
         Members(R) \cap Carries(N) = {}, Members(R) \cup Carries(N) \subseteq 1..highestSent,
         Sends(k, R, N, S)
  PROVE  \E B : SentBatch(B, N, R, S) /\ Cardinality(B) \in 0..k
<1>1. FlowPackets \in Nat /\ highestSent \in Nat /\ highestSent <= FlowPackets
  BY NDPAssumption
<1>2. R \in Seq(Numbers) /\ Len(R) \in Nat  BY LenProperties DEF Distinct
<1>3. PICK old \in Nat : old = LesserOf(k, Len(R))  BY <1>2 DEF LesserOf
<1>4. old \in 0..Len(R) /\ old <= k  BY <1>2, <1>3 DEF LesserOf
<1>5. PICK new \in Nat : new = New(k - old)
  <2>1. k - old \in Nat /\ FlowPackets - highestSent \in Nat  BY <1>1, <1>4
  <2>2. New(k - old) \in Nat  BY <2>1 DEF New, LesserOf
  <2>3. QED  BY <2>2
<1>6. old + new <= k /\ highestSent + new <= FlowPackets
  BY <1>1, <1>4, <1>5 DEF New, LesserOf
<1>7. PICK a, b : a = SubSeq(R, 1, old) /\ b = [i \in 1..new |-> highestSent + i]
  OBVIOUS
<1>8. PICK batch : batch = a \o b  OBVIOUS
<1>9. /\ rtxQueue' = SubSeq(R, old + 1, Len(R))
      /\ highestSent' = highestSent + new
      /\ sentTimes' = Without(S, ToSet(batch)) \o batch
      /\ net' = N (+) BagOfSeq([i \in DOMAIN batch |-> Packet(batch[i], "data")])
  BY <1>3, <1>5, <1>7, <1>8 DEF Sends
<1>10. /\ Distinct(Numbers, a) /\ Len(a) = old /\ Members(a) \subseteq Members(R)
       /\ Distinct(Numbers, rtxQueue') /\ Members(rtxQueue') = Members(R) \ Members(a)
  BY <1>4, <1>7, <1>9, SplitDistinct
<1>11. /\ Distinct(Numbers, b) /\ Len(b) = new
       /\ Members(b) = (highestSent + 1)..(highestSent + new)
  BY <1>1, <1>6, <1>7, NewNumbers
<1>12. \A n \in 1..highestSent : n \notin Members(b)  BY <1>1, <1>11
<1>13. Members(a) \cap Members(b) = {} /\ Members(R) \cap Members(b) = {}
  BY <1>10, <1>12
<1>14. /\ Distinct(Numbers, batch) /\ Members(batch) = Members(a) \cup Members(b)
  BY <1>8, <1>10, <1>11, <1>13, ConcatDistinct, ZenonT(30)
<1>15. PICK B : B = Members(batch)  OBVIOUS
<1>16. ToSet(batch) = B /\ B \subseteq Numbers /\ DOMAIN batch = 1..Len(batch)
  BY <1>14, <1>15, ToSetIsMembers, LenProperties DEF Distinct
<1>17. IsFiniteSet(B) /\ Cardinality(B) \in 0..k
  <2>1. Len(batch) = old + new
    BY <1>8, <1>10, <1>11, ConcatProperties DEF Distinct
  <2>2. /\ IsFiniteSet(B) /\ Cardinality(B) <= Len(batch) /\ Cardinality(B) \in Nat
    BY <1>14, <1>15, MembersCount DEF Distinct
  <2>3. QED  BY <1>6, <2>1, <2>2
<1>18. B \cap Carries(N) = {}  BY <1>10, <1>12, <1>14, <1>15
<1>19. /\ NetOK(net') /\ Carries(net') = Carries(N) \cup B
       /\ Cardinality(DOMAIN net') <= Cardinality(DOMAIN N) + Cardinality(B)
       /\ Headers(net') = Headers(N)
  <2>1. PICK t : t = [i \in DOMAIN batch |-> Packet(batch[i], "data")]  OBVIOUS
  <2>2. DOMAIN t = 1..Len(batch) /\ \A i \in 1..Len(batch) : t[i] = Packet(batch[i], "data")
    BY <1>16, <2>1
  <2>3. BagOfSeq(t) = [p \in DataOf(Members(batch)) |-> 1]
    BY <1>14, <2>2, BagOfBatch
  <2>4. net' = N (+) [p \in DataOf(B) |-> 1]  BY <1>9, <1>15, <2>1, <2>3
  <2>5. QED  BY <1>16, <1>17, <1>18, <2>4, NetSend
<1>20. Distinct(Numbers, sentTimes') /\ Members(sentTimes') = Members(S) \cup B
  <2>1. PICK u : u = Without(S, B)  OBVIOUS
  <2>2. Distinct(Numbers, u) /\ Members(u) = Members(S) \ B
    BY <2>1, WithoutDistinct
  <2>3. sentTimes' = u \o batch  BY <1>9, <1>16, <2>1
  <2>4. Members(u) \cap Members(batch) = {}  BY <1>15, <2>2
  <2>5. Distinct(Numbers, u \o batch) /\ Members(u \o batch) = Members(u) \cup Members(batch)
    BY <1>14, <2>2, <2>4, ConcatDistinct, SMTT(30)
  <2>6. QED  BY <1>15, <2>2, <2>3, <2>5
<1>21. Members(rtxQueue') = Members(R) \ B
  BY <1>10, <1>13, <1>14, <1>15
<1>22. /\ highestSent' \in highestSent..FlowPackets
       /\ B \subseteq Members(R) \cup (highestSent + 1)..highestSent'
       /\ (highestSent + 1)..highestSent' \subseteq B
  BY <1>1, <1>6, <1>9, <1>10, <1>11, <1>14, <1>15
<1>23. SentBatch(B, N, R, S)
  BY <1>10, <1>16, <1>17, <1>18, <1>19, <1>20, <1>21, <1>22 DEF SentBatch
<1>24. QED  BY <1>17, <1>23

-----------------------------------------------------------------------------
(* Where packets are *)

\* No packet is in two places, and none has a place that was not sent.
Places(N, F, R, S, h) ==
  /\ NetOK(N) /\ FeedbackOK(F) /\ Distinct(Numbers, R) /\ Distinct(Numbers, S)
  /\ h \in 0..FlowPackets
  /\ Carries(N) \cap Answered(F) = {}
  /\ Members(R) \cap (Carries(N) \cup Answered(F) \cup Members(S)) = {}
  /\ Carries(N) \cup Answered(F) \cup Members(R) \cup Members(S) \subseteq 1..h

\* A packet of those in M is still known: one loss takes away its place or its
\* timer, but not both.
Remembered(N, F, R, S, h, M, lost) ==
  lost <= 1 =>
    \A n \in M \cap 1..h :
      \/ n \in Members(R)
      \/ /\ n \in Carries(N) \cup Answered(F) \/ lost = 1
         /\ n \in Members(S) \/ lost = 1
         /\ n \in Carries(N) \cup Answered(F) \cup Members(S)

\* What the window has to cover: packets in the network, once more those that
\* will be sent again without a pull, and timers of packets that are nowhere.
Strays(N, F, S) == Members(S) \ (Carries(N) \cup Answered(F))
Load(N, F, S) ==
  Cardinality(DOMAIN N) + Cardinality(Headers(N)) + Cardinality(Nacks(F))
    + Cardinality(Strays(N, F, S))

\* The parts of a load are numbers.
LEMMA LoadTypes ==
  ASSUME NEW N, NEW F, NEW R, NEW S, NEW h, Places(N, F, R, S, h)
  PROVE  /\ Cardinality(DOMAIN N) \in Nat /\ Cardinality(Headers(N)) \in Nat
         /\ Cardinality(Nacks(F)) \in Nat /\ Cardinality(Strays(N, F, S)) \in Nat
         /\ Load(N, F, S) \in Nat
         /\ IsFiniteSet(DOMAIN N) /\ IsFiniteSet(Headers(N)) /\ IsFiniteSet(Strays(N, F, S))
<1>1. IsFiniteSet(DOMAIN N) /\ IsFiniteSet(F) /\ S \in Seq(Numbers)
  BY DEF Places, NetOK, FeedbackOK, Distinct
<1>2. IsFiniteSet(Headers(N)) /\ IsFiniteSet(Nacks(F))
  BY <1>1, FS_Subset DEF Headers, Nacks
<1>3. IsFiniteSet(Members(S))  BY <1>1, MembersCount
<1>4. IsFiniteSet(Strays(N, F, S))  BY <1>3, FS_Subset DEF Strays
<1>5. /\ Cardinality(DOMAIN N) \in Nat /\ Cardinality(Headers(N)) \in Nat
      /\ Cardinality(Nacks(F)) \in Nat /\ Cardinality(Strays(N, F, S)) \in Nat
  BY <1>1, <1>2, <1>4, FS_CardinalityType
<1>6. QED  BY <1>1, <1>2, <1>4, <1>5 DEF Load

\* Fewer timers without a packet are less of a load.
LEMMA StraysShrink ==
  ASSUME NEW N, NEW F, NEW R, NEW S, NEW h, Places(N, F, R, S, h),
         NEW T, T \subseteq Strays(N, F, S)
  PROVE  Cardinality(T) \in Nat /\ Cardinality(T) <= Cardinality(Strays(N, F, S))
<1>1. IsFiniteSet(Strays(N, F, S))  BY LoadTypes
<1>2. QED  BY <1>1, FS_Subset, FS_CardinalityType

\* Sending moves packets from the queue, or new ones, into the network, each
\* with a timer.
LEMMA SendsPlaces ==
  ASSUME NEW N, NEW F, NEW R, NEW S, Places(N, F, R, S, highestSent),
         NEW k \in Nat, Sends(k, R, N, S)
  PROVE  /\ Places(net', F, rtxQueue', sentTimes', highestSent')
         /\ highestSent' \in highestSent..FlowPackets
         /\ Load(net', F, sentTimes') <= Load(N, F, S) + k
         /\ \A M, lost : Remembered(N, F, R, S, highestSent, M, lost) =>
              Remembered(net', F, rtxQueue', sentTimes', highestSent', M, lost)
<1>1. FlowPackets \in Nat /\ highestSent \in Nat /\ highestSent <= FlowPackets
  BY NDPAssumption DEF Places
<1>2. PICK B : SentBatch(B, N, R, S) /\ Cardinality(B) \in 0..k
  <2>1. /\ NetOK(N) /\ Distinct(Numbers, R) /\ Distinct(Numbers, S)
        /\ highestSent \in 0..FlowPackets /\ Members(R) \cap Carries(N) = {}
        /\ Members(R) \cup Carries(N) \subseteq 1..highestSent
    BY DEF Places
  <2>2. QED  BY <2>1, SendsBatch
<1>3. /\ B \subseteq Numbers /\ NetOK(net') /\ Carries(net') = Carries(N) \cup B
      /\ Headers(net') = Headers(N)
      /\ Members(rtxQueue') = Members(R) \ B /\ Members(sentTimes') = Members(S) \cup B
      /\ Distinct(Numbers, rtxQueue') /\ Distinct(Numbers, sentTimes')
      /\ highestSent' \in highestSent..FlowPackets
      /\ B \subseteq Members(R) \cup (highestSent + 1)..highestSent'
      /\ (highestSent + 1)..highestSent' \subseteq B
      /\ Cardinality(DOMAIN net') <= Cardinality(DOMAIN N) + Cardinality(B)
  BY <1>2 DEF SentBatch
<1>4. 1..highestSent \subseteq 1..highestSent' /\ (highestSent + 1)..highestSent' \subseteq 1..highestSent'
  BY <1>1, <1>3
<1>5. \A n \in 1..highestSent : n \notin (highestSent + 1)..highestSent'  BY <1>1
<1>6. B \cap Answered(F) = {}  BY <1>3, <1>5 DEF Places
<1>7. Places(net', F, rtxQueue', sentTimes', highestSent')
  <2>1. highestSent' \in 0..FlowPackets  BY <1>1, <1>3
  <2>2. Carries(net') \cap Answered(F) = {}  BY <1>3, <1>6 DEF Places
  <2>3. Members(rtxQueue') \cap (Carries(net') \cup Answered(F) \cup Members(sentTimes')) = {}
    BY <1>3 DEF Places
  <2>4. B \subseteq 1..highestSent'  BY <1>3, <1>4 DEF Places
  <2>5. Carries(net') \cup Answered(F) \cup Members(rtxQueue') \cup Members(sentTimes')
          \subseteq 1..highestSent'
    BY <1>3, <1>4, <2>4 DEF Places
  <2>6. QED  BY <1>3, <2>1, <2>2, <2>3, <2>5 DEF Places
<1>8. Load(net', F, sentTimes') <= Load(N, F, S) + k
  <2>1. Strays(net', F, sentTimes') \subseteq Strays(N, F, S)  BY <1>3 DEF Strays
  <2>2. Cardinality(Strays(net', F, sentTimes')) <= Cardinality(Strays(N, F, S))
    BY <2>1, StraysShrink
  <2>3. /\ Cardinality(DOMAIN N) \in Nat /\ Cardinality(Headers(N)) \in Nat
        /\ Cardinality(Nacks(F)) \in Nat /\ Cardinality(Strays(N, F, S)) \in Nat
        /\ Cardinality(DOMAIN net') \in Nat /\ Cardinality(Strays(net', F, sentTimes')) \in Nat
    BY <1>7, LoadTypes
  <2>4. QED  BY <1>2, <1>3, <2>2, <2>3 DEF Load
<1>9. ASSUME NEW M, NEW lost, Remembered(N, F, R, S, highestSent, M, lost), lost <= 1,
             NEW n \in M \cap 1..highestSent'
      PROVE  \/ n \in Members(rtxQueue')
             \/ /\ n \in Carries(net') \cup Answered(F) \/ lost = 1
                /\ n \in Members(sentTimes') \/ lost = 1
                /\ n \in Carries(net') \cup Answered(F) \cup Members(sentTimes')
  <2>1. n \in B \/ n \in 1..highestSent
    <3>1. n \in 1..highestSent \/ n \in (highestSent + 1)..highestSent'  BY <1>1, <1>3
    <3>2. QED  BY <1>3, <3>1
  <2>2. CASE n \in B  BY <1>3, <2>2
  <2>3. CASE n \in 1..highestSent /\ n \notin B
    <3>1. \/ n \in Members(R)
          \/ /\ n \in Carries(N) \cup Answered(F) \/ lost = 1
             /\ n \in Members(S) \/ lost = 1
             /\ n \in Carries(N) \cup Answered(F) \cup Members(S)
      BY <1>9, <2>3 DEF Remembered
    <3>2. QED  BY <1>3, <2>3, <3>1
  <2>4. QED  BY <2>1, <2>2, <2>3
<1>10. \A M, lost : Remembered(N, F, R, S, highestSent, M, lost) =>
              Remembered(net', F, rtxQueue', sentTimes', highestSent', M, lost)
  BY <1>9 DEF Remembered
<1>11. QED  BY <1>3, <1>7, <1>8, <1>10

\* The source takes an ACK: its packet has no timer any more.
LEMMA TakeAck ==
  ASSUME NEW N, NEW F, NEW R, NEW S, NEW h, Places(N, F, R, S, h),
         NEW f \in F, f.kind = "ack",
         NEW G, G = F \ {f}, NEW T, T = Without(S, {f.packet})
  PROVE  /\ Places(N, G, R, T, h) /\ Load(N, G, T) <= Load(N, F, S)
         /\ \A M, lost : Remembered(N, F, R, S, h, M, lost) /\ f.packet \notin M =>
              Remembered(N, G, R, T, h, M, lost)
<1>1. PICK n : n = f.packet  OBVIOUS
<1>2. /\ FeedbackOK(G) /\ n \in Answered(F) /\ Answered(G) = Answered(F) \ {n}
      /\ Cardinality(Nacks(G)) \in Nat /\ Cardinality(Nacks(F)) = Cardinality(Nacks(G)) + 0
  BY <1>1, FeedbackRemove DEF Places
<1>3. Distinct(Numbers, T) /\ Members(T) = Members(S) \ {n}
  BY <1>1, WithoutDistinct DEF Places
<1>4. Places(N, G, R, T, h)  BY <1>2, <1>3 DEF Places
<1>5. Load(N, G, T) <= Load(N, F, S)
  <2>1. Strays(N, G, T) \subseteq Strays(N, F, S)  BY <1>2, <1>3 DEF Strays
  <2>2. /\ Cardinality(Strays(N, G, T)) <= Cardinality(Strays(N, F, S))
        /\ Cardinality(Strays(N, G, T)) \in Nat
    BY <2>1, StraysShrink
  <2>3. /\ Cardinality(DOMAIN N) \in Nat /\ Cardinality(Headers(N)) \in Nat
        /\ Cardinality(Strays(N, F, S)) \in Nat
    BY LoadTypes
  <2>4. QED  BY <1>2, <2>2, <2>3 DEF Load
<1>6. \A M, lost : Remembered(N, F, R, S, h, M, lost) /\ f.packet \notin M =>
        Remembered(N, G, R, T, h, M, lost)
  BY <1>1, <1>2, <1>3 DEF Remembered
<1>7. QED  BY <1>4, <1>5, <1>6

\* A packet that was in the network, or answered, goes to one end of the queue.
Requeues(Q, R, n) == Distinct(Numbers, Q) /\ Members(Q) = Members(R) \cup {n}

\* An answered packet may join the queue of retransmissions at either end.
LEMMA Requeued ==
  ASSUME NEW N, NEW F, NEW R, NEW S, NEW h, Places(N, F, R, S, h),
         NEW n \in Carries(N) \cup Answered(F)
  PROVE  Requeues(Append(R, n), R, n) /\ Requeues(<<n>> \o R, R, n)
<1>1. n \in Numbers
  <2>1. n \in 1..h /\ h \in 0..FlowPackets /\ FlowPackets \in Nat
    BY NDPAssumption DEF Places
  <2>2. QED  BY <2>1 DEF Numbers
<1>2. PICK o : o = <<n>>  OBVIOUS
<1>3. Distinct(Numbers, o) /\ Members(o) = {n}  BY <1>1, <1>2, SingletonDistinct
<1>4. /\ Distinct(Numbers, R) /\ Distinct(Numbers, o)
      /\ Members(R) \cap Members(o) = {} /\ Members(o) \cap Members(R) = {}
  BY <1>3 DEF Places
<1>5. Distinct(Numbers, R \o o) /\ Members(R \o o) = Members(R) \cup Members(o)
  BY ONLY <1>4, ConcatDistinct
<1>6. Distinct(Numbers, o \o R) /\ Members(o \o R) = Members(o) \cup Members(R)
  BY ONLY <1>4, ConcatDistinct
<1>7. Append(R, n) = R \o o  BY <1>1, <1>2, AppendIsConcat DEF Places, Distinct
<1>8. QED  BY <1>2, <1>3, <1>5, <1>6, <1>7 DEF Requeues

\* The source takes a NACK: its packet waits to be sent again.
LEMMA TakeNack ==
  ASSUME NEW N, NEW F, NEW R, NEW S, NEW h, Places(N, F, R, S, h),
         NEW f \in F, f.kind = "nack",
         NEW G, G = F \ {f}, NEW T, T = Without(S, {f.packet}),
         NEW Q, Requeues(Q, R, f.packet)
  PROVE  /\ Places(N, G, Q, T, h) /\ Load(N, G, T) + 1 <= Load(N, F, S)
         /\ \A M, lost : Remembered(N, F, R, S, h, M, lost) =>
              Remembered(N, G, Q, T, h, M, lost)
<1>1. PICK n : n = f.packet  OBVIOUS
<1>2. /\ FeedbackOK(G) /\ n \in Answered(F) /\ Answered(G) = Answered(F) \ {n}
      /\ Cardinality(Nacks(G)) \in Nat /\ Cardinality(Nacks(F)) = Cardinality(Nacks(G)) + 1
  BY <1>1, FeedbackRemove DEF Places
<1>3. Distinct(Numbers, T) /\ Members(T) = Members(S) \ {n}
  BY <1>1, WithoutDistinct DEF Places
<1>4. Distinct(Numbers, Q) /\ Members(Q) = Members(R) \cup {n}  BY <1>1 DEF Requeues
<1>5. Places(N, G, Q, T, h)
  <2>1. n \notin Carries(N) /\ n \in 1..h  BY <1>2 DEF Places
  <2>2. QED  BY <1>2, <1>3, <1>4, <2>1, ZenonT(30) DEF Places
<1>6. Load(N, G, T) + 1 <= Load(N, F, S)
  <2>1. Strays(N, G, T) \subseteq Strays(N, F, S)  BY <1>2, <1>3 DEF Strays
  <2>2. /\ Cardinality(Strays(N, G, T)) <= Cardinality(Strays(N, F, S))
        /\ Cardinality(Strays(N, G, T)) \in Nat
    BY <2>1, StraysShrink
  <2>3. /\ Cardinality(DOMAIN N) \in Nat /\ Cardinality(Headers(N)) \in Nat
        /\ Cardinality(Strays(N, F, S)) \in Nat
    BY LoadTypes
  <2>4. QED  BY <1>2, <2>2, <2>3 DEF Load
<1>7. \A M, lost : Remembered(N, F, R, S, h, M, lost) => Remembered(N, G, Q, T, h, M, lost)
  BY <1>2, <1>3, <1>4 DEF Remembered
<1>8. QED  BY <1>5, <1>6, <1>7

\* The source takes a packet that was returned: it is the next to be sent.
LEMMA TakeBounced ==
  ASSUME NEW N, NEW F, NEW R, NEW S, NEW h, Places(N, F, R, S, h),
         NEW p \in DOMAIN N, p.form = "bounced",
         NEW M1, M1 = N (-) One(p), NEW T, T = Without(S, {p.no}),
         NEW Q, Requeues(Q, R, p.no)
  PROVE  /\ Places(M1, F, Q, T, h) /\ Load(M1, F, T) + 1 <= Load(N, F, S)
         /\ \A M, lost : Remembered(N, F, R, S, h, M, lost) =>
              Remembered(M1, F, Q, T, h, M, lost)
<1>1. PICK n : n = p.no  OBVIOUS
<1>2. /\ NetOK(M1) /\ n \in Carries(N) /\ Carries(M1) = Carries(N) \ {n}
      /\ Headers(M1) = Headers(N) \ {p} /\ Cardinality(DOMAIN M1) \in Nat
      /\ Cardinality(DOMAIN M1) = Cardinality(DOMAIN N) - 1
  BY <1>1, NetRemove, ZenonT(30) DEF Places
<1>3. Headers(M1) = Headers(N)  BY <1>2 DEF Headers
<1>4. Distinct(Numbers, T) /\ Members(T) = Members(S) \ {n}
  BY <1>1, WithoutDistinct DEF Places
<1>5. Distinct(Numbers, Q) /\ Members(Q) = Members(R) \cup {n}  BY <1>1 DEF Requeues
<1>6. Places(M1, F, Q, T, h)
  <2>1. n \notin Answered(F) /\ n \in 1..h  BY <1>2 DEF Places
  <2>2. QED  BY <1>2, <1>4, <1>5, <2>1 DEF Places
<1>7. Load(M1, F, T) + 1 <= Load(N, F, S)
  <2>1. Strays(M1, F, T) \subseteq Strays(N, F, S)  BY <1>2, <1>4 DEF Strays
  <2>2. /\ Cardinality(Strays(M1, F, T)) <= Cardinality(Strays(N, F, S))
        /\ Cardinality(Strays(M1, F, T)) \in Nat
    BY <2>1, StraysShrink
  <2>3. /\ Cardinality(DOMAIN N) \in Nat /\ Cardinality(Headers(N)) \in Nat
        /\ Cardinality(Strays(N, F, S)) \in Nat /\ Cardinality(Nacks(F)) \in Nat
    BY LoadTypes
  <2>4. \A d, e, x, y, z, w \in Nat :
          e = d - 1 /\ z <= w => (e + x + y + z) + 1 <= d + x + y + w
    OBVIOUS
  <2>5. PICK e, d \in Nat : e = Cardinality(DOMAIN M1) /\ d = Cardinality(DOMAIN N) /\ e = d - 1
    BY <1>2, <2>3
  <2>6. QED  BY <1>3, <2>2, <2>3, <2>4, <2>5 DEF Load
<1>8. \A M, lost : Remembered(N, F, R, S, h, M, lost) => Remembered(M1, F, Q, T, h, M, lost)
  BY <1>2, <1>4, <1>5 DEF Remembered
<1>9. QED  BY <1>6, <1>7, <1>8

\* The receiver answers a packet: a NACK for a header, an ACK for its data.
LEMMA AnswerPlaces ==
  ASSUME NEW N, NEW F, NEW R, NEW S, NEW h, Places(N, F, R, S, h),
         NEW p \in DOMAIN N, NEW a \in AnswerType, a.packet = p.no,
         a.kind = "nack" => p.form = "header",
         NEW L, L = N (-) One(p), NEW G, G = F \cup {a}
  PROVE  /\ Places(L, G, R, S, h) /\ Load(L, G, S) + 1 <= Load(N, F, S)
         /\ \A M, lost : Remembered(N, F, R, S, h, M, lost) =>
              Remembered(L, G, R, S, h, M, lost)
<1>1. PICK n : n = p.no  OBVIOUS
<1>2. /\ NetOK(L) /\ n \in Carries(N) /\ Carries(L) = Carries(N) \ {n}
      /\ Headers(L) = Headers(N) \ {p} /\ Cardinality(DOMAIN L) \in Nat
      /\ Cardinality(DOMAIN L) = Cardinality(DOMAIN N) - 1
  BY <1>1, NetRemove, ZenonT(30) DEF Places
<1>3. n \notin Answered(F)  BY <1>2 DEF Places
<1>4. PICK c : c = IF a.kind = "nack" THEN 1 ELSE 0  OBVIOUS
<1>5. /\ FeedbackOK(G) /\ Answered(G) = Answered(F) \cup {n}
      /\ Cardinality(Nacks(F)) \in Nat /\ Cardinality(Nacks(G)) \in Nat
      /\ Cardinality(Nacks(G)) <= Cardinality(Nacks(F)) + c
  BY <1>1, <1>3, <1>4, FeedbackAdd DEF Places
<1>6. Places(L, G, R, S, h)  BY <1>2, <1>5, ZenonT(30) DEF Places
<1>7. Load(L, G, S) + 1 <= Load(N, F, S)
  <2>1. Strays(L, G, S) = Strays(N, F, S)  BY <1>2, <1>5 DEF Strays
  <2>2. /\ Cardinality(DOMAIN N) \in Nat /\ Cardinality(Headers(N)) \in Nat
        /\ Cardinality(Strays(N, F, S)) \in Nat
        /\ IsFiniteSet(Headers(N)) /\ Cardinality(Headers(L)) \in Nat
    BY <1>6, LoadTypes
  <2>3. Cardinality(Headers(L)) + c <= Cardinality(Headers(N))
    <3>1. Cardinality(Headers(N) \ {p}) =
            IF p \in Headers(N) THEN Cardinality(Headers(N)) - 1 ELSE Cardinality(Headers(N))
      BY <2>2, FS_RemoveElement
    <3>2. a.kind = "nack" => p \in Headers(N)  BY DEF Headers
    <3>3. c = 0 \/ (c = 1 /\ p \in Headers(N))  BY <1>4, <3>2
    <3>4. QED  BY <1>2, <2>2, <3>1, <3>3
  <2>4. \A d, e, x, y, z, w, s \in Nat : \A i \in {0, 1} :
          e = d - 1 /\ y + i <= x /\ w <= z + i => (e + y + w + s) + 1 <= d + x + z + s
    OBVIOUS
  <2>5. c \in {0, 1}  BY <1>4
  <2>6. QED  BY <1>2, <1>5, <2>1, <2>2, <2>3, <2>4, <2>5 DEF Load
<1>8. \A M, lost : Remembered(N, F, R, S, h, M, lost) => Remembered(L, G, R, S, h, M, lost)
  BY <1>2, <1>5 DEF Remembered
<1>9. QED  BY <1>6, <1>7, <1>8

\* One set more or one element less.
LEMMA OneMore ==
  ASSUME NEW A, NEW B, IsFiniteSet(B), NEW n, A \subseteq B \cup {n}
  PROVE  Cardinality(A) \in Nat /\ Cardinality(B) \in Nat
         /\ Cardinality(A) <= Cardinality(B) + 1
<1>1. IsFiniteSet(B \cup {n}) /\ Cardinality(B) \in Nat
      /\ Cardinality(B \cup {n}) = IF n \in B THEN Cardinality(B) ELSE Cardinality(B) + 1
  BY FS_AddElement, FS_CardinalityType
<1>2. IsFiniteSet(A) /\ Cardinality(A) <= Cardinality(B \cup {n}) /\ Cardinality(A) \in Nat
  BY <1>1, FS_Subset, FS_CardinalityType
<1>3. Cardinality(B \cup {n}) <= Cardinality(B) + 1  BY <1>1
<1>4. Cardinality(B \cup {n}) \in Nat  BY <1>1
<1>5. QED  BY <1>1, <1>2, <1>3, <1>4

\* A returned header is dropped.
LEMMA DropPlaces ==
  ASSUME NEW N, NEW F, NEW R, NEW S, NEW h, Places(N, F, R, S, h),
         NEW p \in DOMAIN N, p.form = "bounced", NEW L, L = N (-) One(p)
  PROVE  /\ Places(L, F, R, S, h) /\ Load(L, F, S) <= Load(N, F, S)
         /\ \A M : \A lost \in Nat : Remembered(N, F, R, S, h, M, lost) =>
              Remembered(L, F, R, S, h, M, lost + 1)
<1>1. PICK n : n = p.no  OBVIOUS
<1>2. /\ NetOK(L) /\ n \in Carries(N) /\ Carries(L) = Carries(N) \ {n}
      /\ Headers(L) = Headers(N) \ {p} /\ Cardinality(DOMAIN L) \in Nat
      /\ Cardinality(DOMAIN L) = Cardinality(DOMAIN N) - 1
  BY <1>1, NetRemove, ZenonT(30) DEF Places
<1>3. Headers(L) = Headers(N)  BY <1>2 DEF Headers
<1>4. Places(L, F, R, S, h)  BY <1>2 DEF Places
<1>5. Load(L, F, S) <= Load(N, F, S)
  <2>1. Strays(L, F, S) \subseteq Strays(N, F, S) \cup {n}  BY <1>2 DEF Strays
  <2>2. /\ Cardinality(DOMAIN N) \in Nat /\ Cardinality(Headers(N)) \in Nat
        /\ Cardinality(Nacks(F)) \in Nat /\ IsFiniteSet(Strays(N, F, S))
    BY LoadTypes
  <2>3. /\ Cardinality(Strays(L, F, S)) \in Nat /\ Cardinality(Strays(N, F, S)) \in Nat
        /\ Cardinality(Strays(L, F, S)) <= Cardinality(Strays(N, F, S)) + 1
    BY <2>1, <2>2, OneMore
  <2>4. \A d, e, x, y, z, w \in Nat : e = d - 1 /\ z <= w + 1 => e + x + y + z <= d + x + y + w
    OBVIOUS
  <2>5. QED  BY <1>2, <1>3, <2>2, <2>3, <2>4 DEF Load
<1>6. \A M : \A lost \in Nat : Remembered(N, F, R, S, h, M, lost) =>
        Remembered(L, F, R, S, h, M, lost + 1)
  <2>1. \A lost \in Nat : lost + 1 <= 1 => lost <= 1 /\ lost # 1 /\ lost + 1 = 1  OBVIOUS
  <2>2. QED  BY <1>2, <2>1 DEF Remembered
<1>7. QED  BY <1>4, <1>5, <1>6

\* Feedback is lost.
LEMMA LosePlaces ==
  ASSUME NEW N, NEW F, NEW R, NEW S, NEW h, Places(N, F, R, S, h),
         NEW f \in F, NEW G, G = F \ {f}
  PROVE  /\ Places(N, G, R, S, h) /\ Load(N, G, S) <= Load(N, F, S) + 1
         /\ \A M : \A lost \in Nat : Remembered(N, F, R, S, h, M, lost) =>
              Remembered(N, G, R, S, h, M, lost + 1)
<1>1. PICK c \in {0, 1} : c = IF f.kind = "nack" THEN 1 ELSE 0  OBVIOUS
<1>2. /\ FeedbackOK(G) /\ Cardinality(Nacks(G)) \in Nat
      /\ Cardinality(Nacks(F)) = Cardinality(Nacks(G)) + c
      /\ Answered(G) \subseteq Answered(F) /\ Answered(F) \subseteq Answered(G) \cup {f.packet}
  BY <1>1, FeedbackRemove DEF Places
<1>3. Places(N, G, R, S, h)  BY <1>2 DEF Places
<1>4. Load(N, G, S) <= Load(N, F, S) + 1
  <2>1. Strays(N, G, S) \subseteq Strays(N, F, S) \cup {f.packet}  BY <1>2 DEF Strays
  <2>2. /\ Cardinality(DOMAIN N) \in Nat /\ Cardinality(Headers(N)) \in Nat
        /\ Cardinality(Nacks(F)) \in Nat /\ IsFiniteSet(Strays(N, F, S))
    BY LoadTypes
  <2>3. /\ Cardinality(Strays(N, G, S)) \in Nat /\ Cardinality(Strays(N, F, S)) \in Nat
        /\ Cardinality(Strays(N, G, S)) <= Cardinality(Strays(N, F, S)) + 1
    BY <2>1, <2>2, OneMore
  <2>4. \A d, x, y, u, z, w \in Nat : \A i \in {0, 1} :
          y = u + i /\ z <= w + 1 => d + x + u + z <= (d + x + y + w) + 1
    OBVIOUS
  <2>5. QED  BY <1>2, <2>2, <2>3, <2>4 DEF Load
<1>5. \A M : \A lost \in Nat : Remembered(N, F, R, S, h, M, lost) =>
        Remembered(N, G, R, S, h, M, lost + 1)
  <2>1. \A lost \in Nat : lost + 1 <= 1 => lost <= 1 /\ lost # 1 /\ lost + 1 = 1  OBVIOUS
  <2>2. ASSUME NEW M, NEW lost \in Nat, Remembered(N, F, R, S, h, M, lost), lost + 1 <= 1,
               NEW n \in M \cap 1..h, n \notin Members(R)
        PROVE  n \in Members(S) /\ lost + 1 = 1
    BY <2>1, <2>2 DEF Remembered
  <2>3. QED  BY <2>2 DEF Remembered
<1>6. QED  BY <1>3, <1>4, <1>5

\* What is known of R, with the network N and the timers S, is with L and T.
KnownFurther(N, S, L, T, F, R, h) ==
  \A M, lost : Remembered(N, F, R, S, h, M, lost) => Remembered(L, F, R, T, h, M, lost)

\* The packets K, whose timers run out, are sent again without one.
LEMMA TimeoutPlaces ==
  ASSUME NEW N, NEW F, NEW R, NEW S, NEW h, Places(N, F, R, S, h),
         NEW k \in 1..Len(S), NEW K, K = {S[i] : i \in 1..k},
         K \cap (Carries(N) \cup Answered(F)) = {},
         NEW T, T = SubSeq(S, k + 1, Len(S)),
         NEW L, L = N (+) BagOfSeq([i \in 1..k |-> Packet(S[i], "data")])
  PROVE  /\ Places(L, F, R, T, h) /\ Load(L, F, T) <= Load(N, F, S)
         /\ KnownFurther(N, S, L, T, F, R, h)
<1>1. PICK s : s = SubSeq(S, 1, k)  OBVIOUS
<1>2. Distinct(Numbers, S) /\ S \in Seq(Numbers) /\ Len(S) \in Nat
  BY LenProperties DEF Places, Distinct
<1>3. /\ Distinct(Numbers, s) /\ Len(s) = k /\ Members(s) = K /\ K \subseteq Members(S)
      /\ Distinct(Numbers, T) /\ Members(T) = Members(S) \ K
  <2>1. k \in 0..Len(S)  BY <1>2
  <2>2. /\ Distinct(Numbers, s) /\ Distinct(Numbers, T) /\ Len(s) = k
        /\ Members(T) = Members(S) \ Members(s) /\ Members(s) \subseteq Members(S)
    BY <1>1, <1>2, <2>1, SplitDistinct
  <2>3. Members(s) = {S[i] : i \in 1..k}  BY <1>1, <1>2, <2>1, SplitDistinct
  <2>4. QED  BY <2>2, <2>3
<1>4. IsFiniteSet(K) /\ Cardinality(K) \in Nat /\ K \subseteq Numbers
  <2>1. s \in Seq(Numbers)  BY <1>3 DEF Distinct
  <2>2. /\ IsFiniteSet(Members(s)) /\ Cardinality(Members(s)) \in Nat
        /\ Members(s) \subseteq Numbers
    BY ONLY <2>1, MembersCount, ToSetIsMembers
  <2>3. QED  BY <1>3, <2>2
<1>5. /\ NetOK(L) /\ Carries(L) = Carries(N) \cup K /\ Headers(L) = Headers(N)
      /\ Cardinality(DOMAIN L) <= Cardinality(DOMAIN N) + Cardinality(K)
  <2>1. PICK t : t = [i \in 1..k |-> Packet(S[i], "data")]  OBVIOUS
  <2>2. \A i \in 1..k : s[i] = S[i]
    <3>1. \A i \in 1..k : S[i] \in Numbers  BY <1>2, ElementOfSeq
    <3>2. \A i \in 1..(k - 1 + 1) : SubSeq(S, 1, k)[i] = S[1 + i - 1]
      BY <3>1, SubSeqProperties
    <3>3. k - 1 + 1 = k /\ \A i \in 1..k : 1 + i - 1 = i  BY <1>2
    <3>4. QED  BY <1>1, <3>2, <3>3
  <2>3. DOMAIN t = 1..Len(s) /\ \A i \in 1..Len(s) : t[i] = Packet(s[i], "data")
    BY <1>3, <2>1, <2>2
  <2>4. BagOfSeq(t) = [p \in DataOf(Members(s)) |-> 1]  BY <1>3, <2>3, BagOfBatch
  <2>5. L = N (+) [p \in DataOf(K) |-> 1]  BY <1>3, <2>1, <2>4
  <2>6. NetOK(N) /\ K \cap Carries(N) = {}  BY DEF Places
  <2>7. QED  BY <1>4, <2>5, <2>6, NetSend
<1>6. Places(L, F, R, T, h)  BY <1>3, <1>5 DEF Places
<1>7. Load(L, F, T) <= Load(N, F, S)
  <2>1. Strays(L, F, T) = Strays(N, F, S) \ K /\ K \subseteq Strays(N, F, S)
    BY <1>3, <1>5 DEF Strays
  <2>2. /\ Cardinality(DOMAIN N) \in Nat /\ Cardinality(Headers(N)) \in Nat
        /\ Cardinality(Nacks(F)) \in Nat /\ IsFiniteSet(Strays(N, F, S))
        /\ Cardinality(Strays(N, F, S)) \in Nat /\ Cardinality(Strays(L, F, T)) \in Nat
        /\ Cardinality(DOMAIN L) \in Nat
    BY <1>6, LoadTypes
  <2>3. Cardinality(Strays(L, F, T)) = Cardinality(Strays(N, F, S)) - Cardinality(K)
    <3>1. Strays(N, F, S) \cap K = K  BY <2>1
    <3>2. Cardinality(Strays(N, F, S) \ K)
            = Cardinality(Strays(N, F, S)) - Cardinality(Strays(N, F, S) \cap K)
      BY <2>2, FS_Difference
    <3>3. QED  BY <2>1, <3>1, <3>2
  <2>4. \A d, e, x, y, z, w, i \in Nat :
          e <= d + i /\ z = w - i => e + x + y + z <= d + x + y + w
    OBVIOUS
  <2>5. QED  BY <1>4, <1>5, <2>2, <2>3, <2>4 DEF Load
<1>8. KnownFurther(N, S, L, T, F, R, h)  BY <1>3, <1>5 DEF KnownFurther, Remembered
<1>9. QED  BY <1>6, <1>7, <1>8

\* A packet takes another form: only a header is a load of its own.
LEMMA ReformPlaces ==
  ASSUME NEW N, NEW F, NEW R, NEW S, NEW h, Places(N, F, R, S, h),
         NEW p \in DOMAIN N, NEW form \in {"header", "bounced"},
         NEW L, L = (N (-) One(p)) (+) One(Packet(p.no, form))
  PROVE  /\ Places(L, F, R, S, h)
         /\ Load(L, F, S) <= Load(N, F, S) + (IF form = "header" THEN 1 ELSE 0)
         /\ \A M, lost : Remembered(N, F, R, S, h, M, lost) =>
              Remembered(L, F, R, S, h, M, lost)
<1>1. PICK q : q = Packet(p.no, form)  OBVIOUS
<1>2. PICK X : X = {x \in {q} : form = "header"}  OBVIOUS
<1>3. /\ NetOK(L) /\ Carries(L) = Carries(N) /\ Cardinality(DOMAIN L) = Cardinality(DOMAIN N)
      /\ Headers(L) = (Headers(N) \ {p}) \cup X
  <2>1. form \in Forms  BY DEF Forms
  <2>2. QED  BY <1>1, <1>2, <2>1, NetReform DEF Places
<1>4. Places(L, F, R, S, h)  BY <1>3 DEF Places
<1>5. \A M, lost : Remembered(N, F, R, S, h, M, lost) => Remembered(L, F, R, S, h, M, lost)
  BY <1>3 DEF Remembered
<1>6. /\ Cardinality(DOMAIN N) \in Nat /\ Cardinality(Headers(N)) \in Nat
      /\ Cardinality(Nacks(F)) \in Nat /\ IsFiniteSet(Headers(N))
      /\ Cardinality(Strays(N, F, S)) \in Nat /\ Cardinality(Headers(L)) \in Nat
  BY <1>4, LoadTypes
<1>7. Strays(L, F, S) = Strays(N, F, S)  BY <1>3 DEF Strays
<1>8. CASE form = "header"
  <2>1. Headers(L) \subseteq Headers(N) \cup {q}  BY <1>2, <1>3
  <2>2. Cardinality(Headers(L)) <= Cardinality(Headers(N)) + 1  BY <1>6, <2>1, OneMore
  <2>3. \A d, x, y, z, w \in Nat : y <= x + 1 => d + y + z + w <= (d + x + z + w) + 1
    OBVIOUS
  <2>4. Load(L, F, S) <= Load(N, F, S) + 1
    BY <1>3, <1>6, <1>7, <2>2, <2>3 DEF Load
  <2>5. QED  BY <1>4, <1>5, <1>8, <2>4
<1>9. CASE form # "header"
  <2>1. Headers(L) \subseteq Headers(N)  BY <1>2, <1>3, <1>9
  <2>2. Cardinality(Headers(L)) <= Cardinality(Headers(N))  BY <1>6, <2>1, FS_Subset
  <2>3. \A d, x, y, z, w \in Nat : y <= x => d + y + z + w <= (d + x + z + w) + 0
    OBVIOUS
  <2>4. Load(L, F, S) <= Load(N, F, S) + 0
    BY <1>3, <1>6, <1>7, <2>2, <2>3 DEF Load
  <2>5. QED  BY <1>4, <1>5, <1>9, <2>4
<1>10. QED  BY <1>8, <1>9

-----------------------------------------------------------------------------
(* The inductive invariant *)

\* The packets of the window, once the flow has started.
Window == IF highestSent = 0 THEN 0 ELSE Cwnd

\* The load is covered by the window, the pulls that the source has not taken,
\* the headers that were trimmed and the losses.
Clocked ==
  Load(net, feedback, sentTimes) + pullNo <= Window + lastPull + trims + losses

\* What the source hears was so when it was sent, and is so for ever.
Heard ==
  \A f \in feedback :
    /\ f.no \in 1..pullNo
    /\ f.kind = "ack" => f.packet \notin Missing /\ f.cum \in 0..cumAck

\* A completion time means that everything has arrived.
Reported == fcts > 0 => cumAck = FlowPackets

Placed     == Places(net, feedback, rtxQueue, sentTimes, highestSent)
KnownStill == Remembered(net, feedback, rtxQueue, sentTimes, highestSent, Missing, losses)

IInv ==
  /\ TypeOK /\ clos \in BOOLEAN
  /\ Placed /\ KnownStill /\ Heard /\ Clocked /\ Reported

\* A network with every packet once is a bag.
LEMMA NetIsABag ==
  ASSUME NEW N, NetOK(N)
  PROVE  IsABag(N)
<1>1. N = [p \in DOMAIN N |-> 1]  BY DEF NetOK
<1>2. N \in [DOMAIN N -> {n \in Nat : n > 0}]  BY <1>1
<1>3. QED  BY <1>2 DEF IsABag

\* A handler of the source: it takes feedback or a returned packet (N, F, R and
\* S are then what is left) and sends k packets, for the pulls that it takes,
\* for the load that it takes away, or as the first window (w).
LEMMA SourceStep ==
  ASSUME IInv, NEW N, NEW F, NEW R, NEW S, NEW k \in Nat,
         Places(N, F, R, S, highestSent),
         Remembered(N, F, R, S, highestSent, Missing, losses),
         F \subseteq feedback, feedback' = F, Sends(k, R, N, S),
         lastPull' \in lastPull..pullNo,
         NEW w \in Nat, w = 0 \/ (w = Cwnd /\ highestSent = 0 /\ highestSent' > 0),
         Load(N, F, S) + k <= Load(net, feedback, sentTimes) + (lastPull' - lastPull) + w,
         pullWindow' \in Int, firstWindow' \in Int,
         fcts' = fcts \/ (fcts' = fcts + 1 /\ cumAck = FlowPackets),
         UNCHANGED <<sinkVars, pacerVars, faultVars, clos>>
  PROVE  IInv'
<1>1. /\ TypeOK /\ clos \in BOOLEAN /\ Placed /\ Heard /\ Clocked /\ Reported
      /\ FlowPackets \in Nat /\ Cwnd \in Nat
  BY NDPAssumption DEF IInv
<1>2. /\ UNCHANGED <<cumAck, received, sawLast, pullNo>> /\ UNCHANGED <<pullQueue, events>>
      /\ UNCHANGED <<trims, bounces, losses>> /\ clos' = clos
  BY DEF sinkVars, pacerVars, faultVars
<1>3. Missing' = Missing  BY <1>2 DEF Missing
<1>4. /\ Places(net', F, rtxQueue', sentTimes', highestSent')
      /\ highestSent' \in highestSent..FlowPackets
      /\ Load(net', F, sentTimes') <= Load(N, F, S) + k
      /\ Remembered(net', F, rtxQueue', sentTimes', highestSent', Missing, losses)
  BY SendsPlaces
<1>5. Placed' /\ KnownStill'  BY <1>2, <1>3, <1>4 DEF Placed, KnownStill
<1>6. Heard'  BY <1>1, <1>2, <1>3 DEF Heard
<1>7. Reported'
  <2>1. fcts \in Nat  BY <1>1 DEF TypeOK
  <2>2. CASE fcts' = fcts  BY <1>1, <1>2, <2>2 DEF Reported
  <2>3. CASE fcts' = fcts + 1 /\ cumAck = FlowPackets  BY <1>2, <2>3 DEF Reported
  <2>4. QED  BY <2>2, <2>3
<1>8. Clocked'
  <2>1. PICK l, m, o \in Nat : /\ l = Load(net, feedback, sentTimes) /\ m = Load(N, F, S)
                               /\ o = Load(net', F, sentTimes')
    BY <1>1, <1>4, LoadTypes DEF Placed
  <2>2. PICK a, b, c \in Nat : a = lastPull /\ b = lastPull' /\ c = pullNo
    <3>1. lastPull \in Nat /\ pullNo \in Nat /\ lastPull' \in Nat  BY <1>1 DEF TypeOK
    <3>2. QED  BY <3>1
  <2>3. PICK t, x \in Nat : t = trims /\ x = losses  BY <1>1 DEF TypeOK
  <2>4. PICK u, v \in Nat : u = Window /\ v = Window'  BY <1>1 DEF Window
  <2>5. u + w <= v
    <3>1. highestSent \in Nat /\ highestSent' \in Nat /\ highestSent <= highestSent'
      BY <1>1, <1>4 DEF TypeOK
    <3>2. CASE w = 0
      <4>1. highestSent # 0 => highestSent' # 0  BY <3>1
      <4>2. Window = 0 \/ Window' = Cwnd  BY <4>1 DEF Window
      <4>3. u = 0 \/ (v = Cwnd /\ u <= Cwnd)  BY <1>1, <2>4, <4>2 DEF Window
      <4>4. QED  BY <1>1, <3>2, <4>3
    <3>3. CASE w = Cwnd /\ highestSent = 0 /\ highestSent' > 0
      <4>1. Window = 0 /\ Window' = Cwnd  BY <3>1, <3>3 DEF Window
      <4>2. QED  BY <1>1, <2>4, <3>3, <4>1
    <3>4. QED  BY <3>2, <3>3
  <2>6. l + c <= u + a + t + x  BY <1>1, <2>1, <2>2, <2>3, <2>4 DEF Clocked
  <2>7. m + k <= l + (b - a) + w /\ o <= m + k  BY <1>4, <2>1, <2>2
  <2>8. o + c <= v + b + t + x  BY ONLY <2>5, <2>6, <2>7
  <2>9. QED  BY <1>2, <2>1, <2>2, <2>3, <2>4, <2>8 DEF Clocked
<1>9. TypeOK'
  <2>1. NetOK(net') /\ Distinct(Numbers, rtxQueue') /\ Distinct(Numbers, sentTimes')
    BY <1>4 DEF Places
  <2>2. rtxQueue' \in Seq(1..FlowPackets) /\ sentTimes' \in Seq(1..FlowPackets)
    BY <2>1 DEF Distinct, Numbers
  <2>3. IsABag(net')  BY <2>1, NetIsABag
  <2>4. highestSent' \in 0..FlowPackets /\ lastPull' \in 0..pullNo
    BY <1>1, <1>4 DEF TypeOK
  <2>5. fcts' \in Nat
    <3>1. fcts \in Nat  BY <1>1 DEF TypeOK
    <3>2. \A n \in Nat : n + 1 \in Nat  OBVIOUS
    <3>3. QED  BY <3>1, <3>2
  <2>6. QED  BY <1>1, <1>2, <2>2, <2>3, <2>4, <2>5 DEF TypeOK, Faults
<1>10. QED  BY <1>1, <1>2, <1>5, <1>6, <1>7, <1>8, <1>9 DEF IInv

\* A step of the receiver, of the network or of the timers: the source keeps
\* its queue and its pull.  The invariant is left to its parts.
LEMMA OtherStep ==
  ASSUME IInv, Places(net', feedback', rtxQueue, sentTimes', highestSent),
         NEW p \in Nat, pullNo' = pullNo + p,
         NEW t \in Nat, trims' = trims + t, NEW x \in Nat, losses' = losses + x,
         Load(net', feedback', sentTimes') + p <= Load(net, feedback, sentTimes) + t + x,
         Remembered(net', feedback', rtxQueue, sentTimes', highestSent, Missing', losses'),
         Heard', cumAck' \in cumAck..FlowPackets, received' \subseteq 1..FlowPackets,
         sawLast' \in BOOLEAN, pullQueue' \in Seq(1..pullNo'), events' \in Nat,
         bounces' \in Nat, Faults' <= MaxFaults,
         UNCHANGED <<highestSent, rtxQueue, lastPull, pullWindow, firstWindow, fcts, clos>>
  PROVE  IInv'
<1>1. /\ TypeOK /\ clos \in BOOLEAN /\ Placed /\ Clocked /\ Reported
      /\ FlowPackets \in Nat /\ Cwnd \in Nat
  BY NDPAssumption DEF IInv
<1>2. Placed' /\ KnownStill'  BY DEF Placed, KnownStill
<1>3. cumAck \in 0..FlowPackets  BY <1>1 DEF TypeOK
<1>4. Reported'
  <2>1. cumAck = FlowPackets => cumAck' = FlowPackets  BY <1>1, <1>3
  <2>2. QED  BY <1>1, <2>1 DEF Reported
<1>5. Clocked'
  <2>1. PICK l, o \in Nat : /\ l = Load(net, feedback, sentTimes)
                            /\ o = Load(net', feedback', sentTimes')
    BY <1>1, LoadTypes DEF Placed
  <2>2. PICK a, c, u \in Nat : a = lastPull /\ c = pullNo /\ u = Window
    <3>1. lastPull \in Nat /\ pullNo \in Nat /\ Window \in Nat  BY <1>1 DEF TypeOK, Window
    <3>2. QED  BY <3>1
  <2>3. PICK d, y \in Nat : d = trims /\ y = losses  BY <1>1 DEF TypeOK
  <2>4. l + c <= u + a + d + y  BY <1>1, <2>1, <2>2, <2>3 DEF Clocked
  <2>5. o + p <= l + t + x  BY <2>1
  <2>6. o + (c + p) <= u + a + (d + t) + (y + x)  BY ONLY <2>4, <2>5
  <2>7. Window' = u /\ lastPull' = a  BY <2>2 DEF Window
  <2>8. QED  BY <2>1, <2>2, <2>3, <2>6, <2>7 DEF Clocked
<1>6. TypeOK'
  <2>1. NetOK(net') /\ Distinct(Numbers, sentTimes')  BY DEF Places
  <2>2. sentTimes' \in Seq(1..FlowPackets)  BY <2>1 DEF Distinct, Numbers
  <2>3. IsABag(net')  BY <2>1, NetIsABag
  <2>4. cumAck' \in 0..FlowPackets  BY <1>1, <1>3
  <2>5. /\ pullNo' \in Nat /\ lastPull \in 0..pullNo' /\ trims' \in Nat /\ losses' \in Nat
    <3>1. lastPull \in 0..pullNo /\ pullNo \in Nat /\ trims \in Nat /\ losses \in Nat
      BY <1>1 DEF TypeOK
    <3>2. \A m, n \in Nat : n + m \in Nat /\ 0..n \subseteq 0..(n + m)  OBVIOUS
    <3>3. QED  BY <3>1, <3>2
  <2>6. QED  BY <1>1, <2>2, <2>3, <2>4, <2>5 DEF TypeOK
<1>7. QED  BY <1>1, <1>2, <1>4, <1>5, <1>6 DEF IInv

-----------------------------------------------------------------------------
(* The handlers of the source, of both simulators *)

\* A pull is taken once, however the pulls arrive: pull_packets sends what the
\* pull number is above the last one.
LEMMA PullStep ==
  ASSUME IInv, NEW F, NEW R, NEW S, Places(net, F, R, S, highestSent),
         Remembered(net, F, R, S, highestSent, Missing, losses),
         F \subseteq feedback, feedback' = F,
         Load(net, F, S) <= Load(net, feedback, sentTimes),
         NEW no \in 0..pullNo, PullPackets(no, R, S),
         pullWindow' \in Int, firstWindow' \in Int,
         fcts' = fcts \/ (fcts' = fcts + 1 /\ cumAck = FlowPackets),
         UNCHANGED <<sinkVars, pacerVars, faultVars, clos>>
  PROVE  IInv'
<1>1. lastPull \in Nat /\ pullNo \in Nat /\ lastPull <= pullNo  BY DEF IInv, TypeOK
<1>2. PICK k : k = IF no > lastPull THEN no - lastPull ELSE 0  OBVIOUS
<1>3. Sends(k, R, net, S) /\ lastPull' = IF no > lastPull THEN no ELSE lastPull
  BY <1>2 DEF PullPackets
<1>4. k \in Nat /\ lastPull' \in lastPull..pullNo /\ lastPull' - lastPull = k
  BY <1>1, <1>2, <1>3
<1>5. Load(net, F, S) \in Nat /\ Load(net, feedback, sentTimes) \in Nat
  BY LoadTypes DEF IInv, Placed
<1>6. Load(net, F, S) + k <= Load(net, feedback, sentTimes) + (lastPull' - lastPull) + 0
  BY <1>4, <1>5
<1>7. QED  BY <1>3, <1>4, <1>6, SourceStep

\* The answers are about numbers that were sent, and the pulls were asked for.
LEMMA FeedbackFacts ==
  ASSUME IInv, NEW f \in feedback
  PROVE  /\ f.no \in 0..pullNo /\ 0 \in 0..pullNo
         /\ f.kind = "ack" => f.packet \notin Missing /\ f.cum \in 0..cumAck
<1>1. f.no \in 1..pullNo /\ pullNo \in Nat  BY DEF IInv, Heard, TypeOK
<1>2. QED  BY <1>1 DEF IInv, Heard

\* A pull is taken: what it sends is covered by the pulls that the source had
\* not taken.
LEMMA PullTaken ==
  ASSUME IInv, NEW f \in feedback, f.kind = "pull", feedback' = feedback \ {f},
         PullPackets(f.no, rtxQueue, sentTimes), pullWindow' = pullWindow - 1,
         UNCHANGED <<firstWindow, fcts, sinkVars, pacerVars, faultVars, clos>>
  PROVE  IInv'
<1>1. PICK F : F = feedback \ {f}  OBVIOUS
<1>2. Placed /\ KnownStill /\ pullWindow \in Int /\ firstWindow \in Int
  BY DEF IInv, TypeOK
<1>3. /\ FeedbackOK(F) /\ Answered(F) = Answered(feedback)
  BY <1>1, <1>2, FeedbackRemove DEF Placed, Places
<1>4. Nacks(F) = Nacks(feedback)  BY <1>1 DEF Nacks
<1>5. Places(net, F, rtxQueue, sentTimes, highestSent)
  BY <1>2, <1>3 DEF Placed, Places
<1>6. Remembered(net, F, rtxQueue, sentTimes, highestSent, Missing, losses)
  BY <1>2, <1>3 DEF KnownStill, Remembered
<1>7. Load(net, F, sentTimes) = Load(net, feedback, sentTimes)
  BY <1>3, <1>4 DEF Load, Strays
<1>8. Load(net, feedback, sentTimes) \in Nat  BY <1>2, LoadTypes DEF Placed
<1>9. Load(net, F, sentTimes) <= Load(net, feedback, sentTimes)  BY <1>7, <1>8
<1>10. f.no \in 0..pullNo  BY FeedbackFacts
<1>11. pullWindow' \in Int /\ firstWindow' \in Int  BY <1>2
<1>12. F \subseteq feedback /\ feedback' = F  BY <1>1
<1>13. QED  BY <1>5, <1>6, <1>9, <1>10, <1>11, <1>12, PullStep

\* An ACK is taken, with the pull it may carry.  Its packet has arrived, so the
\* timer that goes is not missed.
LEMMA AckTaken ==
  ASSUME IInv, NEW f \in feedback, f.kind = "ack", feedback' = feedback \ {f},
         PullPackets(IF f.pull THEN f.no ELSE 0, rtxQueue, Without(sentTimes, {f.packet})),
         fcts' = IF AllAcked(f.cum) THEN fcts + 1 ELSE fcts,
         pullWindow' \in {pullWindow, pullWindow + 1}, firstWindow' = firstWindow - 1,
         UNCHANGED <<sinkVars, pacerVars, faultVars, clos>>
  PROVE  IInv'
<1>1. PICK F, S : F = feedback \ {f} /\ S = Without(sentTimes, {f.packet})  OBVIOUS
<1>2. Placed /\ KnownStill /\ pullWindow \in Int /\ firstWindow \in Int
  BY DEF IInv, TypeOK
<1>3. f.packet \notin Missing /\ f.cum \in 0..cumAck /\ f.no \in 0..pullNo /\ 0 \in 0..pullNo
  BY FeedbackFacts
<1>4. /\ Places(net, F, rtxQueue, S, highestSent)
      /\ Load(net, F, S) <= Load(net, feedback, sentTimes)
      /\ Remembered(net, F, rtxQueue, S, highestSent, Missing, losses)
  BY <1>1, <1>2, <1>3, TakeAck DEF Placed, KnownStill
<1>5. fcts' = fcts \/ (fcts' = fcts + 1 /\ cumAck = FlowPackets)
  <2>1. cumAck \in 0..FlowPackets /\ FlowPackets \in Nat  BY NDPAssumption DEF IInv, TypeOK
  <2>2. AllAcked(f.cum) => cumAck = FlowPackets  BY <1>3, <2>1 DEF AllAcked
  <2>3. QED  BY <2>2
<1>6. PICK no : no = IF f.pull THEN f.no ELSE 0  OBVIOUS
<1>7. no \in 0..pullNo /\ PullPackets(no, rtxQueue, S)  BY <1>1, <1>3, <1>6
<1>8. pullWindow' \in Int /\ firstWindow' \in Int  BY <1>2
<1>9. F \subseteq feedback /\ feedback' = F  BY <1>1
<1>10. QED  BY <1>4, <1>5, <1>7, <1>8, <1>9, PullStep

\* A NACK is taken: its packet moves from the answer to the queue, and the one
\* that is sent without a pull was counted with the NACK.
LEMMA NackTaken ==
  ASSUME IInv, NEW f \in feedback, f.kind = "nack", feedback' = feedback \ {f},
         NEW R, R = Append(rtxQueue, f.packet),
         NEW S, S = Without(sentTimes, {f.packet}),
         NEW no \in {0, f.no},
         (Sends(1, R, net, S) /\ lastPull' = lastPull) \/ PullPackets(no, R, S),
         pullWindow' = pullWindow + 1, firstWindow' = firstWindow - 1,
         UNCHANGED <<fcts, sinkVars, pacerVars, faultVars, clos>>
  PROVE  IInv'
<1>1. PICK F : F = feedback \ {f}  OBVIOUS
<1>2. /\ Placed /\ KnownStill /\ pullWindow \in Int /\ firstWindow \in Int
      /\ lastPull \in 0..pullNo /\ pullNo \in Nat
  BY DEF IInv, TypeOK
<1>3. /\ Places(net, F, R, S, highestSent)
      /\ Load(net, F, S) + 1 <= Load(net, feedback, sentTimes)
      /\ Remembered(net, F, R, S, highestSent, Missing, losses)
  <2>1. Places(net, feedback, rtxQueue, sentTimes, highestSent)  BY <1>2 DEF Placed
  <2>2. FeedbackOK(feedback)  BY <2>1 DEF Places
  <2>3. f.packet \in Carries(net) \cup Answered(feedback)  BY <2>2, FeedbackRemove
  <2>4. Requeues(R, rtxQueue, f.packet)  BY <2>1, <2>3, Requeued
  <2>5. Places(net, F, R, S, highestSent)  BY <1>1, <2>1, <2>4, TakeNack
  <2>6. Load(net, F, S) + 1 <= Load(net, feedback, sentTimes)
    BY <1>1, <2>1, <2>4, TakeNack
  <2>7. \A M, lost : Remembered(net, feedback, rtxQueue, sentTimes, highestSent, M, lost) =>
          Remembered(net, F, R, S, highestSent, M, lost)
    <3>1. F = feedback \ {f} /\ S = Without(sentTimes, {f.packet})  BY <1>1
    <3>2. QED
      BY ONLY f \in feedback, f.kind = "nack", <2>1, <2>4, <3>1, TakeNack
  <2>8. QED  BY <1>2, <2>5, <2>6, <2>7 DEF KnownStill
<1>4. pullWindow' \in Int /\ firstWindow' \in Int /\ F \subseteq feedback /\ feedback' = F
  BY <1>1, <1>2
<1>5. Load(net, F, S) \in Nat /\ Load(net, feedback, sentTimes) \in Nat
  BY <1>2, <1>3, LoadTypes DEF Placed
<1>6. CASE Sends(1, R, net, S) /\ lastPull' = lastPull
  <2>1. lastPull' \in lastPull..pullNo /\ lastPull' - lastPull = 0  BY <1>2, <1>6
  <2>2. Load(net, F, S) + 1 <= Load(net, feedback, sentTimes) + (lastPull' - lastPull) + 0
    BY <1>3, <1>5, <2>1
  <2>3. fcts' = fcts \/ (fcts' = fcts + 1 /\ cumAck = FlowPackets)  OBVIOUS
  <2>4. QED  BY <1>3, <1>4, <1>6, <2>1, <2>2, <2>3, SourceStep
<1>7. CASE PullPackets(no, R, S)
  <2>1. no \in 0..pullNo  BY FeedbackFacts
  <2>2. Load(net, F, S) <= Load(net, feedback, sentTimes)  BY <1>3, <1>5
  <2>3. QED  BY <1>3, <1>4, <1>7, <2>1, <2>2, PullStep
<1>8. QED  BY <1>6, <1>7

\* A returned packet is taken: it moves from the network to the queue.
LEMMA BouncedTaken ==
  ASSUME IInv, NEW p \in DOMAIN net, p.form = "bounced", NEW k \in {0, 1},
         Sends(k, <<p.no>> \o rtxQueue, net (-) One(p), Without(sentTimes, {p.no})),
         firstWindow' = firstWindow - 1,
         UNCHANGED <<lastPull, pullWindow, fcts, sinkVars, pacerVars, feedback, faultVars, clos>>
  PROVE  IInv'
<1>1. PICK N, R, S : N = net (-) One(p) /\ R = <<p.no>> \o rtxQueue
                     /\ S = Without(sentTimes, {p.no})
  OBVIOUS
<1>2. /\ Placed /\ KnownStill /\ pullWindow \in Int /\ firstWindow \in Int
      /\ lastPull \in 0..pullNo /\ pullNo \in Nat
  BY DEF IInv, TypeOK
<1>3. /\ Places(N, feedback, R, S, highestSent)
      /\ Load(N, feedback, S) + 1 <= Load(net, feedback, sentTimes)
      /\ Remembered(N, feedback, R, S, highestSent, Missing, losses)
  <2>1. Places(net, feedback, rtxQueue, sentTimes, highestSent)  BY <1>2 DEF Placed
  <2>2. p.no \in Carries(net) \cup Answered(feedback)  BY DEF Carries
  <2>3. Requeues(<<p.no>> \o rtxQueue, rtxQueue, p.no)  BY <2>1, <2>2, Requeued
  <2>4. Requeues(R, rtxQueue, p.no)  BY <1>1, <2>3
  <2>5. Places(N, feedback, R, S, highestSent)  BY <1>1, <2>1, <2>4, TakeBounced
  <2>6. Load(N, feedback, S) + 1 <= Load(net, feedback, sentTimes)
    BY <1>1, <2>1, <2>4, TakeBounced
  <2>7. \A M, lost : Remembered(net, feedback, rtxQueue, sentTimes, highestSent, M, lost) =>
          Remembered(N, feedback, R, S, highestSent, M, lost)
    <3>1. N = net (-) One(p) /\ S = Without(sentTimes, {p.no})  BY <1>1
    <3>2. PICK q \in DOMAIN net : q = p /\ q.form = "bounced"  OBVIOUS
    <3>3. N = net (-) One(q) /\ S = Without(sentTimes, {q.no}) /\ Requeues(R, rtxQueue, q.no)
      BY <2>4, <3>1, <3>2
    <3>4. QED  BY ONLY <2>1, <3>2, <3>3, TakeBounced
  <2>8. QED  BY <1>2, <2>5, <2>6, <2>7 DEF KnownStill
<1>4. Load(N, feedback, S) \in Nat /\ Load(net, feedback, sentTimes) \in Nat
  BY <1>2, <1>3, LoadTypes DEF Placed
<1>5. lastPull' \in lastPull..pullNo /\ lastPull' - lastPull = 0  BY <1>2
<1>6. Load(N, feedback, S) + k <= Load(net, feedback, sentTimes) + (lastPull' - lastPull) + 0
  BY <1>3, <1>4, <1>5
<1>7. pullWindow' \in Int /\ firstWindow' \in Int /\ Sends(k, R, N, S) /\ k \in Nat
  BY <1>1, <1>2
<1>8. fcts' = fcts \/ (fcts' = fcts + 1 /\ cumAck = FlowPackets)  OBVIOUS
<1>9. feedback \subseteq feedback /\ feedback' = feedback  OBVIOUS
<1>10. QED  BY <1>3, <1>5, <1>6, <1>7, <1>8, <1>9, SourceStep

\* The first window.
LEMMA FlowStarted ==
  ASSUME IInv, StartFlow, UNCHANGED clos  PROVE IInv'
<1>1. /\ Placed /\ KnownStill /\ pullWindow \in Int /\ lastPull \in 0..pullNo /\ pullNo \in Nat
      /\ highestSent = 0 /\ FlowPackets \in Nat \ {0} /\ Cwnd \in Nat \ {0}
  BY NDPAssumption DEF IInv, TypeOK, StartFlow
<1>2. PICK k : k = FirstWindow  OBVIOUS
<1>3. k \in Nat \ {0} /\ k <= Cwnd /\ k <= FlowPackets
  BY <1>1, <1>2 DEF FirstWindow, LesserOf
<1>4. PICK e : e = <<>>  OBVIOUS
<1>5. Distinct(Numbers, e) /\ Members(e) = {} /\ Len(e) = 0  BY <1>4, EmptyDistinct
<1>6. Sends(k, e, net, e)  BY <1>2, <1>4 DEF StartFlow
<1>7. highestSent' > 0
  <2>1. LesserOf(k, Len(e)) = 0  BY <1>3, <1>5 DEF LesserOf
  <2>2. highestSent' = highestSent + New(k - 0)  BY <1>6, <2>1 DEF Sends
  <2>3. New(k - 0) = k  BY <1>1, <1>3 DEF New, LesserOf
  <2>4. QED  BY <1>1, <1>3, <2>2, <2>3
<1>8. Places(net, feedback, e, e, highestSent)  BY <1>1, <1>5 DEF Placed, Places
<1>9. Remembered(net, feedback, e, e, highestSent, Missing, losses)
  <2>1. 1..highestSent = {}  BY <1>1
  <2>2. QED  BY <2>1 DEF Remembered
<1>10. Load(net, feedback, e) <= Load(net, feedback, sentTimes)
  <2>1. Strays(net, feedback, e) \subseteq Strays(net, feedback, sentTimes)
    BY <1>5 DEF Strays
  <2>2. /\ Cardinality(Strays(net, feedback, e)) \in Nat
        /\ Cardinality(Strays(net, feedback, e)) <= Cardinality(Strays(net, feedback, sentTimes))
    BY <1>1, <2>1, StraysShrink DEF Placed
  <2>3. /\ Cardinality(DOMAIN net) \in Nat /\ Cardinality(Headers(net)) \in Nat
        /\ Cardinality(Nacks(feedback)) \in Nat
        /\ Cardinality(Strays(net, feedback, sentTimes)) \in Nat
    BY <1>1, LoadTypes DEF Placed
  <2>4. QED  BY <2>2, <2>3 DEF Load
<1>11. Load(net, feedback, e) + k <= Load(net, feedback, sentTimes) + (lastPull' - lastPull) + Cwnd
  <2>1. lastPull' - lastPull = 0  BY <1>1 DEF StartFlow
  <2>2. Load(net, feedback, e) \in Nat /\ Load(net, feedback, sentTimes) \in Nat
    BY <1>1, <1>8, LoadTypes DEF Placed
  <2>3. QED  BY <1>1, <1>3, <1>10, <2>1, <2>2
<1>12. /\ lastPull' \in lastPull..pullNo /\ pullWindow' \in Int /\ firstWindow' \in Int
       /\ fcts' = fcts /\ feedback' = feedback
       /\ UNCHANGED <<sinkVars, pacerVars, faultVars, clos>>
  BY <1>1, <1>2, <1>3 DEF StartFlow
<1>13. PICK w \in Nat : w = Cwnd  BY <1>1
<1>14. w = 0 \/ (w = Cwnd /\ highestSent = 0 /\ highestSent' > 0)  BY <1>1, <1>7, <1>13
<1>15. Load(net, feedback, e) + k <= Load(net, feedback, sentTimes) + (lastPull' - lastPull) + w
  BY <1>11, <1>13
<1>16. fcts' = fcts \/ (fcts' = fcts + 1 /\ cumAck = FlowPackets)  BY <1>12
<1>17. k \in Nat /\ feedback \subseteq feedback  BY <1>3
<1>18. QED  BY <1>6, <1>8, <1>9, <1>12, <1>14, <1>15, <1>16, <1>17, SourceStep

-----------------------------------------------------------------------------
(* The timers, the receiver and the network *)

\* UnderWay says where the number of a packet is.
LEMMA UnderWayPlaces ==
  ASSUME Placed, NEW n
  PROVE  UnderWay(n) <=> n \in Carries(net) \cup Answered(feedback)
<1>1. ASSUME NEW p \in DOMAIN net  PROVE p = Packet(p.no, p.form) /\ p.form \in Forms
  <2>1. p \in Packets  BY DEF Placed, Places, NetOK
  <2>2. QED  BY <2>1 DEF Packets, Packet
<1>2. n \in Carries(net) <=> \E form \in Forms : Packet(n, form) \in DOMAIN net
  <2>1. ASSUME n \in Carries(net)  PROVE \E form \in Forms : Packet(n, form) \in DOMAIN net
    BY <1>1, <2>1 DEF Carries
  <2>2. ASSUME NEW form \in Forms, Packet(n, form) \in DOMAIN net  PROVE n \in Carries(net)
    <3>1. Packet(n, form).no = n  BY DEF Packet
    <3>2. QED  BY <2>2, <3>1 DEF Carries
  <2>3. QED  BY <2>1, <2>2
<1>3. n \in Answered(feedback) <=> \E f \in feedback : f.kind # "pull" /\ f.packet = n
  BY DEF Answered, Answers
<1>4. QED  BY <1>2, <1>3 DEF UnderWay, Forms

\* The timers of the oldest packets run out.
LEMMA TimedOut ==
  ASSUME IInv, NEW k \in 1..Len(sentTimes), Timeout(k), UNCHANGED clos  PROVE IInv'
<1>1. /\ TypeOK /\ Placed /\ KnownStill /\ Heard
      /\ highestSent' = highestSent /\ rtxQueue' = rtxQueue /\ lastPull' = lastPull
      /\ pullWindow' = pullWindow /\ firstWindow' = firstWindow /\ fcts' = fcts
      /\ cumAck' = cumAck /\ received' = received /\ sawLast' = sawLast /\ pullNo' = pullNo
      /\ pullQueue' = pullQueue /\ events' = events /\ feedback' = feedback
      /\ trims' = trims /\ bounces' = bounces /\ losses' = losses
  BY DEF IInv, Timeout, sinkVars, pacerVars, faultVars
<1>2. PICK K, L, T : /\ K = {sentTimes[i] : i \in 1..k}
                     /\ T = SubSeq(sentTimes, k + 1, Len(sentTimes))
                     /\ L = net (+) BagOfSeq([i \in 1..k |-> Packet(sentTimes[i], "data")])
  OBVIOUS
<1>3. L = net' /\ T = sentTimes'  BY <1>2 DEF Timeout
<1>4. K \cap (Carries(net) \cup Answered(feedback)) = {}
  <2>1. \A i \in 1..k : ~ UnderWay(sentTimes[i])  BY DEF Timeout
  <2>2. QED  BY <1>1, <1>2, <2>1, UnderWayPlaces
<1>5. Places(net, feedback, rtxQueue, sentTimes, highestSent)  BY <1>1 DEF Placed
<1>6. Places(L, feedback, rtxQueue, T, highestSent)
  BY ONLY <1>2, <1>4, <1>5, k \in 1..Len(sentTimes), TimeoutPlaces
<1>7. Load(L, feedback, T) <= Load(net, feedback, sentTimes)
  BY ONLY <1>2, <1>4, <1>5, k \in 1..Len(sentTimes), TimeoutPlaces, ZenonT(30)
<1>8. KnownFurther(net, sentTimes, L, T, feedback, rtxQueue, highestSent)
  BY ONLY <1>2, <1>4, <1>5, k \in 1..Len(sentTimes), TimeoutPlaces
<1>9. Remembered(net', feedback', rtxQueue, sentTimes', highestSent, Missing', losses')
  <2>1. Missing' = Missing  BY <1>1 DEF Missing
  <2>2. QED  BY <1>1, <1>3, <1>8, <2>1 DEF KnownStill, KnownFurther
<1>10. Load(net', feedback', sentTimes') + 0 <= Load(net, feedback, sentTimes) + 0 + 0
  <2>1. Load(L, feedback, T) \in Nat /\ Load(net, feedback, sentTimes) \in Nat
    BY <1>5, <1>6, LoadTypes
  <2>2. QED  BY <1>1, <1>3, <1>7, <2>1
<1>11. Heard'  BY <1>1 DEF Heard, Missing
<1>12. Places(net', feedback', rtxQueue, sentTimes', highestSent)  BY <1>1, <1>3, <1>6
<1>13. /\ pullNo' = pullNo + 0 /\ trims' = trims + 0 /\ losses' = losses + 0
       /\ cumAck' \in cumAck..FlowPackets /\ Faults' <= MaxFaults
  <2>1. Faults' = Faults  BY <1>1 DEF Faults
  <2>2. /\ pullNo \in Nat /\ trims \in Nat /\ losses \in Nat /\ cumAck \in 0..FlowPackets
        /\ Faults <= MaxFaults /\ FlowPackets \in Nat
    BY <1>1, NDPAssumption DEF TypeOK
  <2>3. QED  BY <1>1, <2>1, <2>2
<1>14. /\ received' \subseteq 1..FlowPackets /\ sawLast' \in BOOLEAN
       /\ pullQueue' \in Seq(1..pullNo') /\ events' \in Nat /\ bounces' \in Nat
  BY <1>1 DEF TypeOK
<1>15. QED
  BY <1>1, <1>9, <1>10, <1>11, <1>12, <1>13, <1>14, OtherStep

\* A packet takes another form: the queue trims it, or returns the header.
LEMMA Reformed ==
  ASSUME IInv, NEW p \in DOMAIN net, Trim(p) \/ Bounce(p), UNCHANGED clos  PROVE IInv'
<1>1. PICK form \in {"header", "bounced"}, t \in {0, 1} :
        /\ Reform(p, form) /\ t = (IF form = "header" THEN 1 ELSE 0)
        /\ trims' = trims + t /\ bounces' = bounces + (1 - t) /\ losses' = losses
        /\ Faults < MaxFaults
  <2>1. trims \in Nat /\ bounces \in Nat  BY DEF IInv, TypeOK
  <2>2. CASE Trim(p)
    <3>1. /\ Reform(p, "header") /\ Faults < MaxFaults /\ losses' = losses
          /\ trims' = trims + 1 /\ bounces' = bounces + (1 - 1)
      BY <2>1, <2>2 DEF Trim
    <3>2. QED  BY <3>1
  <2>3. CASE Bounce(p)
    <3>1. /\ Reform(p, "bounced") /\ Faults < MaxFaults /\ losses' = losses
          /\ trims' = trims + 0 /\ bounces' = bounces + (1 - 0)
      BY <2>1, <2>3 DEF Bounce
    <3>2. QED  BY <3>1
  <2>4. QED  BY <2>2, <2>3
<1>2. /\ TypeOK /\ Placed /\ KnownStill /\ Heard
      /\ highestSent' = highestSent /\ rtxQueue' = rtxQueue /\ lastPull' = lastPull
      /\ pullWindow' = pullWindow /\ firstWindow' = firstWindow /\ fcts' = fcts
      /\ cumAck' = cumAck /\ received' = received /\ sawLast' = sawLast /\ pullNo' = pullNo
      /\ pullQueue' = pullQueue /\ events' = events /\ feedback' = feedback
      /\ sentTimes' = sentTimes
  BY <1>1 DEF IInv, Reform, srcVars, sinkVars, pacerVars
<1>3. PICK L : L = (net (-) One(p)) (+) One(Packet(p.no, form))  OBVIOUS
<1>4. L = net'  BY <1>1, <1>3 DEF Reform
<1>5. Places(net, feedback, rtxQueue, sentTimes, highestSent)  BY <1>2 DEF Placed
<1>6. Places(L, feedback, rtxQueue, sentTimes, highestSent)
  BY ONLY <1>3, <1>5, p \in DOMAIN net, form \in {"header", "bounced"}, ReformPlaces
<1>7. Load(L, feedback, sentTimes) <= Load(net, feedback, sentTimes) + t
  BY ONLY <1>1, <1>3, <1>5, p \in DOMAIN net, form \in {"header", "bounced"}, ReformPlaces
<1>8. \A M, lost : Remembered(net, feedback, rtxQueue, sentTimes, highestSent, M, lost) =>
        Remembered(L, feedback, rtxQueue, sentTimes, highestSent, M, lost)
  BY ONLY <1>3, <1>5, p \in DOMAIN net, form \in {"header", "bounced"}, ReformPlaces
<1>9. Remembered(net', feedback', rtxQueue, sentTimes', highestSent, Missing', losses')
  <2>1. Missing' = Missing  BY <1>2 DEF Missing
  <2>2. QED  BY <1>1, <1>2, <1>4, <1>8, <2>1 DEF KnownStill
<1>10. Load(net', feedback', sentTimes') + 0 <= Load(net, feedback, sentTimes) + t + 0
  <2>1. Load(L, feedback, sentTimes) \in Nat /\ Load(net, feedback, sentTimes) \in Nat
    BY <1>5, <1>6, LoadTypes
  <2>2. QED  BY <1>2, <1>4, <1>7, <2>1
<1>11. Heard'  BY <1>2 DEF Heard, Missing
<1>12. Places(net', feedback', rtxQueue, sentTimes', highestSent)  BY <1>2, <1>4, <1>6
<1>13. /\ pullNo' = pullNo + 0 /\ losses' = losses + 0 /\ cumAck' \in cumAck..FlowPackets
       /\ bounces' \in Nat /\ Faults' <= MaxFaults
  <2>1. PICK a, b, c, m \in Nat : a = trims /\ b = bounces /\ c = losses /\ m = MaxFaults
    BY <1>2, NDPAssumption DEF TypeOK
  <2>2. a + b + c < m /\ trims' = a + t /\ bounces' = b + (1 - t) /\ losses' = c
    BY <1>1, <2>1 DEF Faults
  <2>3. (a + t) + (b + (1 - t)) + c <= m /\ b + (1 - t) \in Nat  BY ONLY <2>2, t \in {0, 1}
  <2>4. Faults' <= MaxFaults /\ bounces' \in Nat  BY <2>1, <2>2, <2>3 DEF Faults
  <2>5. QED  BY <1>1, <1>2, <2>4, NDPAssumption DEF TypeOK
<1>14. /\ received' \subseteq 1..FlowPackets /\ sawLast' \in BOOLEAN
       /\ pullQueue' \in Seq(1..pullNo') /\ events' \in Nat
  BY <1>2 DEF TypeOK
<1>15. t \in Nat /\ trims' = trims + t  BY <1>1
<1>16. QED
  BY <1>2, <1>9, <1>10, <1>11, <1>12, <1>13, <1>14, <1>15, OtherStep

\* A returned packet, or feedback, is lost.
LEMMA Lost ==
  ASSUME IInv, UNCHANGED clos, UNCHANGED <<srcVars, sinkVars, pacerVars, trims, bounces>>,
         Faults < MaxFaults, losses' = losses + 1,
         \/ \E p \in DOMAIN net :
              p.form = "bounced" /\ net' = net (-) One(p) /\ feedback' = feedback
         \/ \E f \in feedback : feedback' = feedback \ {f} /\ net' = net
  PROVE  IInv'
<1>1. /\ TypeOK /\ Placed /\ KnownStill /\ Heard /\ feedback' \subseteq feedback
      /\ highestSent' = highestSent /\ rtxQueue' = rtxQueue /\ lastPull' = lastPull
      /\ pullWindow' = pullWindow /\ firstWindow' = firstWindow /\ fcts' = fcts
      /\ cumAck' = cumAck /\ received' = received /\ sawLast' = sawLast /\ pullNo' = pullNo
      /\ pullQueue' = pullQueue /\ events' = events /\ sentTimes' = sentTimes
      /\ trims' = trims /\ bounces' = bounces
  BY DEF IInv, srcVars, sinkVars, pacerVars
<1>2. PICK L, G : L = net' /\ G = feedback'  OBVIOUS
<1>3. Places(net, feedback, rtxQueue, sentTimes, highestSent)  BY <1>1 DEF Placed
<1>4. Load(net, feedback, sentTimes) \in Nat  BY <1>3, LoadTypes
<1>5. /\ Places(L, G, rtxQueue, sentTimes, highestSent)
      /\ Load(L, G, sentTimes) <= Load(net, feedback, sentTimes) + 1
      /\ \A M : \A lost \in Nat :
           Remembered(net, feedback, rtxQueue, sentTimes, highestSent, M, lost) =>
             Remembered(L, G, rtxQueue, sentTimes, highestSent, M, lost + 1)
  <2>1. CASE \E p \in DOMAIN net :
               p.form = "bounced" /\ net' = net (-) One(p) /\ feedback' = feedback
    <3>1. PICK p \in DOMAIN net : p.form = "bounced" /\ L = net (-) One(p)  BY <1>2, <2>1
    <3>2. G = feedback  BY <1>2, <2>1
    <3>3. Places(L, feedback, rtxQueue, sentTimes, highestSent)
      BY ONLY <1>3, <3>1, DropPlaces
    <3>4. Load(L, feedback, sentTimes) <= Load(net, feedback, sentTimes)
      BY ONLY <1>3, <3>1, DropPlaces
    <3>5. \A M : \A lost \in Nat :
            Remembered(net, feedback, rtxQueue, sentTimes, highestSent, M, lost) =>
              Remembered(L, feedback, rtxQueue, sentTimes, highestSent, M, lost + 1)
      BY ONLY <1>3, <3>1, DropPlaces
    <3>6. Load(L, feedback, sentTimes) \in Nat  BY <3>3, LoadTypes
    <3>7. Load(L, feedback, sentTimes) <= Load(net, feedback, sentTimes) + 1
      BY <1>4, <3>4, <3>6
    <3>8. QED  BY <3>2, <3>3, <3>5, <3>7
  <2>2. CASE \E f \in feedback : feedback' = feedback \ {f} /\ net' = net
    <3>1. PICK f \in feedback : G = feedback \ {f}  BY <1>2, <2>2
    <3>2. L = net  BY <1>2, <2>2
    <3>3. Places(net, G, rtxQueue, sentTimes, highestSent)
      BY ONLY <1>3, <3>1, LosePlaces
    <3>4. Load(net, G, sentTimes) <= Load(net, feedback, sentTimes) + 1
      BY ONLY <1>3, <3>1, LosePlaces
    <3>5. \A M : \A lost \in Nat :
            Remembered(net, feedback, rtxQueue, sentTimes, highestSent, M, lost) =>
              Remembered(net, G, rtxQueue, sentTimes, highestSent, M, lost + 1)
      BY ONLY <1>3, <3>1, LosePlaces
    <3>6. QED  BY <3>2, <3>3, <3>4, <3>5
  <2>3. QED  BY <2>1, <2>2
<1>6. Remembered(net', feedback', rtxQueue, sentTimes', highestSent, Missing', losses')
  <2>1. Missing' = Missing /\ losses \in Nat  BY <1>1 DEF Missing, TypeOK
  <2>2. QED  BY <1>1, <1>2, <1>5, <2>1 DEF KnownStill
<1>7. Load(net', feedback', sentTimes') + 0 <= Load(net, feedback, sentTimes) + 0 + 1
  <2>1. Load(L, G, sentTimes) \in Nat  BY <1>5, LoadTypes
  <2>2. QED  BY <1>1, <1>2, <1>4, <1>5, <2>1
<1>8. Heard'  BY <1>1 DEF Heard, Missing
<1>9. Places(net', feedback', rtxQueue, sentTimes', highestSent)  BY <1>1, <1>2, <1>5
<1>10. /\ pullNo' = pullNo + 0 /\ trims' = trims + 0 /\ cumAck' \in cumAck..FlowPackets
       /\ bounces' \in Nat /\ Faults' <= MaxFaults
  <2>1. PICK a, b, c, m \in Nat : a = trims /\ b = bounces /\ c = losses /\ m = MaxFaults
    BY <1>1, NDPAssumption DEF TypeOK
  <2>2. a + b + c < m /\ losses' = c + 1  BY <2>1 DEF Faults
  <2>3. a + b + (c + 1) <= m  BY ONLY <2>2
  <2>4. Faults' <= MaxFaults  BY <1>1, <2>1, <2>2, <2>3 DEF Faults
  <2>5. QED  BY <1>1, <2>4, NDPAssumption DEF TypeOK
<1>11. /\ received' \subseteq 1..FlowPackets /\ sawLast' \in BOOLEAN
       /\ pullQueue' \in Seq(1..pullNo') /\ events' \in Nat
  BY <1>1 DEF TypeOK
<1>12. QED
  BY <1>1, <1>6, <1>7, <1>8, <1>9, <1>10, <1>11, OtherStep

\* An answer carries the next pull number, with the pull or without it.
LEMMA Paced ==
  ASSUME TypeOK, NEW kind, NEW packet, NEW cum, NEW released,
         PacedFeedback(kind, packet, cum, released)
  PROVE  /\ pullNo' = pullNo + 1 /\ pullQueue' \in Seq(1..pullNo') /\ events' \in Nat
         /\ \E b \in BOOLEAN :
              feedback' = feedback \cup
                {[kind |-> kind, packet |-> packet, cum |-> cum, no |-> pullNo', pull |-> b]}
<1>1. pullNo' = pullNo + 1  BY DEF PacedFeedback
<1>2. /\ pullNo \in Nat /\ pullQueue \in Seq(1..pullNo) /\ events \in Nat  BY DEF TypeOK
<1>3. pullNo' \in 1..pullNo' /\ 1..pullNo \subseteq 1..pullNo'  BY <1>1, <1>2
<1>4. pullQueue \in Seq(1..pullNo')
  <2>1. Len(pullQueue) \in Nat /\ pullQueue \in [1..Len(pullQueue) -> 1..pullNo]
    BY <1>2, LenProperties
  <2>2. pullQueue \in [1..Len(pullQueue) -> 1..pullNo']  BY <1>3, <2>1
  <2>3. QED  BY <2>1, <2>2, SeqDef
<1>5. Append(pullQueue, pullNo') \in Seq(1..pullNo')  BY <1>3, <1>4, AppendProperties
<1>6. <<>> \in Seq(1..pullNo')  BY EmptySeq
<1>7. CASE /\ pullQueue = <<>>
           /\ feedback' = feedback \cup
                {[kind |-> kind, packet |-> packet, cum |-> cum, no |-> pullNo', pull |-> TRUE]}
           /\ UNCHANGED pacerVars
  BY <1>1, <1>2, <1>4, <1>7 DEF pacerVars
<1>8. CASE /\ feedback' = feedback \cup
                {[kind |-> kind, packet |-> packet, cum |-> cum, no |-> pullNo', pull |-> FALSE]}
           /\ pullQueue' = IF released THEN <<>> ELSE Append(pullQueue, pullNo')
           /\ events' = IF pullQueue = <<>> THEN events + 1 ELSE events
  <2>1. events' \in Nat  BY <1>2, <1>8
  <2>2. pullQueue' \in Seq(1..pullNo')  BY <1>5, <1>6, <1>8
  <2>3. QED  BY <1>1, <1>8, <2>1, <2>2
<1>9. QED  BY <1>7, <1>8 DEF PacedFeedback

\* The receiver answers a packet.
LEMMA AnswerSent ==
  ASSUME IInv, NEW p \in DOMAIN net, NEW kind \in {"ack", "nack"},
         kind = "nack" => p.form = "header", kind = "ack" => p.no \notin Missing',
         NEW cum \in 0..cumAck', NEW released, PacedFeedback(kind, p.no, cum, released),
         net' = net (-) One(p), Missing' \subseteq Missing,
         cumAck' \in cumAck..FlowPackets, received' \subseteq 1..FlowPackets,
         sawLast' \in BOOLEAN, UNCHANGED <<srcVars, faultVars, clos>>
  PROVE  IInv'
<1>1. /\ TypeOK /\ Placed /\ KnownStill /\ Heard
      /\ highestSent' = highestSent /\ rtxQueue' = rtxQueue /\ lastPull' = lastPull
      /\ pullWindow' = pullWindow /\ firstWindow' = firstWindow /\ fcts' = fcts
      /\ sentTimes' = sentTimes /\ trims' = trims /\ bounces' = bounces /\ losses' = losses
  BY DEF IInv, srcVars, faultVars
<1>2. /\ pullNo' = pullNo + 1 /\ pullQueue' \in Seq(1..pullNo') /\ events' \in Nat
      /\ \E b \in BOOLEAN :
           feedback' = feedback \cup
             {[kind |-> kind, packet |-> p.no, cum |-> cum, no |-> pullNo', pull |-> b]}
  BY <1>1, Paced
<1>3. PICK b \in BOOLEAN :
        feedback' = feedback \cup
          {[kind |-> kind, packet |-> p.no, cum |-> cum, no |-> pullNo', pull |-> b]}
  BY <1>2
<1>4. PICK a : a = [kind |-> kind, packet |-> p.no, cum |-> cum, no |-> pullNo', pull |-> b]
  OBVIOUS
<1>5. /\ pullNo \in Nat /\ pullNo' \in Nat /\ cumAck \in 0..FlowPackets /\ FlowPackets \in Nat
      /\ Faults <= MaxFaults /\ trims \in Nat /\ bounces \in Nat /\ losses \in Nat
  BY <1>1, <1>2, NDPAssumption DEF TypeOK
<1>6. a \in AnswerType /\ a.packet = p.no /\ a.kind = kind /\ a.no = pullNo' /\ a.cum = cum
  <2>1. p.no \in Numbers  BY <1>1 DEF Placed, Places, NetOK, Packets
  <2>2. cum \in 0..FlowPackets  BY <1>5
  <2>3. QED  BY <1>4, <1>5, <2>1, <2>2 DEF AnswerType
<1>7. PICK L, G : L = net (-) One(p) /\ G = feedback \cup {a}  OBVIOUS
<1>8. L = net' /\ G = feedback'  BY <1>3, <1>4, <1>7
<1>9. Places(net, feedback, rtxQueue, sentTimes, highestSent)  BY <1>1 DEF Placed
<1>10. a.kind = "nack" => p.form = "header"  BY <1>6
<1>11. Places(L, G, rtxQueue, sentTimes, highestSent)
  BY ONLY p \in DOMAIN net, <1>6, <1>7, <1>9, <1>10, AnswerPlaces
<1>12. Load(L, G, sentTimes) + 1 <= Load(net, feedback, sentTimes)
  BY ONLY p \in DOMAIN net, <1>6, <1>7, <1>9, <1>10, AnswerPlaces
<1>13. \A M, lost : Remembered(net, feedback, rtxQueue, sentTimes, highestSent, M, lost) =>
         Remembered(L, G, rtxQueue, sentTimes, highestSent, M, lost)
  BY ONLY p \in DOMAIN net, <1>6, <1>7, <1>9, <1>10, AnswerPlaces
<1>14. Remembered(net', feedback', rtxQueue, sentTimes', highestSent, Missing', losses')
  <2>1. Remembered(L, G, rtxQueue, sentTimes, highestSent, Missing, losses)
    BY <1>1, <1>13 DEF KnownStill
  <2>2. Remembered(L, G, rtxQueue, sentTimes, highestSent, Missing', losses)
    BY <2>1 DEF Remembered
  <2>3. QED  BY <1>1, <1>8, <2>2
<1>15. Load(net', feedback', sentTimes') + 1 <= Load(net, feedback, sentTimes) + 0 + 0
  <2>1. Load(L, G, sentTimes) \in Nat /\ Load(net, feedback, sentTimes) \in Nat
    BY <1>9, <1>11, LoadTypes
  <2>2. QED  BY <1>1, <1>8, <1>12, <2>1
<1>16. Heard'
  <2>1. ASSUME NEW f \in feedback
        PROVE  /\ f.no \in 1..pullNo'
               /\ f.kind = "ack" => f.packet \notin Missing' /\ f.cum \in 0..cumAck'
    <3>1. /\ f.no \in 1..pullNo
          /\ f.kind = "ack" => f.packet \notin Missing /\ f.cum \in 0..cumAck
      BY <1>1 DEF Heard
    <3>2. 1..pullNo \subseteq 1..pullNo' /\ 0..cumAck \subseteq 0..cumAck'  BY <1>2, <1>5
    <3>3. QED  BY <3>1, <3>2
  <2>2. a.no \in 1..pullNo' /\ (a.kind = "ack" => a.packet \notin Missing' /\ a.cum \in 0..cumAck')
    BY <1>2, <1>5, <1>6
  <2>3. QED  BY <1>7, <1>8, <2>1, <2>2 DEF Heard
<1>17. Places(net', feedback', rtxQueue, sentTimes', highestSent)  BY <1>1, <1>8, <1>11
<1>18. /\ trims' = trims + 0 /\ losses' = losses + 0 /\ bounces' \in Nat
       /\ Faults' <= MaxFaults
  <2>1. Faults' = Faults  BY <1>1 DEF Faults
  <2>2. QED  BY <1>1, <1>5, <2>1
<1>19. QED
  BY <1>1, <1>2, <1>14, <1>15, <1>16, <1>17, <1>18, OtherStep

\* A header is answered with a NACK, and the packet stays missing.
LEMMA HeaderReceived ==
  ASSUME IInv, NEW p \in DOMAIN net, ReceiveHeader(p), UNCHANGED clos  PROVE IInv'
<1>1. /\ p.form = "header" /\ PacedFeedback("nack", p.no, cumAck, FALSE)
      /\ net' = net (-) One(p) /\ UNCHANGED <<srcVars, faultVars, clos>>
      /\ cumAck' = cumAck /\ received' = received /\ sawLast' = sawLast
  BY DEF ReceiveHeader
<1>2. /\ cumAck \in 0..FlowPackets /\ received \subseteq 1..FlowPackets /\ sawLast \in BOOLEAN
      /\ FlowPackets \in Nat
  BY NDPAssumption DEF IInv, TypeOK
<1>3. Missing' = Missing  BY <1>1 DEF Missing
<1>4. cumAck \in 0..cumAck' /\ cumAck' \in cumAck..FlowPackets  BY <1>1, <1>2
<1>5. "nack" \in {"ack", "nack"} /\ "nack" # "ack"  OBVIOUS
<1>6. QED  BY <1>1, <1>2, <1>3, <1>4, <1>5, AnswerSent

\* The list of packets above a hole is merged up to the next hole.
LEMMA MergedFacts ==
  ASSUME FlowPackets \in Nat, received \subseteq 1..FlowPackets, NEW n \in 1..FlowPackets
  PROVE  Merged(n) \in n..FlowPackets /\ (n + 1)..Merged(n) \subseteq received
<1>1. PICK T : T = {m \in n..FlowPackets : m + 1 \notin received}  OBVIOUS
<1>2. FlowPackets \in T
  <2>1. FlowPackets + 1 \notin 1..FlowPackets /\ FlowPackets \in n..FlowPackets  OBVIOUS
  <2>2. QED  BY <1>1, <2>1
<1>3. T \in SUBSET Nat /\ T # {}  BY <1>1, <1>2
<1>4. PICK m \in T : \A y \in T : m <= y  BY <1>3, LeastElement
<1>5. m \in n..FlowPackets /\ m + 1 \notin received  BY <1>1, <1>4
<1>6. ASSUME NEW x \in (n + 1)..m  PROVE x \in received
  <2>1. x - 1 \in n..FlowPackets /\ ~ (m <= x - 1) /\ (x - 1) + 1 = x  BY <1>5
  <2>2. x - 1 \notin T  BY <1>4, <2>1
  <2>3. QED  BY <1>1, <2>1, <2>2
<1>7. \E k \in n..FlowPackets : (n + 1)..k \subseteq received /\ k + 1 \notin received
  BY <1>5, <1>6
<1>8. QED  BY <1>7 DEF Merged

\* Nothing that has arrived is forgotten, and what is in a packet arrives.
LEMMA DataArrives ==
  ASSUME IInv, NEW p \in DOMAIN net,
         cumAck' = (IF p.no = cumAck + 1 THEN Merged(p.no) ELSE cumAck),
         received' = {m \in received \cup {p.no} : m > cumAck'}
  PROVE  /\ cumAck' \in cumAck..FlowPackets /\ received' \subseteq 1..FlowPackets
         /\ (1..cumAck) \cup received \cup {p.no} \subseteq (1..cumAck') \cup received'
         /\ (1..cumAck') \cup received' \subseteq 1..FlowPackets
<1>1. /\ FlowPackets \in Nat /\ cumAck \in 0..FlowPackets /\ received \subseteq 1..FlowPackets
  BY NDPAssumption DEF IInv, TypeOK
<1>2. p.no \in 1..FlowPackets
  BY DEF IInv, Placed, Places, NetOK, Packets, Numbers
<1>3. cumAck' \in cumAck..FlowPackets
      /\ \A m \in (cumAck + 1)..cumAck' : m \in received \cup {p.no}
  <2>1. CASE p.no = cumAck + 1
    <3>1. cumAck' \in p.no..FlowPackets /\ (p.no + 1)..cumAck' \subseteq received
      BY <1>1, <1>2, <2>1, MergedFacts
    <3>2. \A m \in (cumAck + 1)..cumAck' : m = p.no \/ m \in (p.no + 1)..cumAck'
      BY <1>1, <1>2, <2>1, <3>1
    <3>3. QED  BY <1>1, <2>1, <3>1, <3>2
  <2>2. CASE p.no # cumAck + 1
    <3>1. cumAck' = cumAck  BY <2>2
    <3>2. QED  BY <1>1, <3>1
  <2>3. QED  BY <2>1, <2>2
<1>4. received' \subseteq 1..FlowPackets  BY <1>1, <1>2
<1>5. 1..cumAck \subseteq 1..cumAck' /\ 1..cumAck' \subseteq 1..FlowPackets  BY <1>1, <1>3
<1>6. ASSUME NEW m \in received \cup {p.no}  PROVE m \in (1..cumAck') \cup received'
  <2>1. m \in 1..FlowPackets  BY <1>1, <1>2
  <2>2. m \in 1..cumAck' \/ m > cumAck'  BY <1>1, <1>3, <2>1
  <2>3. QED  BY <2>2
<1>7. QED  BY <1>3, <1>4, <1>5, <1>6

\* Data is answered with an ACK.
LEMMA DataReceived ==
  ASSUME IInv, NEW p \in DOMAIN net, ReceiveData(p), UNCHANGED clos  PROVE IInv'
<1>1. /\ p.form = "data" /\ net' = net (-) One(p) /\ UNCHANGED <<srcVars, faultVars, clos>>
      /\ cumAck' = (IF p.no = cumAck + 1 THEN Merged(p.no) ELSE cumAck)
      /\ received' = {m \in received \cup {p.no} : m > cumAck'}
      /\ sawLast' = (sawLast \/ p.no = FlowPackets)
      /\ PacedFeedback("ack", p.no, cumAck', sawLast' /\ cumAck' = FlowPackets)
  BY DEF ReceiveData
<1>2. /\ cumAck' \in cumAck..FlowPackets /\ received' \subseteq 1..FlowPackets
      /\ (1..cumAck) \cup received \cup {p.no} \subseteq (1..cumAck') \cup received'
  BY <1>1, DataArrives
<1>3. Missing' \subseteq Missing /\ p.no \notin Missing'  BY <1>2 DEF Missing
<1>4. cumAck' \in 0..cumAck' /\ sawLast' \in BOOLEAN
  <2>1. cumAck \in Nat /\ sawLast \in BOOLEAN  BY DEF IInv, TypeOK
  <2>2. cumAck' \in 0..cumAck'  BY <1>2, <2>1
  <2>3. sawLast' \in BOOLEAN  BY <1>1, <2>1
  <2>4. QED  BY <2>2, <2>3
<1>5. PICK done : done = (sawLast' /\ cumAck' = FlowPackets)  OBVIOUS
<1>6. PacedFeedback("ack", p.no, cumAck', done)  BY <1>1, <1>5
<1>7. "ack" \in {"ack", "nack"} /\ "ack" # "nack"  OBVIOUS
<1>8. QED  BY <1>1, <1>2, <1>3, <1>4, <1>6, <1>7, AnswerSent

\* The pacer sends the next pull.
LEMMA PullPaced ==
  ASSUME IInv, PacerEvent, UNCHANGED clos  PROVE IInv'
<1>1. /\ TypeOK /\ Placed /\ KnownStill /\ Heard
      /\ highestSent' = highestSent /\ rtxQueue' = rtxQueue /\ lastPull' = lastPull
      /\ pullWindow' = pullWindow /\ firstWindow' = firstWindow /\ fcts' = fcts
      /\ cumAck' = cumAck /\ received' = received /\ sawLast' = sawLast /\ pullNo' = pullNo
      /\ sentTimes' = sentTimes /\ net' = net
      /\ trims' = trims /\ bounces' = bounces /\ losses' = losses
  BY DEF IInv, PacerEvent, srcVars, sinkVars, faultVars
<1>2. /\ pullNo \in Nat /\ pullQueue \in Seq(1..pullNo) /\ events \in Nat
      /\ cumAck \in 0..FlowPackets /\ FlowPackets \in Nat /\ Faults <= MaxFaults
      /\ trims \in Nat /\ bounces \in Nat /\ losses \in Nat
      /\ received \subseteq 1..FlowPackets /\ sawLast \in BOOLEAN
  BY <1>1, NDPAssumption DEF TypeOK
<1>3. /\ FeedbackOK(feedback') /\ Answered(feedback') = Answered(feedback)
      /\ Nacks(feedback') = Nacks(feedback) /\ Heard'
      /\ pullQueue' \in Seq(1..pullNo) /\ events' \in Nat
  <2>1. CASE pullQueue = <<>>
    <3>1. feedback' = feedback /\ pullQueue' = pullQueue /\ events' = events - 1 /\ events > 0
      BY <2>1 DEF PacerEvent
    <3>2. Heard'  BY <1>1, <3>1 DEF Heard, Missing
    <3>3. QED  BY <1>1, <1>2, <3>1, <3>2 DEF Placed, Places
  <2>2. CASE pullQueue # <<>>
    <3>1. PICK f : f = [kind |-> "pull", no |-> Head(pullQueue)]  OBVIOUS
    <3>2. /\ events > 0 /\ feedback' = feedback \cup {f} /\ pullQueue' = Tail(pullQueue)
          /\ events' = IF pullQueue' # <<>> THEN events ELSE events - 1
      BY <2>2, <3>1 DEF PacerEvent
    <3>3. Head(pullQueue) \in 1..pullNo /\ Tail(pullQueue) \in Seq(1..pullNo)
      BY <1>2, <2>2, HeadTailProperties
    <3>4. f \in PullType /\ f.no \in 1..pullNo /\ f.kind # "ack"
      BY <1>2, <3>1, <3>3 DEF PullType
    <3>5. Heard'  BY <1>1, <3>2, <3>4 DEF Heard, Missing
    <3>6. /\ FeedbackOK(feedback') /\ Answered(feedback') = Answered(feedback)
          /\ Nacks(feedback') = Nacks(feedback)
      BY <1>1, <3>2, <3>4, FeedbackPull DEF Placed, Places
    <3>7. events' \in Nat  BY <1>2, <3>2
    <3>8. QED  BY <3>2, <3>3, <3>5, <3>6, <3>7
  <2>3. QED  BY <2>1, <2>2
<1>4. Places(net', feedback', rtxQueue, sentTimes', highestSent)
  BY <1>1, <1>3 DEF Placed, Places
<1>5. Remembered(net', feedback', rtxQueue, sentTimes', highestSent, Missing', losses')
  <2>1. Missing' = Missing  BY <1>1 DEF Missing
  <2>2. QED  BY <1>1, <1>3, <2>1 DEF KnownStill, Remembered
<1>6. Load(net', feedback', sentTimes') + 0 <= Load(net, feedback, sentTimes) + 0 + 0
  <2>1. Load(net', feedback', sentTimes') = Load(net, feedback, sentTimes)
    BY <1>1, <1>3 DEF Load, Strays
  <2>2. Load(net, feedback, sentTimes) \in Nat  BY <1>1, LoadTypes DEF Placed
  <2>3. QED  BY <2>1, <2>2
<1>7. /\ pullNo' = pullNo + 0 /\ trims' = trims + 0 /\ losses' = losses + 0
      /\ cumAck' \in cumAck..FlowPackets /\ bounces' \in Nat /\ Faults' <= MaxFaults
  <2>1. Faults' = Faults  BY <1>1 DEF Faults
  <2>2. QED  BY <1>1, <1>2, <2>1
<1>8. /\ received' \subseteq 1..FlowPackets /\ sawLast' \in BOOLEAN
      /\ pullQueue' \in Seq(1..pullNo')
  BY <1>1, <1>2, <1>3
<1>9. QED
  BY <1>1, <1>3, <1>4, <1>5, <1>6, <1>7, <1>8, OtherStep

-----------------------------------------------------------------------------
(* The theorems *)

LEMMA InitInv ==
  ASSUME MCInit  PROVE IInv
<1>1. /\ highestSent = 0 /\ rtxQueue = <<>> /\ sentTimes = <<>> /\ lastPull = 0
      /\ pullWindow = 0 /\ firstWindow = 0 /\ fcts = 0 /\ cumAck = 0 /\ received = {}
      /\ sawLast = FALSE /\ pullNo = 0 /\ pullQueue = <<>> /\ events = 0
      /\ net = EmptyBag /\ feedback = {} /\ trims = 0 /\ bounces = 0 /\ losses = 0
      /\ clos \in BOOLEAN /\ FlowPackets \in Nat \ {0} /\ MaxFaults \in Nat
  BY NDPAssumption DEF MCInit, ClosInit, Init
<1>2. DOMAIN net = {} /\ net = [p \in DOMAIN net |-> 1]
  <2>1. net = [p \in {} |-> 1]  BY <1>1 DEF EmptyBag, SetToBag
  <2>2. QED  BY <2>1
<1>3. NetOK(net)  BY <1>2, FS_EmptySet DEF NetOK
<1>4. /\ Carries(net) = {} /\ Headers(net) = {} /\ Nacks(feedback) = {}
      /\ Answered(feedback) = {} /\ FeedbackOK(feedback)
  BY <1>1, <1>2, FS_EmptySet DEF Carries, Headers, Nacks, Answered, Answers, FeedbackOK
<1>5. /\ Distinct(Numbers, rtxQueue) /\ Members(rtxQueue) = {}
      /\ Distinct(Numbers, sentTimes) /\ Members(sentTimes) = {}
  BY <1>1, EmptyDistinct
<1>6. Placed  BY <1>1, <1>3, <1>4, <1>5 DEF Placed, Places
<1>7. KnownStill
  <2>1. 1..highestSent = {}  BY <1>1
  <2>2. QED  BY <2>1 DEF KnownStill, Remembered
<1>8. Clocked
  <2>1. Strays(net, feedback, sentTimes) = {}  BY <1>5 DEF Strays
  <2>2. Cardinality({}) = 0  BY FS_EmptySet
  <2>3. Load(net, feedback, sentTimes) = 0  BY <1>2, <1>4, <2>1, <2>2 DEF Load
  <2>4. Window = 0  BY <1>1 DEF Window
  <2>5. QED  BY <1>1, <2>3, <2>4 DEF Clocked
<1>9. TypeOK
  <2>1. IsABag(net)  BY <1>3, NetIsABag
  <2>2. /\ rtxQueue \in Seq(1..FlowPackets) /\ sentTimes \in Seq(1..FlowPackets)
        /\ pullQueue \in Seq(1..pullNo)
    BY <1>1, EmptySeq
  <2>3. /\ highestSent \in 0..FlowPackets /\ cumAck \in 0..FlowPackets
        /\ lastPull \in 0..pullNo /\ pullNo \in Nat /\ {pullWindow, firstWindow} \subseteq Int
    BY <1>1
  <2>4. /\ fcts \in Nat /\ events \in Nat /\ {trims, bounces, losses} \subseteq Nat
        /\ received \subseteq 1..FlowPackets
    BY <1>1
  <2>5. sawLast \in BOOLEAN  BY <1>1
  <2>6. Faults <= MaxFaults
    <3>1. Faults = 0  BY <1>1 DEF Faults
    <3>2. QED  BY <1>1, <3>1
  <2>7. QED  BY <2>1, <2>2, <2>3, <2>4, <2>5, <2>6 DEF TypeOK
<1>10. Heard /\ Reported  BY <1>1 DEF Heard, Reported
<1>11. QED  BY <1>1, <1>6, <1>7, <1>8, <1>9, <1>10 DEF IInv

\* Every step of Opera's NDP keeps the invariant.
LEMMA OperaStep ==
  ASSUME IInv, Next, UNCHANGED clos  PROVE IInv'
<1>1. ASSUME UNCHANGED vars  PROVE IInv'
  BY <1>1 DEF IInv, vars, srcVars, sinkVars, pacerVars, faultVars, TypeOK, Faults, Placed,
              KnownStill, Missing, Heard, Clocked, Window, Reported
<1>2. CASE Over  BY <1>1, <1>2 DEF Over
<1>3. CASE StartFlow  BY <1>3, FlowStarted
<1>4. ASSUME NEW f \in feedback, ReceivePull(f)  PROVE IInv'
  BY <1>4, PullTaken DEF ReceivePull
<1>5. ASSUME NEW f \in feedback, ReceiveAck(f)  PROVE IInv'
  <2>1. pullWindow' \in {pullWindow, pullWindow + 1}  BY <1>5 DEF ReceiveAck
  <2>2. QED  BY <1>5, <2>1, AckTaken DEF ReceiveAck
<1>6. ASSUME NEW f \in feedback, ReceiveNack(f)  PROVE IInv'
  <2>1. PICK R, S, no : /\ R = Append(rtxQueue, f.packet)
                        /\ S = Without(sentTimes, {f.packet})
                        /\ no = IF f.pull THEN f.no ELSE 0
    OBVIOUS
  <2>2. (Sends(1, R, net, S) /\ lastPull' = lastPull) \/ PullPackets(no, R, S)
    BY <1>6, <2>1 DEF ReceiveNack
  <2>3. no \in {0, f.no}  BY <2>1
  <2>4. /\ f.kind = "nack" /\ feedback' = feedback \ {f}
        /\ pullWindow' = pullWindow + 1 /\ firstWindow' = firstWindow - 1
        /\ UNCHANGED <<fcts, sinkVars, pacerVars, faultVars, clos>>
    BY <1>6 DEF ReceiveNack
  <2>5. QED  BY <2>1, <2>2, <2>3, <2>4, NackTaken
<1>7. ASSUME NEW p \in DOMAIN net, ReceiveBounced(p)  PROVE IInv'
  <2>1. PICK k \in {0, 1} : k = IF pullWindow = 0 /\ firstWindow - 1 <= 1 THEN 1 ELSE 0
    OBVIOUS
  <2>2. QED  BY <1>7, <2>1, BouncedTaken DEF ReceiveBounced
<1>8. ASSUME NEW p \in DOMAIN net, ReceiveHeader(p)  PROVE IInv'  BY <1>8, HeaderReceived
<1>9. ASSUME NEW p \in DOMAIN net, ReceiveData(p)  PROVE IInv'  BY <1>9, DataReceived
<1>10. ASSUME NEW k \in 1..Len(sentTimes), Timeout(k)  PROVE IInv'  BY <1>10, TimedOut
<1>11. CASE PacerEvent  BY <1>11, PullPaced
<1>12. ASSUME NEW p \in DOMAIN net, Trim(p) \/ Bounce(p)  PROVE IInv'  BY <1>12, Reformed
<1>13. ASSUME NEW p \in DOMAIN net, DropBounced(p)  PROVE IInv'
  BY <1>13, Lost DEF DropBounced
<1>14. ASSUME NEW f \in feedback, LoseFeedback(f)  PROVE IInv'
  BY <1>14, Lost DEF LoseFeedback
<1>15. QED
  BY <1>2, <1>3, <1>4, <1>5, <1>6, <1>7, <1>8, <1>9, <1>10, <1>11, <1>12, <1>13, <1>14
  DEF Next

\* Every step of the Clos copy keeps the invariant.
LEMMA ClosStep ==
  ASSUME IInv, ClosNext, UNCHANGED clos  PROVE IInv'
<1>1. ASSUME UNCHANGED vars  PROVE IInv'
  BY <1>1 DEF IInv, vars, srcVars, sinkVars, pacerVars, faultVars, TypeOK, Faults, Placed,
              KnownStill, Missing, Heard, Clocked, Window, Reported
<1>2. CASE ClosOver  BY <1>1, <1>2 DEF ClosOver
<1>3. CASE ClosStartFlow  BY <1>3, FlowStarted DEF ClosStartFlow
<1>4. ASSUME NEW f \in feedback, ClosReceivePull(f)  PROVE IInv'
  BY <1>4, PullTaken DEF ClosReceivePull, ClosPullPackets
<1>5. ASSUME NEW f \in feedback, ClosReceiveAck(f)  PROVE IInv'
  <2>1. pullWindow' \in {pullWindow, pullWindow + 1}  BY <1>5 DEF ClosReceiveAck
  <2>2. QED  BY <1>5, <2>1, AckTaken DEF ClosReceiveAck, ClosPullPackets
<1>6. ASSUME NEW f \in feedback, ClosReceiveNack(f)  PROVE IInv'
  <2>1. PICK R, S, no : /\ R = Append(rtxQueue, f.packet)
                        /\ S = Without(sentTimes, {f.packet})
                        /\ no = IF f.pull THEN f.no ELSE 0
    OBVIOUS
  <2>2. PullPackets(no, R, S)  BY <1>6, <2>1 DEF ClosReceiveNack, ClosPullPackets
  <2>3. no \in {0, f.no}  BY <2>1
  <2>4. /\ f.kind = "nack" /\ feedback' = feedback \ {f}
        /\ pullWindow' = pullWindow + 1 /\ firstWindow' = firstWindow - 1
        /\ UNCHANGED <<fcts, sinkVars, pacerVars, faultVars, clos>>
    BY <1>6 DEF ClosReceiveNack
  <2>5. QED  BY <2>1, <2>2, <2>3, <2>4, NackTaken
<1>7. ASSUME NEW p \in DOMAIN net, ClosReceiveBounced(p)  PROVE IInv'
  <2>1. PICK k \in {0, 1} :
          k = IF (pullWindow = 0 /\ firstWindow' <= 1) \/ IsBadPath(history') THEN 1 ELSE 0
    OBVIOUS
  <2>2. QED  BY <1>7, <2>1, BouncedTaken DEF ClosReceiveBounced
<1>8. ASSUME NEW p \in DOMAIN net, ClosReceiveHeader(p)  PROVE IInv'
  BY <1>8, HeaderReceived DEF ClosReceiveHeader
<1>9. ASSUME NEW p \in DOMAIN net, ClosReceiveData(p)  PROVE IInv'
  BY <1>9, DataReceived DEF ClosReceiveData
<1>10. CASE ClosPacerEvent  BY <1>10, PullPaced DEF ClosPacerEvent
<1>11. CASE ClosFault
  <2>1. PICK p \in DOMAIN net : Trim(p) \/ Bounce(p) \/ DropBounced(p)
    BY <1>11 DEF ClosFault
  <2>2. CASE Trim(p) \/ Bounce(p)  BY <2>2, Reformed
  <2>3. CASE DropBounced(p)  BY <2>3, Lost DEF DropBounced
  <2>4. QED  BY <2>1, <2>2, <2>3
<1>12. ASSUME NEW f \in feedback, ClosLoseFeedback(f)  PROVE IInv'
  BY <1>12, Lost DEF ClosLoseFeedback, LoseFeedback
<1>13. QED
  BY <1>2, <1>3, <1>4, <1>5, <1>6, <1>7, <1>8, <1>9, <1>10, <1>11, <1>12
  DEF ClosNext, ClosFeedback, ClosPacket

\* The inductive invariant holds of every flow, in both simulators.
THEOREM NDPInvariance == MCFairSpec => []IInv
<1>1. MCInit => IInv  BY InitInv
<1>2. IInv /\ [MCNext]_mcVars => IInv'
  <2>1. CASE Opera /\ Next  BY <2>1, OperaStep DEF Opera
  <2>2. CASE Clos /\ ClosNext  BY <2>2, ClosStep DEF Clos
  <2>3. ASSUME IInv, UNCHANGED mcVars  PROVE IInv'
    BY <2>3 DEF IInv, mcVars, vars, srcVars, sinkVars, pacerVars, faultVars, TypeOK, Faults,
                Placed, KnownStill, Missing, Heard, Clocked, Window, Reported
  <2>4. QED  BY <2>1, <2>2, <2>3 DEF MCNext
<1>3. MCFairSpec => MCInit /\ [][MCNext]_mcVars  BY PTL DEF MCFairSpec
<1>4. QED  BY <1>1, <1>2, <1>3, PTL

\* Whatever is trimmed, returned or lost and however pulls, ACKs and NACKs
\* overtake each other: the variables have their types, no packet is in two
\* places, and no more are in the network than the receiver asked for.
THEOREM ClockedByReceiver == MCFairSpec => []Inv
<1>1. IInv => Inv
  <2> SUFFICES ASSUME IInv  PROVE Inv  OBVIOUS
  <2>1. /\ TypeOK /\ Placed /\ Clocked
        /\ NetOK(net) /\ Distinct(Numbers, rtxQueue) /\ Distinct(Numbers, sentTimes)
        /\ rtxQueue \in Seq(Numbers) /\ sentTimes \in Seq(Numbers)
    BY DEF IInv, Placed, Places, Distinct
  <2>2. \A p, q \in DOMAIN net : net[p] = 1 /\ (p.no = q.no => p = q)
    BY <2>1 DEF NetOK
  <2>3. \A p \in DOMAIN net, f \in feedback : f.kind # "pull" => f.packet # p.no
    <3>1. Carries(net) \cap Answered(feedback) = {}  BY <2>1 DEF Placed, Places
    <3>2. QED  BY <3>1 DEF Carries, Answered, Answers
  <2>4. \A n \in ToSet(rtxQueue) : ~ UnderWay(n) /\ n \notin ToSet(sentTimes)
    <3>1. ToSet(rtxQueue) = Members(rtxQueue) /\ ToSet(sentTimes) = Members(sentTimes)
      BY <2>1, ToSetIsMembers
    <3>2. Members(rtxQueue) \cap (Carries(net) \cup Answered(feedback) \cup Members(sentTimes)) = {}
      BY <2>1 DEF Placed, Places
    <3>3. QED  BY <2>1, <3>1, <3>2, UnderWayPlaces
  <2>5. IsInjective(rtxQueue) /\ IsInjective(sentTimes)
    <3>1. DOMAIN rtxQueue = 1..Len(rtxQueue) /\ DOMAIN sentTimes = 1..Len(sentTimes)
      BY <2>1, LenProperties
    <3>2. QED  BY <2>1, <3>1 DEF IsInjective, Distinct, Injective
  <2>6. SelfClocked
    <3>1. PICK d, h, n, s \in Nat :
            /\ d = Cardinality(DOMAIN net)
            /\ Load(net, feedback, sentTimes) = d + h + n + s
      BY <2>1, LoadTypes DEF Placed, Load
    <3>2. PICK a, b, c, t, x, w \in Nat :
            /\ a = lastPull /\ b = pullNo /\ a <= b /\ t = trims /\ x = losses
            /\ c = Cwnd /\ w = Window /\ w <= c
      <4>1. /\ lastPull \in Nat /\ pullNo \in Nat /\ lastPull <= pullNo /\ trims \in Nat
            /\ losses \in Nat
        BY <2>1 DEF TypeOK
      <4>2. Cwnd \in Nat /\ Window \in Nat /\ Window <= Cwnd  BY NDPAssumption DEF Window
      <4>3. QED  BY <4>1, <4>2
    <3>3. d + h + n + s + b <= w + a + t + x  BY <2>1, <3>1, <3>2 DEF Clocked
    <3>4. d <= c + t + x  BY ONLY <3>2, <3>3, d \in Nat, h \in Nat, n \in Nat, s \in Nat
    <3>5. QED  BY <3>1, <3>2, <3>4 DEF SelfClocked
  <2>7. QED  BY <2>1, <2>2, <2>3, <2>4, <2>5, <2>6 DEF Inv, OnePlace
<1>2. QED  BY <1>1, NDPInvariance, PTL

\* One loss, of a returned header or of feedback, never makes a sender forget
\* a packet that is missing; without timers (Clos), none has to be lost.
THEOREM MissingIsKnown == MCFairSpec => []NeverForgotten
<1>1. IInv => NeverForgotten
  <2> SUFFICES ASSUME IInv  PROVE NeverForgotten  OBVIOUS
  <2>1. /\ Placed /\ KnownStill /\ losses \in Nat
        /\ rtxQueue \in Seq(Numbers) /\ sentTimes \in Seq(Numbers)
    BY DEF IInv, TypeOK, Numbers
  <2>2. ToSet(rtxQueue) = Members(rtxQueue) /\ ToSet(sentTimes) = Members(sentTimes)
    BY <2>1, ToSetIsMembers
  <2>3. ASSUME losses <= 1, NEW n \in Missing \cap 1..highestSent
        PROVE  \/ n \in Members(rtxQueue)
               \/ /\ n \in Carries(net) \cup Answered(feedback) \/ losses = 1
                  /\ n \in Carries(net) \cup Answered(feedback) \cup Members(sentTimes)
    BY <2>1, <2>3 DEF KnownStill, Remembered
  <2>4. NotForgotten  BY <2>1, <2>2, <2>3, UnderWayPlaces DEF NotForgotten
  <2>5. ClosNotForgotten
    <3>1. losses = 0 => losses <= 1 /\ losses # 1  BY <2>1
    <3>2. QED  BY <2>1, <2>2, <2>3, <3>1, UnderWayPlaces DEF ClosNotForgotten
  <2>6. QED  BY <2>4, <2>5 DEF NeverForgotten
<1>2. QED  BY <1>1, NDPInvariance, PTL

-----------------------------------------------------------------------------
(* The promise of FlowTransfer *)

Arrived == (1..cumAck) \cup received
Outcome == IF fcts > 0 THEN "delivered" ELSE "running"

Transfers ==
  \/ /\ Arrived' \subseteq 1..(FlowPackets + 1) /\ Arrived \subseteq Arrived'
     /\ \/ Outcome' = Outcome
        \/ Outcome = "running" /\ 1..FlowPackets \subseteq Arrived' /\ Outcome' = "delivered"
  \/ Arrived' = Arrived /\ Outcome' = Outcome

\* A step that leaves the receiver alone reports nothing, or the end of a flow
\* that has arrived.
LEMMA ReportTransfers ==
  ASSUME IInv, cumAck' = cumAck, received' = received,
         fcts' = fcts \/ (fcts' = fcts + 1 /\ cumAck = FlowPackets)
  PROVE  Transfers
<1>1. /\ fcts \in Nat /\ Reported /\ FlowPackets \in Nat
      /\ cumAck \in 0..FlowPackets /\ received \subseteq 1..FlowPackets
  BY NDPAssumption DEF IInv, TypeOK
<1>2. Arrived' = Arrived  BY DEF Arrived
<1>3. CASE fcts' = fcts
  <2>1. Outcome' = Outcome  BY <1>3 DEF Outcome
  <2>2. QED  BY <1>2, <2>1 DEF Transfers
<1>4. CASE fcts' = fcts + 1 /\ cumAck = FlowPackets
  <2>1. Outcome' = "delivered"  BY <1>1, <1>4 DEF Outcome
  <2>2. Outcome = "running" \/ Outcome = "delivered"  BY DEF Outcome
  <2>3. 1..FlowPackets \subseteq Arrived'  BY <1>2, <1>4 DEF Arrived
  <2>4. Arrived \subseteq 1..(FlowPackets + 1)  BY <1>1 DEF Arrived
  <2>5. QED  BY <1>2, <2>1, <2>2, <2>3, <2>4 DEF Transfers
<1>5. QED  BY <1>3, <1>4

\* An ACK of the whole flow was sent when all of it had arrived.
LEMMA AckTransfers ==
  ASSUME IInv, NEW f \in feedback, f.kind = "ack", UNCHANGED sinkVars,
         fcts' = IF AllAcked(f.cum) THEN fcts + 1 ELSE fcts
  PROVE  Transfers
<1>1. f.cum \in 0..cumAck  BY FeedbackFacts
<1>2. cumAck \in 0..FlowPackets /\ FlowPackets \in Nat  BY NDPAssumption DEF IInv, TypeOK
<1>3. AllAcked(f.cum) => cumAck = FlowPackets  BY <1>1, <1>2 DEF AllAcked
<1>4. fcts' = fcts \/ (fcts' = fcts + 1 /\ cumAck = FlowPackets)  BY <1>3
<1>5. QED  BY <1>4, ReportTransfers DEF sinkVars

\* A packet that arrives is delivered, and nothing that arrived before goes.
LEMMA DataTransfers ==
  ASSUME IInv, NEW p \in DOMAIN net, ReceiveData(p)  PROVE Transfers
<1>1. /\ (1..cumAck) \cup received \cup {p.no} \subseteq (1..cumAck') \cup received'
      /\ (1..cumAck') \cup received' \subseteq 1..FlowPackets
  BY DataArrives DEF ReceiveData
<1>2. 1..FlowPackets \subseteq 1..(FlowPackets + 1)  BY NDPAssumption
<1>3. Outcome' = Outcome  BY DEF Outcome, ReceiveData, srcVars
<1>4. QED  BY <1>1, <1>2, <1>3 DEF Transfers, Arrived

\* Every step of Opera's NDP is a transfer, a report or neither.
LEMMA OperaTransfers ==
  ASSUME IInv, Next  PROVE Transfers
<1>1. ASSUME UNCHANGED <<cumAck, received, fcts>>  PROVE Transfers
  BY <1>1, ReportTransfers
<1>2. CASE Over  BY <1>1, <1>2 DEF Over, vars, srcVars, sinkVars
<1>3. CASE StartFlow  BY <1>1, <1>3 DEF StartFlow, sinkVars
<1>4. ASSUME NEW f \in feedback, ReceivePull(f)  PROVE Transfers
  BY <1>1, <1>4 DEF ReceivePull, sinkVars
<1>5. ASSUME NEW f \in feedback, ReceiveAck(f)  PROVE Transfers
  BY <1>5, AckTransfers DEF ReceiveAck
<1>6. ASSUME NEW f \in feedback, ReceiveNack(f)  PROVE Transfers
  BY <1>1, <1>6 DEF ReceiveNack, sinkVars
<1>7. ASSUME NEW p \in DOMAIN net, ReceiveBounced(p)  PROVE Transfers
  BY <1>1, <1>7 DEF ReceiveBounced, sinkVars
<1>8. ASSUME NEW p \in DOMAIN net, ReceiveHeader(p)  PROVE Transfers
  BY <1>1, <1>8 DEF ReceiveHeader, srcVars
<1>9. ASSUME NEW p \in DOMAIN net, ReceiveData(p)  PROVE Transfers  BY <1>9, DataTransfers
<1>10. ASSUME NEW k \in 1..Len(sentTimes), Timeout(k)  PROVE Transfers
  BY <1>1, <1>10 DEF Timeout, sinkVars
<1>11. CASE PacerEvent  BY <1>1, <1>11 DEF PacerEvent, srcVars, sinkVars
<1>12. ASSUME NEW p \in DOMAIN net, Trim(p) \/ Bounce(p) \/ DropBounced(p)  PROVE Transfers
  BY <1>1, <1>12 DEF Trim, Bounce, Reform, DropBounced, srcVars, sinkVars
<1>13. ASSUME NEW f \in feedback, LoseFeedback(f)  PROVE Transfers
  BY <1>1, <1>13 DEF LoseFeedback, srcVars, sinkVars
<1>14. QED
  BY <1>2, <1>3, <1>4, <1>5, <1>6, <1>7, <1>8, <1>9, <1>10, <1>11, <1>12, <1>13 DEF Next

\* Every step of the Clos copy is a transfer, a report or neither.
LEMMA ClosTransfers ==
  ASSUME IInv, ClosNext  PROVE Transfers
<1>1. ASSUME UNCHANGED <<cumAck, received, fcts>>  PROVE Transfers
  BY <1>1, ReportTransfers
<1>2. CASE ClosOver  BY <1>1, <1>2 DEF ClosOver, vars, srcVars, sinkVars
<1>3. CASE ClosStartFlow  BY <1>1, <1>3 DEF ClosStartFlow, StartFlow, sinkVars
<1>4. ASSUME NEW f \in feedback, ClosReceivePull(f)  PROVE Transfers
  BY <1>1, <1>4 DEF ClosReceivePull, sinkVars
<1>5. ASSUME NEW f \in feedback, ClosReceiveAck(f)  PROVE Transfers
  BY <1>5, AckTransfers DEF ClosReceiveAck
<1>6. ASSUME NEW f \in feedback, ClosReceiveNack(f)  PROVE Transfers
  BY <1>1, <1>6 DEF ClosReceiveNack, sinkVars
<1>7. ASSUME NEW p \in DOMAIN net, ClosReceiveBounced(p)  PROVE Transfers
  BY <1>1, <1>7 DEF ClosReceiveBounced, sinkVars
<1>8. ASSUME NEW p \in DOMAIN net, ClosReceiveHeader(p)  PROVE Transfers
  BY <1>1, <1>8 DEF ClosReceiveHeader, ReceiveHeader, srcVars
<1>9. ASSUME NEW p \in DOMAIN net, ClosReceiveData(p)  PROVE Transfers
  BY <1>9, DataTransfers DEF ClosReceiveData
<1>10. CASE ClosPacerEvent
  BY <1>1, <1>10 DEF ClosPacerEvent, PacerEvent, srcVars, sinkVars
<1>11. CASE ClosFault
  BY <1>1, <1>11 DEF ClosFault, Trim, Bounce, Reform, DropBounced, srcVars, sinkVars
<1>12. ASSUME NEW f \in feedback, ClosLoseFeedback(f)  PROVE Transfers
  BY <1>1, <1>12 DEF ClosLoseFeedback, LoseFeedback, srcVars, sinkVars
<1>13. QED
  BY <1>2, <1>3, <1>4, <1>5, <1>6, <1>7, <1>8, <1>9, <1>10, <1>11, <1>12
  DEF ClosNext, ClosFeedback, ClosPacket

\* NDP implements the promise of a transport: what has arrived stays, and a
\* completion is only reported when every packet has arrived.
THEOREM ImplementsFlowTransfer == MCFairSpec => ImplementsTransfer
<1>1. MCInit => Flow!Init
  <2> SUFFICES ASSUME MCInit  PROVE Flow!Init  OBVIOUS
  <2>1. fcts = 0 /\ cumAck = 0 /\ received = {}  BY DEF MCInit, ClosInit, Init
  <2>2. 1..cumAck = {}  BY <2>1
  <2>3. QED  BY <2>1, <2>2 DEF Flow!Init
<1>2. IInv /\ [MCNext]_mcVars => [Flow!Deliver \/ Flow!GiveUp]_Flow!vars
  <2>1. ASSUME IInv, MCNext  PROVE Transfers
    BY <2>1, OperaTransfers, ClosTransfers DEF MCNext
  <2>2. ASSUME UNCHANGED mcVars  PROVE Transfers
    BY <2>2 DEF Transfers, Arrived, Outcome, mcVars, vars, srcVars, sinkVars
  <2>3. ASSUME Transfers
        PROVE  [Flow!Deliver \/ Flow!GiveUp]_Flow!vars
    BY <2>3 DEF Transfers, Arrived, Outcome, Flow!Deliver, Flow!GiveUp, Flow!vars
  <2>4. QED  BY <2>1, <2>2, <2>3
<1>3. MCFairSpec => MCInit /\ [][MCNext]_mcVars  BY PTL DEF MCFairSpec
<1>4. ImplementsTransfer <=> Flow!Spec  BY DEF ImplementsTransfer
<1>5. QED  BY <1>1, <1>2, <1>3, <1>4, NDPInvariance, PTL DEF Flow!Spec

=============================================================================
