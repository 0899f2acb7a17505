----------------------------- MODULE RLBProofs -----------------------------
(***************************************************************************)
(* Theorems about RotorLB, for every value of the constants: no packet of  *)
(* a host is lost between its queues, its commit queues and its NIC (RLB), *)
(* and a matching grants no link, of a sender or of a receiver, more than  *)
(* it carries in a slot (RlbMaster).                                       *)
(***************************************************************************)
EXTENDS RLB, RlbMaster, PacketListFacts, FiniteSetTheorems

-----------------------------------------------------------------------------
(* Sums and counts *)

\* Sequences that differ in one place have sums that differ by as much.
LEMMA SumReplaced ==
  ASSUME NEW n \in Nat, NEW p \in 1..n,
         NEW s, NEW t, s \in [1..n -> Int], t \in [1..n -> Int],
         \A i \in 1..n : i # p => t[i] = s[i]
  PROVE  /\ SumSeq(s) \in Int /\ SumSeq(t) \in Int
         /\ SumSeq(t) = SumSeq(s) - s[p] + t[p]
<1>1. s \in Seq(Int) /\ t \in Seq(Int) /\ Len(s) = n /\ Len(t) = n  BY FunctionIsSeq
<1>2. PICK f : PartialSums(s, n, f) /\ SumSeq(s) = f[n]  BY <1>1, SumIsPartial
<1>3. PICK g : PartialSums(t, n, g) /\ SumSeq(t) = g[n]  BY <1>1, SumIsPartial
<1>4. p \in Nat /\ p >= 1 /\ p <= n /\ s[p] \in Int /\ t[p] \in Int  OBVIOUS
<1>d. PICK d \in Int : d = t[p] - s[p]  BY <1>4
<1> DEFINE Good == {l \in Nat : l <= n => g[l] = f[l] + (IF l >= p THEN d ELSE 0)}
<1>5. 0 \in Good
  <2>1. g[0] = 0 /\ f[0] = 0  BY <1>2, <1>3 DEF PartialSums
  <2>2. QED  BY <1>4, <2>1
<1>6. ASSUME NEW l \in Nat, l \in Good  PROVE l + 1 \in Good
  <2>1. SUFFICES ASSUME l + 1 <= n
                 PROVE  g[l + 1] = f[l + 1] + (IF l + 1 >= p THEN d ELSE 0)
    OBVIOUS
  <2>2. l + 1 \in 1..n /\ l \in 0..n /\ l + 1 \in 0..n /\ (l + 1) - 1 = l /\ l <= n
    BY ONLY <2>1, l \in Nat, n \in Nat
  <2>3. /\ g[l + 1] = g[l] + t[l + 1] /\ f[l + 1] = f[l] + s[l + 1]
        /\ g[l] \in Int /\ f[l] \in Int
    BY <1>2, <1>3, <2>2 DEF PartialSums
  <2>4. g[l] = f[l] + (IF l >= p THEN d ELSE 0)  BY <1>6, <2>2
  <2>5. s[l + 1] \in Int /\ t[l + 1] \in Int /\ (l + 1 # p => t[l + 1] = s[l + 1])
    BY <2>2
  <2>6. CASE l + 1 = p
    <3>1. d = t[l + 1] - s[l + 1] /\ ~ (l >= p) /\ l + 1 >= p
      BY <1>4, <1>d, <2>6, SMTT(30)
    <3>2. QED  BY ONLY <2>3, <2>4, <2>5, <3>1, d \in Int
  <2>7. CASE l + 1 # p
    <3>1. l >= p <=> l + 1 >= p  BY <1>4, <2>7
    <3>2. g[l + 1] = g[l] + s[l + 1]  BY <2>3, <2>5, <2>7
    <3>3. QED  BY ONLY <2>3, <2>4, <2>5, <3>1, <3>2, d \in Int
  <2>8. QED  BY <2>6, <2>7
<1>7. Nat \subseteq Good
  <2> HIDE DEF Good
  <2>1. \A l \in Nat : l \in Good => l + 1 \in Good  BY <1>6
  <2>2. QED  BY <1>5, <2>1, AllNumbers
<1>8. g[n] = f[n] + d
  <2>1. n \in Good /\ n >= p  BY <1>4, <1>7
  <2>2. QED  BY <2>1
<1>9. f[n] \in Int /\ g[n] \in Int  BY <1>2, <1>3 DEF PartialSums
<1>10. QED  BY <1>2, <1>3, <1>4, <1>d, <1>8, <1>9

Packets == Keys \cup {"dummy"}
One(k, p) == IF p = k THEN 1 ELSE 0
Ones(k, q) == [i \in 1..Len(q) |-> One(k, q[i])]

\* A count is a sum of ones.
LEMMA OnesTypes ==
  ASSUME NEW k, NEW q \in Seq(Packets)
  PROVE  /\ Ones(k, q) \in Seq(Nat) /\ Ones(k, q) \in Seq(Int) /\ Len(Ones(k, q)) = Len(q)
         /\ Count(k, q) = SumSeq(Ones(k, q)) /\ Count(k, q) \in Nat
<1>1. Len(q) \in Nat /\ Ones(k, q) \in [1..Len(q) -> Nat]  BY LenProperties DEF Ones, One
<1>2. Ones(k, q) \in Seq(Nat) /\ Len(Ones(k, q)) = Len(q)  BY <1>1, FunctionIsSeq
<1>3. Ones(k, q) \in Seq(Int) /\ SumSeq(Ones(k, q)) \in Nat  BY <1>2, SumNat
<1>4. Count(k, q) = SumSeq(Ones(k, q))  BY DEF Count, Ones, One
<1>5. QED  BY <1>2, <1>3, <1>4

\* There is nothing in an empty commit queue.
LEMMA CountEmpty ==
  ASSUME NEW k  PROVE Count(k, <<>>) = 0 /\ <<>> \in Seq(Packets)
<1>1. <<>> \in Seq(Packets) /\ Len(<<>>) = 0  BY EmptySeq
<1>2. Len(Ones(k, <<>>)) = 0 /\ Ones(k, <<>>) \in Seq(Int)  BY <1>1, OnesTypes
<1>3. Ones(k, <<>>) = <<>>  BY <1>2, EmptySeq
<1>4. QED  BY <1>1, <1>2, <1>3, OnesTypes, SumTypes

\* The first packet and those behind it.
LEMMA CountHead ==
  ASSUME NEW k, NEW q \in Seq(Packets), q # <<>>
  PROVE  /\ Tail(q) \in Seq(Packets) /\ Head(q) \in Packets
         /\ Count(k, q) = One(k, Head(q)) + Count(k, Tail(q))
<1>1. /\ Tail(q) \in Seq(Packets) /\ Head(q) \in Packets /\ Head(q) = q[1]
      /\ Len(q) \in Nat \ {0} /\ Len(Tail(q)) = Len(q) - 1
      /\ \A i \in 1..Len(Tail(q)) : Tail(q)[i] = q[i + 1]
  BY HeadTailProperties, LenProperties, EmptySeq
<1> DEFINE s == Ones(k, q)
<1>2. s \in Seq(Int) /\ Len(s) = Len(q) /\ Count(k, q) = SumSeq(s)  BY OnesTypes
<1>3. s # <<>> /\ Head(s) = s[1] /\ s[1] = One(k, Head(q))
  <2>1. s # <<>>  BY <1>1, <1>2, EmptySeq
  <2>2. 1 \in 1..Len(q)  BY <1>1
  <2>3. QED  BY <1>1, <1>2, <2>1, <2>2, HeadTailProperties DEF Ones
<1>4. /\ Tail(s) \in Seq(Int) /\ Len(Tail(s)) = Len(q) - 1
      /\ \A i \in 1..(Len(q) - 1) : Tail(s)[i] = s[i + 1]
  BY <1>2, <1>3, HeadTailProperties
<1>5. Tail(s) = Ones(k, Tail(q))
  <2>1. ASSUME NEW i \in 1..(Len(q) - 1)  PROVE Tail(s)[i] = Ones(k, Tail(q))[i]
    <3>1. i + 1 \in 1..Len(q) /\ i \in 1..Len(Tail(q))  BY <1>1
    <3>2. QED  BY <1>1, <1>4, <3>1 DEF Ones
  <2>2. Ones(k, Tail(q)) \in Seq(Int) /\ Len(Ones(k, Tail(q))) = Len(q) - 1
    BY <1>1, OnesTypes
  <2> HIDE DEF s
  <2>3. QED  BY <1>4, <2>1, <2>2, SeqEqual
<1>6. SumSeq(s) = Head(s) + SumSeq(Tail(s))  BY <1>2, <1>3, SumHead
<1>7. Count(k, Tail(q)) = SumSeq(Ones(k, Tail(q)))  BY <1>1, OnesTypes
<1> HIDE DEF s
<1>8. QED  BY <1>1, <1>2, <1>3, <1>5, <1>6, <1>7

\* One more at the end.
LEMMA CountAppend ==
  ASSUME NEW k, NEW q \in Seq(Packets), NEW p \in Packets
  PROVE  /\ Append(q, p) \in Seq(Packets)
         /\ Count(k, Append(q, p)) = Count(k, q) + One(k, p)
<1> DEFINE r == Append(q, p)
           s == Append(Ones(k, q), One(k, p))
<1>1. /\ r \in Seq(Packets) /\ Len(q) \in Nat /\ Len(r) = Len(q) + 1
      /\ \A i \in 1..Len(q) : r[i] = q[i]
      /\ r[Len(q) + 1] = p
  BY AppendProperties, LenProperties
<1>2. Ones(k, q) \in Seq(Int) /\ Len(Ones(k, q)) = Len(q) /\ One(k, p) \in Int
  BY OnesTypes DEF One
<1>3. /\ s \in Seq(Int) /\ Len(s) = Len(q) + 1
      /\ \A i \in 1..Len(q) : s[i] = Ones(k, q)[i]
      /\ s[Len(q) + 1] = One(k, p)
  BY <1>2, AppendProperties
<1>4. Ones(k, r) = s
  <2>1. Ones(k, r) \in Seq(Int) /\ Len(Ones(k, r)) = Len(q) + 1  BY <1>1, OnesTypes
  <2>2. ASSUME NEW i \in 1..(Len(q) + 1)  PROVE Ones(k, r)[i] = s[i]
    <3>1. Ones(k, r)[i] = One(k, r[i])  BY <1>1 DEF Ones
    <3>2. CASE i \in 1..Len(q)  BY <1>1, <1>3, <3>1, <3>2 DEF Ones
    <3>3. CASE i = Len(q) + 1  BY <1>1, <1>3, <3>1, <3>3
    <3>4. i \in 1..Len(q) \/ i = Len(q) + 1  BY <1>1
    <3>5. QED  BY <3>2, <3>3, <3>4
  <2> HIDE DEF s, r
  <2>3. QED  BY <1>3, <2>1, <2>2, SeqEqual
<1>5. SumSeq(s) = SumSeq(Ones(k, q)) + One(k, p)  BY <1>2, SumAppend
<1>6. Count(k, r) = SumSeq(Ones(k, r)) /\ Count(k, q) = SumSeq(Ones(k, q))
  BY <1>1, OnesTypes
<1> HIDE DEF r, s
<1>7. Count(k, r) = Count(k, q) + One(k, p)  BY <1>4, <1>5, <1>6
<1>8. QED  BY <1>1, <1>7 DEF r

\* The last packet and those before it.
LEMMA CountFront ==
  ASSUME NEW k, NEW q \in Seq(Packets), q # <<>>
  PROVE  /\ Front(q) \in Seq(Packets) /\ Last(q) \in Packets
         /\ Count(k, q) = Count(k, Front(q)) + One(k, Last(q))
<1>1. Len(q) \in Nat \ {0} /\ \A i \in 1..Len(q) : q[i] \in Packets
  BY LenProperties, EmptySeq, ElementOfSeq
<1>2. Last(q) = q[Len(q)] /\ Last(q) \in Packets  BY <1>1 DEF Last
<1>3. /\ Front(q) \in Seq(Packets) /\ Len(Front(q)) = Len(q) - 1
      /\ \A i \in 1..(Len(q) - 1) : Front(q)[i] = q[i]
  <2>1. Len(q) - 1 \in Nat /\ \A i \in 1..(Len(q) - 1) : q[i] \in Packets  BY <1>1
  <2>2. /\ SubSeq(q, 1, Len(q) - 1) \in Seq(Packets)
        /\ Len(SubSeq(q, 1, Len(q) - 1)) =
             IF 1 <= Len(q) - 1 THEN Len(q) - 1 - 1 + 1 ELSE 0
        /\ \A i \in 1..(Len(q) - 1 - 1 + 1) : SubSeq(q, 1, Len(q) - 1)[i] = q[1 + i - 1]
    BY <2>1, SubSeqProperties
  <2>3. Front(q) = SubSeq(q, 1, Len(q) - 1)  BY DEF Front
  <2>4. Len(q) - 1 - 1 + 1 = Len(q) - 1 /\ \A i \in 1..(Len(q) - 1) : 1 + i - 1 = i
    BY <1>1
  <2>5. Len(Front(q)) = Len(q) - 1
    <3>1. Len(Front(q)) = IF 1 <= Len(q) - 1 THEN Len(q) - 1 - 1 + 1 ELSE 0
      BY <2>2, <2>3
    <3>2. PICK n \in Nat \ {0} : n = Len(q)  BY <1>1
    <3>3. (IF 1 <= n - 1 THEN n - 1 - 1 + 1 ELSE 0) = n - 1  BY ONLY n \in Nat \ {0}
    <3>4. QED  BY <3>1, <3>2, <3>3
  <2> HIDE DEF Front
  <2>6. QED  BY <2>2, <2>3, <2>4, <2>5
<1>4. q = Append(Front(q), Last(q))
  <2>1. /\ Append(Front(q), Last(q)) \in Seq(Packets)
        /\ Len(Append(Front(q), Last(q))) = Len(q)
        /\ \A i \in 1..(Len(q) - 1) : Append(Front(q), Last(q))[i] = Front(q)[i]
        /\ Append(Front(q), Last(q))[Len(q)] = Last(q)
    BY <1>1, <1>2, <1>3, AppendProperties
  <2>2. ASSUME NEW i \in 1..Len(q)  PROVE Append(Front(q), Last(q))[i] = q[i]
    <3>1. i = Len(q) \/ i \in 1..(Len(q) - 1)  BY <1>1
    <3>2. QED  BY <1>2, <1>3, <2>1, <3>1
  <2>3. QED  BY <2>1, <2>2, SeqEqual
<1>5. QED  BY <1>2, <1>3, <1>4, CountAppend

-----------------------------------------------------------------------------
(* The state of the module *)

Modules == [queues : [Keys -> Nat], commits : [Switches -> Seq(Packets)], have : BOOLEAN,
            pull : Switches, push : Switches, skip : Int, dummies : Int]

InCommits(c, k) == SumSeq([i \in 1..Ncommit |-> Count(k, c[i - 1])])
Held(s, k) == s.queues[k] + InCommits(s.commits, k)

\* Commit queues that are empty in s are so in t.
Shrunk(s, t) == \A q \in Switches : s.commits[q] = <<>> => t.commits[q] = <<>>

\* The dummy in the NIC is there as long as something is committed.
Rung(s) ==
  /\ s.dummies = IF s.have THEN 1 ELSE 0
  /\ s.have <=> \E q \in Switches : s.commits[q] # <<>>

\* The indices of the switches.
LEMMA SwitchFacts ==
  /\ Ncommit \in Nat /\ Ncommit >= 2
  /\ \A q : q \in Switches <=> q \in Nat /\ q < Ncommit
  /\ \A q \in Switches : Before(q) \in Switches /\ Next1(q) \in Switches
<1>1. Ncommit \in Nat /\ Ncommit >= 2  BY RLBAssumption
<1>2. \A q : q \in Switches <=> q \in Nat /\ q < Ncommit  BY <1>1 DEF Switches
<1>3. ASSUME NEW q \in Switches  PROVE Before(q) \in Switches /\ Next1(q) \in Switches
  <2>1. 1 % Ncommit \in 0..(Ncommit - 1) /\ (q + 1) % Ncommit \in 0..(Ncommit - 1)
    <3>1. q + 1 \in Nat /\ Ncommit \in Nat \ {0}  BY <1>1, <1>2
    <3>2. QED  BY <3>1, Division
  <2>2. QED  BY <1>1, <1>2, <2>1 DEF Before, Next1
<1>4. QED  BY <1>1, <1>2, <1>3

\* One commit queue is replaced.
LEMMA InCommitsReplaced ==
  ASSUME NEW k, NEW c \in [Switches -> Seq(Packets)], NEW q \in Switches,
         NEW r \in Seq(Packets)
  PROVE  /\ InCommits(c, k) \in Int
         /\ InCommits([c EXCEPT ![q] = r], k) = InCommits(c, k) - Count(k, c[q]) + Count(k, r)
<1> DEFINE d == [c EXCEPT ![q] = r]
           s == [i \in 1..Ncommit |-> Count(k, c[i - 1])]
           t == [i \in 1..Ncommit |-> Count(k, d[i - 1])]
<1>1. \A i \in 1..Ncommit : i - 1 \in Switches  BY SwitchFacts
<1>2. d \in [Switches -> Seq(Packets)] /\ d[q] = r /\ \A i \in Switches : i # q => d[i] = c[i]
  OBVIOUS
<1> HIDE DEF d
<1>3. \A i \in 1..Ncommit : Count(k, c[i - 1]) \in Int /\ Count(k, d[i - 1]) \in Int
  <2>1. \A i \in 1..Ncommit : c[i - 1] \in Seq(Packets) /\ d[i - 1] \in Seq(Packets)
    BY <1>1, <1>2
  <2>2. QED  BY <2>1, OnesTypes
<1>4. s \in [1..Ncommit -> Int] /\ t \in [1..Ncommit -> Int]  BY <1>3
<1>5. q + 1 \in 1..Ncommit /\ (q + 1) - 1 = q  BY SwitchFacts
<1>6. \A i \in 1..Ncommit : i # q + 1 => t[i] = s[i]
  <2>1. \A i \in 1..Ncommit : i # q + 1 => i - 1 # q  BY SwitchFacts
  <2>2. QED  BY <1>1, <1>2, <2>1
<1>7. s[q + 1] = Count(k, c[q]) /\ t[q + 1] = Count(k, r)  BY <1>2, <1>5
<1>8. InCommits(c, k) = SumSeq(s) /\ InCommits(d, k) = SumSeq(t)  BY DEF InCommits
<1> HIDE DEF s, t
<1>9. SumSeq(s) \in Int /\ SumSeq(t) = SumSeq(s) - s[q + 1] + t[q + 1]
  <2>1. Ncommit \in Nat  BY SwitchFacts
  <2>2. PICK p \in 1..Ncommit : p = q + 1  BY <1>5
  <2>3. \A i \in 1..Ncommit : i # p => t[i] = s[i]  BY <1>6, <2>2
  <2>4. SumSeq(s) \in Int /\ SumSeq(t) = SumSeq(s) - s[p] + t[p]
    BY <1>4, <2>1, <2>3, SumReplaced, ZenonT(60)
  <2>5. QED  BY <2>2, <2>4
<1>10. QED  BY <1>7, <1>8, <1>9 DEF d

\* The doorbell rings when the last commit queue is empty.
LEMMA CheckAllEmptyStep ==
  ASSUME NEW s \in Modules, s.have, s.dummies = 1
  PROVE  LET t == CheckAllEmpty(s) IN
         /\ t \in Modules /\ Rung(t)
         /\ t.queues = s.queues /\ t.commits = s.commits /\ t.skip = s.skip
         /\ t.pull = s.pull /\ t.push = s.push
<1> DEFINE t == CheckAllEmpty(s)
<1>1. CASE \A q \in Switches : s.commits[q] = <<>>
  <2>1. t = [s EXCEPT !.have = FALSE, !.dummies = @ - 1]  BY <1>1 DEF CheckAllEmpty
  <2> HIDE DEF t
  <2>2. t = [s EXCEPT !.have = FALSE, !.dummies = 0]  BY <2>1
  <2>3. /\ t.have = FALSE /\ t.dummies = 0 /\ t.queues = s.queues /\ t.commits = s.commits
        /\ t.skip = s.skip /\ t.pull = s.pull /\ t.push = s.push /\ t \in Modules
    <3>1. ASSUME NEW no \in BOOLEAN, NEW none \in Int
          PROVE  [s EXCEPT !.have = no, !.dummies = none] \in Modules
      BY DEF Modules
    <3>2. 0 \in Int /\ FALSE \in BOOLEAN  OBVIOUS
    <3>3. [s EXCEPT !.have = FALSE, !.dummies = 0] \in Modules  BY <3>1, <3>2, Zenon
    <3>4. t \in Modules  BY <2>2, <3>3, Zenon
    <3>5. QED  BY <2>2, <3>4 DEF Modules
  <2>4. Rung(t)  BY <1>1, <2>3 DEF Rung
  <2>5. QED  BY <2>3, <2>4 DEF t
<1>2. CASE \E q \in Switches : s.commits[q] # <<>>
  <2>1. t = s  BY <1>2 DEF CheckAllEmpty
  <2>2. Rung(s)  BY <1>2 DEF Rung
  <2>3. QED  BY <2>1, <2>2
<1>3. QED  BY <1>1, <1>2

\* What is taken back from the end of a commit queue is in its queue again.
LEMMA PushOneStep ==
  ASSUME NEW s \in Modules
  PROVE  LET t == PushOne(s) IN
         /\ t \in Modules /\ t.skip = s.skip - 1
         /\ t.have = s.have /\ t.dummies = s.dummies
         /\ Shrunk(s, t) /\ \A k \in Keys : Held(t, k) = Held(s, k)
<1> DEFINE q == s.commits[s.push]
           t == PushOne(s)
<1>1. /\ s.push \in Switches /\ q \in Seq(Packets) /\ s.skip \in Int
      /\ s.queues \in [Keys -> Nat] /\ s.commits \in [Switches -> Seq(Packets)]
  BY DEF Modules
<1>2. Before(s.push) \in Switches  BY <1>1, SwitchFacts
<1>s. PICK less \in Int : less = s.skip - 1  BY <1>1
<1>3. CASE q = <<>>
  <2>1. t = [s EXCEPT !.skip = @ - 1, !.push = Before(@)]
    <3>1. [s EXCEPT !.queues = s.queues, !.commits[s.push] = s.commits[s.push],
                    !.skip = s.skip - 1, !.push = Before(s.push)]
            = [s EXCEPT !.skip = s.skip - 1, !.push = Before(s.push)]
      BY <1>1 DEF Modules
    <3>2. QED  BY <1>3, <3>1 DEF PushOne
  <2> HIDE DEF t
  <2>a. t = [s EXCEPT !.skip = less, !.push = Before(s.push)]  BY <1>s, <2>1
  <2>2. /\ t \in Modules /\ t.queues = s.queues /\ t.commits = s.commits
        /\ t.have = s.have /\ t.dummies = s.dummies /\ t.skip = s.skip - 1
    BY <1>s, <1>2, <2>a DEF Modules
  <2>3. Shrunk(s, t) /\ \A k \in Keys : Held(t, k) = Held(s, k)
    BY <2>2 DEF Shrunk, Held
  <2>4. QED  BY <2>2, <2>3 DEF t
<1>4. CASE q # <<>>
  <2>1. t = [s EXCEPT !.queues = TakeBack(@, Last(q)), !.commits[s.push] = Front(q),
                      !.skip = @ - 1, !.push = Before(@)]
    BY <1>4 DEF PushOne
  <2>2. Front(q) \in Seq(Packets) /\ Last(q) \in Packets
    BY <1>1, <1>4, CountFront
  <2>3. /\ TakeBack(s.queues, Last(q)) \in [Keys -> Nat]
        /\ \A k \in Keys : TakeBack(s.queues, Last(q))[k] = s.queues[k] + One(k, Last(q))
    BY <1>1, <2>2 DEF TakeBack, One, Packets
  <2> DEFINE c == [s.commits EXCEPT ![s.push] = Front(q)]
  <2>4. c \in [Switches -> Seq(Packets)]  BY <1>1, <2>2
  <2>5. /\ t.queues = TakeBack(s.queues, Last(q)) /\ t.commits = c
        /\ t.have = s.have /\ t.dummies = s.dummies /\ t.skip = s.skip - 1
        /\ t \in Modules
    <3>1. PICK u \in [Keys -> Nat] : u = TakeBack(s.queues, Last(q))  BY <2>3
    <3>2. t = [s EXCEPT !.queues = u, !.commits = c, !.skip = less,
                        !.push = Before(s.push)]
      BY <1>s, <2>1, <3>1
    <3>3. s \in Modules  OBVIOUS
    <3> HIDE DEF q, c, t
    <3>4. /\ t.queues = u /\ t.commits = c
          /\ t.have = s.have /\ t.dummies = s.dummies /\ t.skip = less
          /\ t \in Modules
      BY ONLY <1>2, <2>4, <3>2, <3>3, u \in [Keys -> Nat], less \in Int DEF Modules
    <3>5. QED  BY <1>s, <3>1, <3>4
  <2>6. Shrunk(s, t)  BY <1>1, <1>4, <2>5 DEF Shrunk
  <2>7. ASSUME NEW k \in Keys  PROVE Held(t, k) = Held(s, k)
    <3>1. /\ InCommits(s.commits, k) \in Int
          /\ InCommits(c, k) = InCommits(s.commits, k) - Count(k, q) + Count(k, Front(q))
      BY <1>1, <2>2, InCommitsReplaced
    <3>2. Count(k, q) = Count(k, Front(q)) + One(k, Last(q))
      BY <1>1, <1>4, CountFront
    <3>3. Count(k, Front(q)) \in Nat /\ One(k, Last(q)) \in Int /\ s.queues[k] \in Int
      BY <1>1, <2>2, OnesTypes DEF One
    <3>4. Held(t, k) = s.queues[k] + One(k, Last(q)) + InCommits(c, k)
      BY <2>3, <2>5 DEF Held
    <3>5. Held(s, k) = s.queues[k] + InCommits(s.commits, k)  BY DEF Held
    <3> HIDE DEF q, c, t
    <3>6. QED  BY ONLY <3>1, <3>2, <3>3, <3>4, <3>5
  <2>8. QED  BY <2>5, <2>6, <2>7
<1>5. QED  BY <1>3, <1>4

\* CommitPush takes back one after the other.
LEMMA CommitPushFold ==
  ASSUME NEW s \in Modules, NEW n \in Nat
  PROVE  \E f : /\ f[0] = s /\ \A k \in 1..n : f[k] = PushOne(f[k - 1])
                /\ CommitPush(s, n) = CheckAllEmpty(f[n])
<1> DEFINE Equation(f) == f = [S \in SUBSET (1..n) |->
                                 IF S = {} THEN s ELSE PushOne(f[S \ {Max(S)}])]
           iter == CHOOSE f : Equation(f)
           step == [x \in (1..n) \X Modules |-> PushOne(x[2])]
<1>1. CommitPush(s, n) = CheckAllEmpty(iter[1..n])
  <2>1. DOMAIN [i \in 1..n |-> i] = 1..n  OBVIOUS
  <2>2. QED  BY <2>1 DEF CommitPush, FoldLeft, MapThenFoldSet
<1>2. \E f : Equation(f)
  <2>1. step \in [(1..n) \X Modules -> Modules]
    <3>1. ASSUME NEW x \in (1..n) \X Modules  PROVE PushOne(x[2]) \in Modules
      <4>1. x[2] \in Modules  OBVIOUS
      <4>2. QED  BY <4>1, PushOneStep
    <3>2. QED  BY <3>1
  <2>2. PICK h : FoldsBy(h, Modules, n, s, step)
    <3> HIDE DEF step
    <3>1. QED  BY <2>1, FoldExists
  <2>3. ASSUME NEW S \in SUBSET (1..n)
        PROVE  h[S] = IF S = {} THEN s ELSE PushOne(h[S \ {Max(S)}])
    <3>1. h[S] = IF S = {} THEN s ELSE step[<<Max(S), h[S \ {Max(S)}]>>]
      BY <2>2 DEF FoldsBy
    <3>2. CASE S # {}
      <4>1. Max(S) \in 1..n  BY <3>2, MaxOfSet
      <4>2. S \ {Max(S)} \in SUBSET (1..n)  OBVIOUS
      <4>3. h[S \ {Max(S)}] \in Modules  BY <2>2, <4>2 DEF FoldsBy
      <4>4. step[<<Max(S), h[S \ {Max(S)}]>>] = PushOne(h[S \ {Max(S)}])  BY <4>1, <4>3
      <4>5. QED  BY <3>1, <3>2, <4>4
    <3>3. QED  BY <3>1, <3>2
  <2>4. h = [S \in SUBSET (1..n) |-> h[S]]  BY <2>2 DEF FoldsBy
  <2>5. Equation(h)  BY <2>3, <2>4
  <2>6. QED  BY <2>5
<1>3. Equation(iter)  BY <1>2
<1> DEFINE f == [k \in 0..n |-> iter[1..k]]
<1>4. f[0] = s
  <2>1. 1..0 = {} /\ 0 \in 0..n  OBVIOUS
  <2>2. {} \in SUBSET (1..n)  OBVIOUS
  <2> HIDE DEF iter
  <2>3. iter[{}] = s  BY <1>3, <2>2
  <2>4. QED  BY <2>1, <2>3
<1>5. ASSUME NEW k \in 1..n  PROVE f[k] = PushOne(f[k - 1])
  <2>1. 1..k \in SUBSET (1..n) /\ 1..k # {} /\ k \in Nat \ {0}  OBVIOUS
  <2>2. Max(1..k) = k /\ (1..k) \ {k} = 1..(k - 1)  BY <2>1, MaxOfRange
  <2> HIDE DEF iter
  <2>3. iter[1..k] = PushOne(iter[(1..k) \ {Max(1..k)}])  BY <1>3, <2>1
  <2>4. k \in 0..n /\ k - 1 \in 0..n  OBVIOUS
  <2>5. QED  BY <2>2, <2>3, <2>4
<1>6. f[n] = iter[1..n]  OBVIOUS
<1>7. QED  BY <1>1, <1>4, <1>5, <1>6

\* It takes n packets back, or finds commit queues that are empty.
LEMMA CommitPushStep ==
  ASSUME NEW s \in Modules, s.have, s.dummies = 1, NEW n \in Nat
  PROVE  LET t == CommitPush(s, n) IN
         /\ t \in Modules /\ Rung(t) /\ t.skip = s.skip - n
         /\ Shrunk(s, t) /\ \A k \in Keys : Held(t, k) = Held(s, k)
<1>1. PICK f : /\ f[0] = s /\ \A k \in 1..n : f[k] = PushOne(f[k - 1])
               /\ CommitPush(s, n) = CheckAllEmpty(f[n])
  BY CommitPushFold
<1> DEFINE Fine(t, l) == /\ t \in Modules /\ t.skip = s.skip - l
                         /\ t.have = s.have /\ t.dummies = s.dummies
                         /\ Shrunk(s, t) /\ \A k \in Keys : Held(t, k) = Held(s, k)
           Good == {l \in Nat : l <= n => Fine(f[l], l)}
<1>2. s.skip \in Int  BY DEF Modules
<1>3. 0 \in Good
  <2>1. Fine(s, 0)  BY <1>2 DEF Shrunk
  <2>2. QED  BY <1>1, <2>1
<1>4. ASSUME NEW l \in Nat, l \in Good  PROVE l + 1 \in Good
  <2>1. SUFFICES ASSUME l + 1 <= n  PROVE Fine(f[l + 1], l + 1)
    <3> HIDE DEF Fine
    <3>1. QED  BY l + 1 \in Nat
  <2>2. l + 1 \in 1..n /\ (l + 1) - 1 = l /\ l <= n  BY ONLY <2>1, l \in Nat, n \in Nat
  <2>3. Fine(f[l], l)  BY <1>4, <2>2
  <2>4. f[l + 1] = PushOne(f[l])  BY <1>1, <2>2
  <2> DEFINE u == f[l]  v == PushOne(u)
  <2>5. /\ v \in Modules /\ v.skip = u.skip - 1 /\ v.have = u.have /\ v.dummies = u.dummies
        /\ Shrunk(u, v) /\ \A k \in Keys : Held(v, k) = Held(u, k)
    BY <2>3, PushOneStep
  <2>6. f[l + 1] = v  BY <2>4
  <2> HIDE DEF v
  <2>7. v.skip = s.skip - (l + 1)  BY <1>2, <2>3, <2>5
  <2>8. Shrunk(s, v)  BY <2>3, <2>5 DEF Shrunk
  <2>9. QED  BY <2>3, <2>5, <2>6, <2>7, <2>8
<1>5. Nat \subseteq Good
  <2> HIDE DEF Good
  <2>1. \A l \in Nat : l \in Good => l + 1 \in Good  BY <1>4
  <2>2. QED  BY <1>3, <2>1, AllNumbers
<1>6. Fine(f[n], n)
  <2>1. n \in Good  BY <1>5
  <2> HIDE DEF Fine
  <2>2. QED  BY <2>1
<1> DEFINE u == f[n]  t == CheckAllEmpty(u)
<1>7. /\ t \in Modules /\ Rung(t) /\ t.queues = u.queues /\ t.commits = u.commits
      /\ t.skip = u.skip
  BY <1>6, CheckAllEmptyStep
<1>8. CommitPush(s, n) = t  BY <1>1
<1> HIDE DEF t
<1>9. Shrunk(s, t) /\ \A k \in Keys : Held(t, k) = Held(s, k)
  BY <1>6, <1>7 DEF Shrunk, Held
<1>10. QED  BY <1>6, <1>7, <1>8, <1>9

\* A full packet goes in place of an RLB packet.
LEMMA NICPushStep ==
  ASSUME NEW s \in Modules, Rung(s), s.skip \in 0..(Ncommit - 1)
  PROVE  LET t == NICPush(s) IN
         /\ t \in Modules /\ Rung(t) /\ t.skip \in 0..(Ncommit - 1)
         /\ Shrunk(s, t) /\ \A k \in Keys : Held(t, k) = Held(s, k)
<1>1. CASE ~ s.have
  BY <1>1 DEF NICPush, Shrunk
<1>2. CASE s.have
  <2> DEFINE u == [s EXCEPT !.skip = @ + 1]
  <2>1. PICK more \in Int : more = s.skip + 1  OBVIOUS
  <2>2. u = [s EXCEPT !.skip = more]  BY <2>1
  <2>3. /\ u \in Modules /\ u.skip = s.skip + 1 /\ u.have /\ u.dummies = 1
        /\ u.queues = s.queues /\ u.commits = s.commits
    <3>1. u \in Modules  BY <2>2 DEF Modules
    <3>2. QED  BY <1>2, <2>1, <2>2, <3>1 DEF Modules, Rung
  <2>4. Ncommit \in Nat /\ Ncommit >= 2  BY SwitchFacts
  <2>5. CASE s.skip + 1 > Ncommit - 1
    <3>1. s.skip + 1 - (Ncommit - 1) = 1  BY <2>4, <2>5
    <3>2. NICPush(s) = CommitPush(u, 1)  BY <1>2, <2>5, <3>1 DEF NICPush
    <3> DEFINE t == CommitPush(u, 1)
    <3> HIDE DEF u
    <3>3. /\ t \in Modules /\ Rung(t) /\ t.skip = u.skip - 1
          /\ Shrunk(u, t) /\ \A k \in Keys : Held(t, k) = Held(u, k)
      BY <2>3, CommitPushStep
    <3> HIDE DEF t
    <3>4. Shrunk(s, t) /\ \A k \in Keys : Held(t, k) = Held(s, k)
      BY <2>3, <3>3 DEF Shrunk, Held
    <3>5. t.skip \in 0..(Ncommit - 1)  BY <2>3, <2>4, <3>3
    <3>6. QED  BY <3>2, <3>3, <3>4, <3>5 DEF t
  <2>6. CASE ~ (s.skip + 1 > Ncommit - 1)
    <3>1. NICPush(s) = u  BY <1>2, <2>6 DEF NICPush
    <3> HIDE DEF u
    <3>2. u.skip \in 0..(Ncommit - 1)  BY <2>3, <2>4, <2>6
    <3>3. Rung(u) /\ Shrunk(s, u) /\ \A k \in Keys : Held(u, k) = Held(s, k)
      BY <1>2, <2>3 DEF Rung, Shrunk, Held
    <3>4. QED  BY <2>3, <3>1, <3>2, <3>3
  <2>7. QED  BY <2>5, <2>6
<1>3. QED  BY <1>1, <1>2 DEF Modules

\* Steps back lead from a switch to a switch.
LEMMA BeforeStepsFold ==
  ASSUME NEW p \in Switches, NEW n \in Nat
  PROVE  BeforeSteps(p, n) \in Switches
<1> DEFINE Equation(f) == f = [S \in SUBSET (1..n) |->
                                 IF S = {} THEN p ELSE Before(f[S \ {Max(S)}])]
           iter == CHOOSE f : Equation(f)
           step == [x \in (1..n) \X Switches |-> Before(x[2])]
<1>1. BeforeSteps(p, n) = iter[1..n]
  <2>1. DOMAIN [i \in 1..n |-> i] = 1..n  OBVIOUS
  <2>2. QED  BY <2>1 DEF BeforeSteps, FoldLeft, MapThenFoldSet
<1>2. \E f : Equation(f)
  <2>1. step \in [(1..n) \X Switches -> Switches]
    <3>1. ASSUME NEW x \in (1..n) \X Switches  PROVE Before(x[2]) \in Switches
      <4>1. x[2] \in Switches  OBVIOUS
      <4>2. QED  BY <4>1, SwitchFacts
    <3>2. QED  BY <3>1
  <2>2. PICK h : FoldsBy(h, Switches, n, p, step)
    <3> HIDE DEF step
    <3>1. QED  BY <2>1, FoldExists
  <2>3. ASSUME NEW S \in SUBSET (1..n)
        PROVE  h[S] = IF S = {} THEN p ELSE Before(h[S \ {Max(S)}])
    <3>1. h[S] = IF S = {} THEN p ELSE step[<<Max(S), h[S \ {Max(S)}]>>]
      BY <2>2 DEF FoldsBy
    <3>2. CASE S # {}
      <4>1. Max(S) \in 1..n  BY <3>2, MaxOfSet
      <4>2. S \ {Max(S)} \in SUBSET (1..n)  OBVIOUS
      <4>3. h[S \ {Max(S)}] \in Switches  BY <2>2, <4>2 DEF FoldsBy
      <4>4. step[<<Max(S), h[S \ {Max(S)}]>>] = Before(h[S \ {Max(S)}])  BY <4>1, <4>3
      <4>5. QED  BY <3>1, <3>2, <4>4
    <3>3. QED  BY <3>1, <3>2
  <2>4. h = [S \in SUBSET (1..n) |-> h[S]]  BY <2>2 DEF FoldsBy
  <2>5. Equation(h)  BY <2>3, <2>4
  <2>6. QED  BY <2>5
<1>3. Equation(iter)  BY <1>2
<1> HIDE DEF iter
<1> DEFINE Good == {l \in Nat : l <= n => iter[1..l] \in Switches}
<1>4. 0 \in Good
  <2>1. 1..0 = {} /\ {} \in SUBSET (1..n)  OBVIOUS
  <2>2. iter[{}] = p  BY <1>3, <2>1
  <2>3. QED  BY <2>1, <2>2
<1>5. ASSUME NEW l \in Nat, l \in Good  PROVE l + 1 \in Good
  <2>1. SUFFICES ASSUME l + 1 <= n  PROVE iter[1..(l + 1)] \in Switches  OBVIOUS
  <2>2. 1..(l + 1) \in SUBSET (1..n) /\ 1..(l + 1) # {} /\ l + 1 \in Nat \ {0} /\ l <= n
    <3>1. l + 1 \in Nat \ {0} /\ l <= n /\ l + 1 \in 1..(l + 1)
      BY ONLY <2>1, l \in Nat, n \in Nat
    <3>2. ASSUME NEW i \in 1..(l + 1)  PROVE i \in 1..n
      BY ONLY <2>1, l \in Nat, n \in Nat, i \in 1..(l + 1)
    <3>3. QED  BY <3>1, <3>2
  <2>3. Max(1..(l + 1)) = l + 1 /\ (1..(l + 1)) \ {l + 1} = 1..l
    <3>1. (l + 1) - 1 = l  OBVIOUS
    <3>2. QED  BY <2>2, <3>1, MaxOfRange
  <2>4. iter[1..(l + 1)] = Before(iter[1..l])  BY <1>3, <2>2, <2>3
  <2>5. iter[1..l] \in Switches  BY <1>5, <2>2
  <2>6. QED  BY <2>4, <2>5, SwitchFacts
<1>6. Nat \subseteq Good
  <2> HIDE DEF Good
  <2>1. \A l \in Nat : l \in Good => l + 1 \in Good  BY <1>5
  <2>2. QED  BY <1>4, <2>1, AllNumbers
<1>7. n \in Good  BY <1>6
<1>8. QED  BY <1>1, <1>7

\* The commit queues that are passed have no packet to send.
LEMMA PassedFacts ==
  ASSUME NEW s \in Modules, s.skip \in 0..(Ncommit - 1)
  PROVE  /\ Passed(s) \in 0..s.skip
         /\ \A i \in 0..(Passed(s) - 1) : ~ IsReal(s.commits[At(s, i)])
         /\ \A i \in Nat : At(s, i) \in Switches
<1> DEFINE Stops(n) == /\ n = s.skip \/ IsReal(s.commits[At(s, n)])
                       /\ \A i \in 0..(n - 1) : ~ IsReal(s.commits[At(s, i)])
<1>1. \E n \in 0..s.skip : Stops(n)
  <2> DEFINE T == {n \in 0..s.skip : n = s.skip \/ IsReal(s.commits[At(s, n)])}
  <2>1. s.skip \in Nat /\ s.skip \in T  BY SwitchFacts
  <2>2. T \in SUBSET Nat /\ T # {}  BY <2>1
  <2>3. PICK n \in T : \A i \in T : n <= i  BY <2>2, LeastElement
  <2>4. n \in 0..s.skip /\ (n = s.skip \/ IsReal(s.commits[At(s, n)]))  OBVIOUS
  <2>5. ASSUME NEW i \in 0..(n - 1)  PROVE ~ IsReal(s.commits[At(s, i)])
    <3>1. i \in 0..s.skip /\ ~ (n <= i)  BY <2>1, <2>4
    <3>2. QED  BY <2>3, <3>1
  <2>6. QED  BY <2>4, <2>5
<1>2. Passed(s) = CHOOSE n \in 0..s.skip : Stops(n)  BY DEF Passed
<1> HIDE DEF Stops
<1>3. Passed(s) \in 0..s.skip /\ Stops(Passed(s))  BY <1>1, <1>2
<1>4. ASSUME NEW i \in Nat  PROVE At(s, i) \in Switches
  <2>1. s.pull \in Nat /\ s.pull + i \in Nat /\ Ncommit \in Nat \ {0}
    BY SwitchFacts DEF Modules
  <2>2. (s.pull + i) % Ncommit \in 0..(Ncommit - 1)  BY <2>1, Division
  <2>3. QED  BY <2>1, <2>2, SwitchFacts DEF At
<1>5. QED  BY <1>3, <1>4 DEF Stops

\* The commit queues after a pull, and what they have lost.
PulledCommits(s) ==
  LET visited == {At(s, i) : i \in 0..Passed(s)}
  IN [q \in Switches |-> IF q \in visited /\ s.commits[q] # <<>>
                         THEN Tail(s.commits[q]) ELSE s.commits[q]]

\* Only dummies are taken from those passed over, and one packet from the last.
LEMMA PulledCommitsFacts ==
  ASSUME NEW s \in Modules, s.skip \in 0..(Ncommit - 1)
  PROVE  /\ PulledCommits(s) \in [Switches -> Seq(Packets)] /\ Pulled(s) \in Packets
         /\ \A q \in Switches : s.commits[q] = <<>> => PulledCommits(s)[q] = <<>>
         /\ \A k \in Keys : InCommits(PulledCommits(s), k) = InCommits(s.commits, k) - One(k, Pulled(s))
<1> DEFINE c == s.commits
           d == PulledCommits(s)
           n == Passed(s)
           last == At(s, n)
           visited == {At(s, i) : i \in 0..n}
<1>1. n \in Nat /\ n \in 0..n /\ last \in Switches /\ last \in visited
  <2>1. n \in Nat  BY PassedFacts, SwitchFacts
  <2> HIDE DEF n
  <2>2. QED  BY <2>1, PassedFacts
<1>2. c \in [Switches -> Seq(Packets)]  BY DEF Modules
<1>3. \A q \in Switches : c[q] \in Seq(Packets)  BY <1>2
<1>4. d = [q \in Switches |-> IF q \in visited /\ c[q] # <<>> THEN Tail(c[q]) ELSE c[q]]
  BY DEF PulledCommits
<1>5. Pulled(s) = IF c[last] = <<>> THEN "dummy" ELSE Head(c[last])  BY DEF Pulled
<1>6. Pulled(s) \in Packets  BY <1>1, <1>3, <1>5, CountHead DEF Packets
<1>7. \A q \in visited : q = last \/ ~ IsReal(c[q])
  <2>1. ASSUME NEW i \in 0..n  PROVE i = n \/ i \in 0..(n - 1)  BY <1>1
  <2>2. QED  BY <2>1, PassedFacts
<1> HIDE DEF c, d, n, last, visited
<1>8. d \in [Switches -> Seq(Packets)]
  <2>1. ASSUME NEW q \in Switches
        PROVE  (IF q \in visited /\ c[q] # <<>> THEN Tail(c[q]) ELSE c[q]) \in Seq(Packets)
    BY <1>3, CountHead
  <2>2. QED  BY <1>4, <2>1
<1>9. \A q \in Switches : c[q] = <<>> => d[q] = <<>>  BY <1>4
<1>10. ASSUME NEW k \in Keys
       PROVE  InCommits(d, k) = InCommits(c, k) - One(k, Pulled(s))
  <2>1. ASSUME NEW q \in Switches, q # last  PROVE Count(k, d[q]) = Count(k, c[q])
    <3>1. CASE q \in visited /\ c[q] # <<>>
      <4>1. ~ IsReal(c[q])  BY <1>7, <2>1, <3>1
      <4>2. Head(c[q]) \notin Keys  BY <3>1, <4>1 DEF IsReal
      <4>3. One(k, Head(c[q])) = 0  BY <4>2 DEF One
      <4>4. Count(k, c[q]) = One(k, Head(c[q])) + Count(k, Tail(c[q]))
        BY <1>3, <3>1, CountHead
      <4>5. Tail(c[q]) \in Seq(Packets)  BY <1>3, <3>1, CountHead
      <4>6. Count(k, Tail(c[q])) \in Nat  BY <4>5, OnesTypes
      <4>7. d[q] = Tail(c[q])  BY <1>4, <3>1
      <4>8. QED  BY <4>3, <4>4, <4>6, <4>7
    <3>2. CASE ~ (q \in visited /\ c[q] # <<>>)  BY <1>4, <3>2
    <3>3. QED  BY <3>1, <3>2
  <2>2. Count(k, d[last]) = Count(k, c[last]) - One(k, Pulled(s))
    <3>1. CASE c[last] = <<>>
      <4>1. d[last] = <<>> /\ Pulled(s) = "dummy"  BY <1>1, <1>5, <1>9, <3>1
      <4>2. One(k, Pulled(s)) = 0  BY <4>1 DEF One, Keys
      <4>3. QED  BY <3>1, <4>1, <4>2, CountEmpty
    <3>2. CASE c[last] # <<>>
      <4>1. d[last] = Tail(c[last]) /\ Pulled(s) = Head(c[last])  BY <1>1, <1>4, <1>5, <3>2
      <4>2. c[last] \in Seq(Packets)  BY <1>1, <1>3
      <4>3. Tail(c[last]) \in Seq(Packets)  BY <4>2, <3>2, CountHead
      <4>4. Count(k, c[last]) = One(k, Head(c[last])) + Count(k, Tail(c[last]))
        BY <4>2, <3>2, CountHead
      <4>5. Count(k, Tail(c[last])) \in Nat /\ One(k, Head(c[last])) \in Nat
        BY <4>3, OnesTypes DEF One
      <4>6. QED  BY <4>1, <4>4, <4>5
    <3>3. QED  BY <3>1, <3>2
  <2> DEFINE a == [i \in 1..Ncommit |-> Count(k, c[i - 1])]
             b == [i \in 1..Ncommit |-> Count(k, d[i - 1])]
  <2>3. \A i \in 1..Ncommit : i - 1 \in Switches  BY SwitchFacts
  <2>4. a \in [1..Ncommit -> Int] /\ b \in [1..Ncommit -> Int]
    <3>1. ASSUME NEW i \in 1..Ncommit
          PROVE  Count(k, c[i - 1]) \in Int /\ Count(k, d[i - 1]) \in Int
      <4>1. c[i - 1] \in Seq(Packets) /\ d[i - 1] \in Seq(Packets)  BY <1>2, <1>8, <2>3
      <4>2. QED  BY <4>1, OnesTypes
    <3>2. QED  BY <3>1
  <2>5. PICK p \in 1..Ncommit : p = last + 1 /\ p - 1 = last  BY <1>1, SwitchFacts
  <2>6. ASSUME NEW i \in 1..Ncommit, i # p  PROVE b[i] = a[i]
    <3>1. i - 1 # last  BY <2>5, <2>6, SwitchFacts
    <3>2. QED  BY <2>1, <2>3, <3>1
  <2>7. a[p] = Count(k, c[last]) /\ b[p] = Count(k, d[last])  BY <2>5
  <2>8. InCommits(c, k) = SumSeq(a) /\ InCommits(d, k) = SumSeq(b)  BY DEF InCommits
  <2>9. a[p] \in Int /\ One(k, Pulled(s)) \in Int  BY <2>4 DEF One
  <2> HIDE DEF a, b
  <2>10. Ncommit \in Nat  BY SwitchFacts
  <2>11. SumSeq(a) \in Int /\ SumSeq(b) = SumSeq(a) - a[p] + b[p]
    BY <2>4, <2>6, <2>10, SumReplaced, ZenonT(60)
  <2>12. QED  BY <2>2, <2>7, <2>8, <2>9, <2>11
<1>11. QED  BY <1>6, <1>8, <1>9, <1>10 DEF c, d

\* The NIC pulls one packet, if there is one for it.
LEMMA NICPullStep ==
  ASSUME NEW s \in Modules, Rung(s), s.have, s.skip \in 0..(Ncommit - 1)
  PROVE  LET t == NICPull(s) IN
         /\ t \in Modules /\ Rung(t) /\ t.skip \in 0..(Ncommit - 1)
         /\ Shrunk(s, t) /\ \A k \in Keys : Held(t, k) = Held(s, k) - One(k, Pulled(s))
<1> DEFINE n == Passed(s)
           c == PulledCommits(s)
           u == [s EXCEPT !.commits = c, !.pull = At(s, n + 1), !.push = BeforeSteps(@, n),
                          !.skip = @ - n]
           v == CheckAllEmpty(u)
<1>1. NICPull(s) = IF ~ v.have THEN [v EXCEPT !.skip = 0]
                   ELSE IF v.skip > 0 THEN CommitPush(v, v.skip)
                   ELSE v
  BY DEF NICPull, PulledCommits
<1>2. n \in Nat /\ n <= s.skip /\ n + 1 \in Nat  BY PassedFacts, SwitchFacts
<1>3. s.push \in Switches  BY DEF Modules
<1>4. c \in [Switches -> Seq(Packets)]  BY PulledCommitsFacts
<1> HIDE DEF n, c
<1>5. At(s, n + 1) \in Switches /\ BeforeSteps(s.push, n) \in Switches
  BY <1>2, <1>3, PassedFacts, BeforeStepsFold
<1>6. PICK less \in Int : less = s.skip - n  BY <1>2, SwitchFacts
<1>7. less \in 0..(Ncommit - 1)  BY <1>2, <1>6, SwitchFacts
<1>8. /\ u \in Modules /\ u.have /\ u.dummies = 1 /\ u.skip = less
      /\ u.queues = s.queues /\ u.commits = c
  <2>1. u = [s EXCEPT !.commits = c, !.pull = At(s, n + 1), !.push = BeforeSteps(s.push, n),
                      !.skip = less]
    BY <1>6
  <2>2. s.dummies = 1  BY DEF Rung
  <2> HIDE DEF u
  <2>3. u \in Modules  BY <1>4, <1>5, <2>1 DEF Modules
  <2>4. QED  BY <2>1, <2>2, <2>3 DEF Modules
<1> HIDE DEF u
<1>9. /\ v \in Modules /\ Rung(v) /\ v.skip = less
      /\ v.queues = s.queues /\ v.commits = c
  BY <1>8, CheckAllEmptyStep
<1>10. Shrunk(s, v)  BY <1>9, PulledCommitsFacts DEF Shrunk, c
<1>11. ASSUME NEW k \in Keys  PROVE Held(v, k) = Held(s, k) - One(k, Pulled(s))
  <2>1. InCommits(c, k) = InCommits(s.commits, k) - One(k, Pulled(s))
    BY PulledCommitsFacts DEF c
  <2>2. InCommits(s.commits, k) \in Int
    <3>1. s.commits \in [Switches -> Seq(Packets)]  BY DEF Modules
    <3>2. 0 \in Switches  BY SwitchFacts
    <3>3. QED  BY <3>1, <3>2, CountEmpty, InCommitsReplaced
  <2>3. s.queues[k] \in Int /\ One(k, Pulled(s)) \in Int  BY DEF Modules, One
  <2>4. Held(v, k) = s.queues[k] + InCommits(c, k)  BY <1>9 DEF Held
  <2>5. Held(s, k) = s.queues[k] + InCommits(s.commits, k)  BY DEF Held
  <2>6. QED  BY <2>1, <2>2, <2>3, <2>4, <2>5
<1> HIDE DEF v
<1>12. CASE ~ v.have
  <2> DEFINE t == [v EXCEPT !.skip = 0]
  <2>1. NICPull(s) = t  BY <1>1, <1>12
  <2>2. /\ t \in Modules /\ t.skip = 0 /\ t.have = v.have /\ t.dummies = v.dummies
        /\ t.queues = v.queues /\ t.commits = v.commits
    <3>1. PICK z \in Int : z = 0  OBVIOUS
    <3>2. t = [v EXCEPT !.skip = z]  BY <3>1
    <3>3. t \in Modules  BY <1>9, <3>2 DEF Modules
    <3>4. QED  BY <1>9, <3>3 DEF Modules
  <2> HIDE DEF t
  <2>3. Rung(t)  BY <1>9, <2>2 DEF Rung
  <2>4. Shrunk(s, t)  BY <1>10, <2>2 DEF Shrunk
  <2>5. \A k \in Keys : Held(t, k) = Held(s, k) - One(k, Pulled(s))
    BY <1>11, <2>2 DEF Held
  <2>6. t.skip \in 0..(Ncommit - 1)  BY <2>2, SwitchFacts
  <2>7. QED  BY <2>1, <2>2, <2>3, <2>4, <2>5, <2>6
<1>13. CASE v.have /\ v.skip > 0
  <2> DEFINE t == CommitPush(v, v.skip)
  <2>1. NICPull(s) = t  BY <1>1, <1>13
  <2>2. v.dummies = 1 /\ v.skip \in Nat  BY <1>7, <1>9, <1>13 DEF Rung
  <2>3. /\ t \in Modules /\ Rung(t) /\ t.skip = v.skip - v.skip
        /\ Shrunk(v, t) /\ \A k \in Keys : Held(t, k) = Held(v, k)
    BY <1>9, <1>13, <2>2, CommitPushStep
  <2> HIDE DEF t
  <2>4. Shrunk(s, t)  BY <1>10, <2>3 DEF Shrunk
  <2>5. t.skip \in 0..(Ncommit - 1)  BY <2>2, <2>3, SwitchFacts
  <2>6. QED  BY <1>11, <2>1, <2>3, <2>4, <2>5
<1>14. CASE v.have /\ ~ (v.skip > 0)
  <2>1. NICPull(s) = v  BY <1>1, <1>14
  <2>2. QED  BY <1>7, <1>9, <1>10, <1>11, <2>1
<1>15. QED  BY <1>12, <1>13, <1>14

-----------------------------------------------------------------------------
(* New matchings and their ends *)

\* A count goes up by one.
LEMMA OneMore ==
  ASSUME NEW f \in [Keys -> Nat], NEW k \in Keys
  PROVE  /\ [f EXCEPT ![k] = @ + 1] \in [Keys -> Nat]
         /\ \A l \in Keys : [f EXCEPT ![k] = @ + 1][l] = f[l] + One(l, k)
<1>1. PICK z \in Nat : z = f[k] + 1  OBVIOUS
<1>2. [f EXCEPT ![k] = @ + 1] = [f EXCEPT ![k] = z]  BY <1>1
<1>3. [f EXCEPT ![k] = z] \in [Keys -> Nat]  OBVIOUS
<1>4. ASSUME NEW l \in Keys  PROVE [f EXCEPT ![k] = z][l] = f[l] + One(l, k)
  <2>1. f[l] \in Nat /\ f[l] + 0 = f[l]  OBVIOUS
  <2>2. CASE l = k  BY <1>1, <2>2 DEF One
  <2>3. CASE l # k  BY <2>1, <2>3 DEF One
  <2>4. QED  BY <2>2, <2>3
<1>5. QED  BY <1>2, <1>3, <1>4

\* What the loop of enqueue_commit has placed so far.
Placing(queues) ==
  {acc \in [queue : Seq(Packets), sent : [Keys -> Nat]] :
     \A k \in Keys : acc.sent[k] = Count(k, acc.queue) /\ acc.sent[k] <= queues[k]}

\* A place is given to a packet that is there, or to a dummy.
LEMMA PlacedStep ==
  ASSUME NEW queues \in [Keys -> Nat], NEW n \in [Keys -> Nat],
         NEW acc \in Placing(queues), NEW i \in 1..MaxPkts
  PROVE  LET t == Placed(queues, n, acc, i) IN
         t \in Placing(queues) /\ Len(t.queue) = Len(acc.queue) + 1
<1> DEFINE due == {k \in Keys : /\ acc.sent[k] < n[k] /\ acc.sent[k] < queues[k]
                                /\ acc.sent[k] * MaxPkts < i * n[k]}
           Earliest(k) == \A l \in due :
                 \/ acc.sent[k] * n[l] < acc.sent[l] * n[k]
                 \/ acc.sent[k] * n[l] = acc.sent[l] * n[k] /\ (k = "nonlocal" \/ l = k)
           first == CHOOSE k \in due : Earliest(k)
           t == Placed(queues, n, acc, i)
<1>1. /\ acc \in [queue : Seq(Packets), sent : [Keys -> Nat]]
      /\ acc.queue \in Seq(Packets) /\ acc.sent \in [Keys -> Nat]
      /\ \A k \in Keys : acc.sent[k] = Count(k, acc.queue) /\ acc.sent[k] <= queues[k]
  BY DEF Placing
<1>2. ASSUME NEW p \in Packets
      PROVE  /\ Append(acc.queue, p) \in Seq(Packets)
             /\ Len(Append(acc.queue, p)) = Len(acc.queue) + 1
             /\ \A k \in Keys : Count(k, Append(acc.queue, p)) = acc.sent[k] + One(k, p)
  BY <1>1, CountAppend, AppendProperties
<1>3. CASE due = {}
  <2>1. t = [acc EXCEPT !.queue = Append(@, "dummy")]  BY <1>3 DEF Placed
  <2>2. "dummy" \in Packets /\ \A k \in Keys : One(k, "dummy") = 0
    BY DEF Packets, Keys, One
  <2>3. PICK q \in Seq(Packets) : q = Append(acc.queue, "dummy")  BY <1>2, <2>2
  <2>4. t = [acc EXCEPT !.queue = q]  BY <2>1, <2>3
  <2> HIDE DEF t
  <2>5. t \in [queue : Seq(Packets), sent : [Keys -> Nat]] /\ t.queue = q /\ t.sent = acc.sent
    BY <1>1, <2>4
  <2>6. Len(q) = Len(acc.queue) + 1 /\ \A k \in Keys : Count(k, q) = acc.sent[k]
    <3>1. \A k \in Keys : acc.sent[k] \in Nat /\ acc.sent[k] + 0 = acc.sent[k]  BY <1>1
    <3>2. QED  BY <1>2, <2>2, <2>3, <3>1
  <2>7. t \in Placing(queues)  BY <1>1, <2>5, <2>6 DEF Placing
  <2>8. QED  BY <2>5, <2>6, <2>7 DEF t
<1>4. CASE due # {}
  <2>1. t = [queue |-> Append(acc.queue, first), sent |-> [acc.sent EXCEPT ![first] = @ + 1]]
    BY <1>4 DEF Placed
  <2>2. \E k \in due : Earliest(k)
    <3> DEFINE x == acc.sent["local"] * n["nonlocal"]
               y == acc.sent["nonlocal"] * n["local"]
    <3>1. x \in Int /\ y \in Int  BY <1>1 DEF Keys
    <3>2. due \subseteq Keys /\ \A k \in due : k = "local" \/ k = "nonlocal"  BY DEF Keys
    <3>3. \A k \in Keys : acc.sent[k] * n[k] \in Int  BY <1>1
    <3> HIDE DEF due, x, y
    <3>4. CASE due = {"local"} \/ due = {"nonlocal"}  BY <3>2, <3>3, <3>4
    <3>5. CASE "local" \in due /\ "nonlocal" \in due
      <4>1. CASE x < y
        <5>1. Earliest("local")  BY <3>2, <4>1 DEF x, y
        <5>2. QED  BY <3>5, <5>1
      <4>2. CASE ~ (x < y)
        <5>1. y < x \/ y = x  BY <3>1, <4>2
        <5>2. Earliest("nonlocal")  BY <3>2, <5>1 DEF x, y
        <5>3. QED  BY <3>5, <5>2
      <4>3. QED  BY <4>1, <4>2
    <3>6. QED  BY <1>4, <3>2, <3>4, <3>5
  <2>3. first \in due
    <3> HIDE DEF due, Earliest
    <3>1. QED  BY <2>2
  <2>4. first \in Keys /\ acc.sent[first] < queues[first]  BY <2>3
  <2> HIDE DEF first, due
  <2>5. first \in Packets /\ \A k \in Keys : One(k, first) = IF k = first THEN 1 ELSE 0
    BY <2>4 DEF Packets, One
  <2>6. PICK q \in Seq(Packets) : q = Append(acc.queue, first)  BY <1>2, <2>5
  <2>7. PICK u \in [Keys -> Nat] : /\ u = [acc.sent EXCEPT ![first] = @ + 1]
                                   /\ \A k \in Keys : u[k] = acc.sent[k] + One(k, first)
    <3>1. PICK f \in [Keys -> Nat] : f = acc.sent  BY <1>1
    <3> DEFINE v == [f EXCEPT ![first] = @ + 1]
    <3>2. v \in [Keys -> Nat] /\ \A k \in Keys : v[k] = f[k] + One(k, first)
      BY <2>4, OneMore
    <3>3. v = [acc.sent EXCEPT ![first] = @ + 1]  BY <3>1
    <3> HIDE DEF v
    <3>4. QED  BY <3>1, <3>2, <3>3
  <2>8. ASSUME NEW k \in Keys  PROVE u[k] = Count(k, q) /\ u[k] <= queues[k]
    <3>1. Count(k, q) = acc.sent[k] + One(k, first)  BY <1>2, <2>5, <2>6
    <3>2. u[k] = acc.sent[k] + One(k, first)  BY <2>7
    <3>3. acc.sent[k] \in Nat /\ queues[k] \in Nat /\ acc.sent[k] <= queues[k]  BY <1>1
    <3>4. CASE k = first
      <4>1. One(k, first) = 1 /\ acc.sent[k] < queues[k]  BY <2>4, <2>5, <3>4
      <4>2. QED  BY ONLY <3>1, <3>2, <3>3, <4>1
    <3>5. CASE k # first
      <4>1. One(k, first) = 0  BY <2>5, <3>5
      <4>2. QED  BY ONLY <3>1, <3>2, <3>3, <4>1
    <3>6. QED  BY <3>4, <3>5
  <2>9. t = [queue |-> q, sent |-> u]  BY <2>1, <2>6, <2>7
  <2>10. Len(q) = Len(acc.queue) + 1  BY <1>2, <2>5, <2>6
  <2> HIDE DEF t
  <2>11. t \in Placing(queues) /\ t.queue = q  BY <2>8, <2>9 DEF Placing
  <2>12. QED  BY <2>10, <2>11 DEF t
<1>5. QED  BY <1>3, <1>4

\* A commit queue has a place for every packet time, and the packets in it
\* are there.
LEMMA SpacedFacts ==
  ASSUME NEW queues \in [Keys -> Nat], NEW n \in [Keys -> Nat]
  PROVE  Spaced(queues, n) \in Placing(queues) /\ Spaced(queues, n).queue # <<>>
<1> DEFINE base == [queue |-> <<>>, sent |-> [k \in Keys |-> 0]]
           T == Placing(queues)
           seq == [i \in 1..MaxPkts |-> i]
           Step(acc, i) == Placed(queues, n, acc, seq[i])
           Equation(f) == f = [S \in SUBSET (1..MaxPkts) |->
                                 IF S = {} THEN base ELSE Step(f[S \ {Max(S)}], Max(S))]
           iter == CHOOSE f : Equation(f)
           step == [x \in (1..MaxPkts) \X T |-> Step(x[2], x[1])]
<1>0. MaxPkts \in Nat /\ MaxPkts >= 1  BY RLBAssumption
<1>1. Spaced(queues, n) = iter[1..MaxPkts]
  <2>1. DOMAIN [i \in 1..MaxPkts |-> i] = 1..MaxPkts  OBVIOUS
  <2>2. QED  BY <2>1 DEF Spaced, FoldLeft, MapThenFoldSet
<1>2. base \in T
  <2>1. <<>> \in Seq(Packets) /\ \A k \in Keys : Count(k, <<>>) = 0  BY CountEmpty
  <2>2. [k \in Keys |-> 0] \in [Keys -> Nat]  OBVIOUS
  <2>3. \A k \in Keys : 0 <= queues[k]  OBVIOUS
  <2>4. QED  BY <2>1, <2>2, <2>3 DEF Placing
<1>3. \A acc \in T, i \in 1..MaxPkts :
        Step(acc, i) \in T /\ Len(Step(acc, i).queue) = Len(acc.queue) + 1
  <2>1. ASSUME NEW acc \in T, NEW i \in 1..MaxPkts
        PROVE  Step(acc, i) \in T /\ Len(Step(acc, i).queue) = Len(acc.queue) + 1
    <3>1. Step(acc, i) = Placed(queues, n, acc, i)  OBVIOUS
    <3> HIDE DEF Step
    <3>2. QED  BY <3>1, PlacedStep
  <2> HIDE DEF Step, T
  <2>2. QED  BY <2>1
<1> HIDE DEF Step, base, T
<1>4. \E f : Equation(f)
  <2>1. step \in [(1..MaxPkts) \X T -> T]  BY <1>3
  <2>2. PICK h : FoldsBy(h, T, MaxPkts, base, step)
    <3> HIDE DEF step
    <3>1. QED  BY <1>0, <1>2, <2>1, FoldExists
  <2>3. ASSUME NEW S \in SUBSET (1..MaxPkts)
        PROVE  h[S] = IF S = {} THEN base ELSE Step(h[S \ {Max(S)}], Max(S))
    <3>1. h[S] = IF S = {} THEN base ELSE step[<<Max(S), h[S \ {Max(S)}]>>]
      BY <2>2 DEF FoldsBy
    <3>2. CASE S # {}
      <4>1. Max(S) \in 1..MaxPkts  BY <1>0, <3>2, MaxOfSet
      <4>2. S \ {Max(S)} \in SUBSET (1..MaxPkts)  OBVIOUS
      <4>3. h[S \ {Max(S)}] \in T  BY <2>2, <4>2 DEF FoldsBy
      <4>4. step[<<Max(S), h[S \ {Max(S)}]>>] = Step(h[S \ {Max(S)}], Max(S))
        BY <4>1, <4>3
      <4>5. QED  BY <3>1, <3>2, <4>4
    <3>3. QED  BY <3>1, <3>2
  <2>4. h = [S \in SUBSET (1..MaxPkts) |-> h[S]]  BY <2>2 DEF FoldsBy
  <2>5. Equation(h)  BY <2>3, <2>4
  <2>6. QED  BY <2>5
<1>5. Equation(iter)  BY <1>4
<1> HIDE DEF iter
<1> DEFINE Good == {l \in Nat : l <= MaxPkts => /\ iter[1..l] \in T
                                                /\ Len(iter[1..l].queue) = l}
<1>6. 0 \in Good
  <2>1. 1..0 = {} /\ {} \in SUBSET (1..MaxPkts)  OBVIOUS
  <2>2. iter[{}] = base  BY <1>5, <2>1
  <2>3. Len(base.queue) = 0  BY DEF base
  <2>4. QED  BY <1>2, <2>1, <2>2, <2>3
<1>7. ASSUME NEW l \in Nat, l \in Good  PROVE l + 1 \in Good
  <2>1. SUFFICES ASSUME l + 1 <= MaxPkts
                 PROVE  iter[1..(l + 1)] \in T /\ Len(iter[1..(l + 1)].queue) = l + 1
    OBVIOUS
  <2>2. /\ 1..(l + 1) \in SUBSET (1..MaxPkts) /\ 1..(l + 1) # {}
        /\ l + 1 \in Nat \ {0} /\ l <= MaxPkts /\ l + 1 \in 1..MaxPkts
    <3>1. l + 1 \in Nat \ {0} /\ l <= MaxPkts /\ l + 1 \in 1..(l + 1) /\ l + 1 \in 1..MaxPkts
      BY ONLY <1>0, <2>1, l \in Nat
    <3>2. ASSUME NEW i \in 1..(l + 1)  PROVE i \in 1..MaxPkts
      BY ONLY <1>0, <2>1, l \in Nat, i \in 1..(l + 1)
    <3>3. QED  BY <3>1, <3>2
  <2>3. Max(1..(l + 1)) = l + 1 /\ (1..(l + 1)) \ {l + 1} = 1..l
    <3>1. (l + 1) - 1 = l  OBVIOUS
    <3>2. QED  BY <2>2, <3>1, MaxOfRange
  <2>4. iter[1..(l + 1)] = Step(iter[1..l], l + 1)  BY <1>5, <2>2, <2>3
  <2>5. iter[1..l] \in T /\ Len(iter[1..l].queue) = l  BY <1>7, <2>2
  <2>6. QED  BY <1>3, <2>2, <2>4, <2>5
<1>8. Nat \subseteq Good
  <2> HIDE DEF Good
  <2>1. \A l \in Nat : l \in Good => l + 1 \in Good  BY <1>7
  <2>2. QED  BY <1>6, <2>1, AllNumbers
<1>9. iter[1..MaxPkts] \in T /\ Len(iter[1..MaxPkts].queue) = MaxPkts
  <2>1. MaxPkts \in Good /\ MaxPkts <= MaxPkts  BY <1>0, <1>8
  <2>2. QED  BY <2>1
<1>10. Len(<<>>) = 0  BY EmptySeq
<1>11. iter[1..MaxPkts].queue # <<>>  BY <1>0, <1>9, <1>10
<1>12. QED  BY <1>1, <1>9, <1>11 DEF T

\* enqueue_commit: packets move to an empty commit queue.
LEMMA EnqueueCommitStep ==
  ASSUME NEW s \in Modules, Rung(s), NEW q \in Switches, s.commits[q] = <<>>,
         NEW n \in [Keys -> Nat]
  PROVE  LET t == EnqueueCommit(s, q, n) IN
         /\ t \in Modules /\ Rung(t) /\ t.skip = s.skip
         /\ \A p \in Switches : p # q => t.commits[p] = s.commits[p]
         /\ \A k \in Keys : Held(t, k) = Held(s, k)
<1> DEFINE spaced == Spaced(s.queues, n)
           t == EnqueueCommit(s, q, n)
           r == spaced.queue
           left == [k \in Keys |-> s.queues[k] - spaced.sent[k]]
           c == [s.commits EXCEPT ![q] = r]
           pull == IF s.have THEN s.pull ELSE q
           push == IF s.have THEN s.push ELSE Before(q)
           dummies == IF s.have THEN s.dummies ELSE s.dummies + 1
<1>1. /\ s.queues \in [Keys -> Nat] /\ s.commits \in [Switches -> Seq(Packets)]
      /\ s.pull \in Switches /\ s.push \in Switches /\ Before(q) \in Switches
  BY SwitchFacts DEF Modules
<1>2. /\ r \in Seq(Packets) /\ r # <<>> /\ spaced.sent \in [Keys -> Nat]
      /\ \A k \in Keys : spaced.sent[k] = Count(k, r) /\ spaced.sent[k] <= s.queues[k]
  <2>1. spaced \in Placing(s.queues) /\ r # <<>>  BY <1>1, SpacedFacts
  <2> HIDE DEF spaced
  <2>2. QED  BY <2>1 DEF Placing
<1> HIDE DEF spaced
<1>3. left \in [Keys -> Nat] /\ \A k \in Keys : left[k] = s.queues[k] - Count(k, r)
  <2>1. ASSUME NEW k \in Keys  PROVE s.queues[k] - spaced.sent[k] \in Nat
    <3>1. s.queues[k] \in Nat /\ spaced.sent[k] \in Nat /\ spaced.sent[k] <= s.queues[k]
      BY <1>1, <1>2
    <3>2. QED  BY ONLY <3>1
  <2>2. QED  BY <1>2, <2>1
<1>4. c \in [Switches -> Seq(Packets)] /\ c[q] = r
  BY <1>1, <1>2
<1>5. pull \in Switches /\ push \in Switches /\ dummies = 1
  <2>1. s.dummies = IF s.have THEN 1 ELSE 0  BY DEF Rung
  <2>2. QED  BY <1>1, <2>1
<1>6. t = [s EXCEPT !.queues = left, !.commits = c, !.have = TRUE, !.pull = pull,
                    !.push = push, !.dummies = 1]
  <2>1. s.commits[q] \o r = r  BY <1>2, ConcatEmptySeq
  <2>2. t = [s EXCEPT !.queues = left, !.commits = c, !.have = TRUE, !.pull = pull,
                      !.push = push, !.dummies = dummies]
    BY <2>1 DEF EnqueueCommit, spaced
  <2>3. QED  BY <1>5, <2>2
<1> HIDE DEF left, c, pull, push, dummies, t, r
<1>7. t \in Modules
  <2>1. ASSUME NEW yes \in BOOLEAN, NEW one \in Int
        PROVE  [s EXCEPT !.queues = left, !.commits = c, !.have = yes, !.pull = pull,
                         !.push = push, !.dummies = one] \in Modules
    BY <1>3, <1>4, <1>5 DEF Modules
  <2>2. TRUE \in BOOLEAN /\ 1 \in Int  OBVIOUS
  <2>3. QED  BY <1>6, <2>1, <2>2, Zenon
<1>8. /\ t.queues = left /\ t.commits = c /\ t.have = TRUE /\ t.dummies = 1
      /\ t.skip = s.skip
  BY <1>6 DEF Modules
<1>9. Rung(t)  BY <1>2, <1>4, <1>8 DEF Rung
<1>10. \A p \in Switches : p # q => t.commits[p] = s.commits[p]
  BY <1>1, <1>8 DEF c
<1>11. ASSUME NEW k \in Keys  PROVE Held(t, k) = Held(s, k)
  <2>1. /\ InCommits(s.commits, k) \in Int
        /\ InCommits(c, k) = InCommits(s.commits, k) - Count(k, <<>>) + Count(k, r)
    <3>1. PICK d \in [Switches -> Seq(Packets)] : d = s.commits  BY <1>1
    <3>2. /\ InCommits(d, k) \in Int
          /\ InCommits([d EXCEPT ![q] = r], k) = InCommits(d, k) - Count(k, d[q]) + Count(k, r)
      BY <1>2, InCommitsReplaced
    <3>3. d[q] = <<>> /\ [d EXCEPT ![q] = r] = c  BY <3>1 DEF c
    <3>4. QED  BY <3>1, <3>2, <3>3
  <2>2. Count(k, <<>>) = 0 /\ Count(k, r) \in Nat /\ s.queues[k] \in Nat
    BY <1>1, <1>2, CountEmpty, OnesTypes
  <2>3. Held(t, k) = left[k] + InCommits(c, k)  BY <1>8 DEF Held
  <2>4. Held(s, k) = s.queues[k] + InCommits(s.commits, k)  BY DEF Held
  <2>5. left[k] = s.queues[k] - Count(k, r)  BY <1>3
  <2>6. QED  BY ONLY <2>1, <2>2, <2>3, <2>4, <2>5
<1>12. QED  BY <1>7, <1>8, <1>9, <1>10, <1>11 DEF t

\* One packet more in its queue.
LEMMA TakeBackStep ==
  ASSUME NEW queues \in [Keys -> Nat], NEW p \in Packets
  PROVE  /\ TakeBack(queues, p) \in [Keys -> Nat]
         /\ \A k \in Keys : TakeBack(queues, p)[k] = queues[k] + One(k, p)
<1>1. CASE p \in Keys
  <2>1. TakeBack(queues, p) = [queues EXCEPT ![p] = @ + 1]  BY <1>1 DEF TakeBack
  <2>2. \A k \in Keys : One(k, p) = One(p, k) /\ One(k, p) = IF p = k THEN 1 ELSE 0
    BY DEF One
  <2>3. QED  BY <1>1, <2>1, <2>2, OneMore
<1>2. CASE p \notin Keys
  <2>1. TakeBack(queues, p) = queues /\ \A k \in Keys : One(k, p) = 0
    BY <1>2 DEF TakeBack, One
  <2>2. \A k \in Keys : queues[k] \in Nat /\ queues[k] + 0 = queues[k]  OBVIOUS
  <2>3. QED  BY <2>1, <2>2
<1>3. QED  BY <1>1, <1>2

\* A commit queue is taken back: its packets are in their queues.
LEMMA TakenBackFold ==
  ASSUME NEW queues \in [Keys -> Nat], NEW r \in Seq(Packets)
  PROVE  LET back == FoldLeft(TakeBack, queues, r) IN
         /\ back \in [Keys -> Nat]
         /\ \A k \in Keys : back[k] = queues[k] + Count(k, r)
<1> DEFINE n == Len(r)
           T == [Keys -> Nat]
           Step(acc, i) == TakeBack(acc, r[i])
           Equation(f) == f = [S \in SUBSET (1..n) |->
                                 IF S = {} THEN queues ELSE Step(f[S \ {Max(S)}], Max(S))]
           iter == CHOOSE f : Equation(f)
           step == [x \in (1..n) \X T |-> Step(x[2], x[1])]
<1>0. n \in Nat /\ \A i \in 1..n : r[i] \in Packets  BY LenProperties, ElementOfSeq
<1>1. FoldLeft(TakeBack, queues, r) = iter[1..n]
  <2>1. DOMAIN r = 1..n  BY LenProperties
  <2>2. QED  BY <2>1 DEF FoldLeft, MapThenFoldSet
<1>2. \A acc \in T, i \in 1..n : Step(acc, i) \in T  BY <1>0, TakeBackStep
<1>3. \E f : Equation(f)
  <2> HIDE DEF Step, n, T
  <2>1. step \in [(1..n) \X T -> T]  BY <1>2
  <2>2. PICK h : FoldsBy(h, T, n, queues, step)
    <3>1. queues \in T  BY DEF T
    <3> HIDE DEF step
    <3>2. QED  BY <1>0, <2>1, <3>1, FoldExists
  <2>3. ASSUME NEW S \in SUBSET (1..n)
        PROVE  h[S] = IF S = {} THEN queues ELSE Step(h[S \ {Max(S)}], Max(S))
    <3>1. h[S] = IF S = {} THEN queues ELSE step[<<Max(S), h[S \ {Max(S)}]>>]
      BY <2>2 DEF FoldsBy
    <3>2. CASE S # {}
      <4>1. Max(S) \in 1..n  BY <1>0, <3>2, MaxOfSet
      <4>2. S \ {Max(S)} \in SUBSET (1..n)  OBVIOUS
      <4>3. h[S \ {Max(S)}] \in T  BY <2>2, <4>2 DEF FoldsBy
      <4>4. step[<<Max(S), h[S \ {Max(S)}]>>] = Step(h[S \ {Max(S)}], Max(S))
        BY <4>1, <4>3
      <4>5. QED  BY <3>1, <3>2, <4>4
    <3>3. QED  BY <3>1, <3>2
  <2>4. h = [S \in SUBSET (1..n) |-> h[S]]  BY <2>2 DEF FoldsBy
  <2>5. Equation(h)  BY <2>3, <2>4
  <2>6. QED  BY <2>5
<1>4. Equation(iter)  BY <1>3
<1> HIDE DEF iter, n
<1>5. ASSUME NEW k \in Keys
      PROVE  iter[1..n] \in T /\ iter[1..n][k] = queues[k] + Count(k, r)
  <2> DEFINE s == Ones(k, r)
  <2>1. s \in Seq(Int) /\ Len(s) = n /\ Count(k, r) = SumSeq(s)  BY OnesTypes DEF n
  <2>2. \A i \in 1..n : s[i] = One(k, r[i])  BY DEF Ones, n
  <2> HIDE DEF s
  <2>3. PICK g : PartialSums(s, n, g) /\ SumSeq(s) = g[n]  BY <2>1, SumIsPartial
  <2>4. queues[k] \in Nat  OBVIOUS
  <2> DEFINE Good == {l \in Nat : l <= n => /\ iter[1..l] \in T
                                            /\ iter[1..l][k] = queues[k] + g[l]}
  <2>5. 0 \in Good
    <3>1. 1..0 = {} /\ {} \in SUBSET (1..n)  OBVIOUS
    <3>2. iter[{}] = queues  BY <1>4, <3>1
    <3>3. g[0] = 0  BY <2>3 DEF PartialSums
    <3>4. queues[k] + 0 = queues[k]  BY <2>4
    <3>5. QED  BY <3>1, <3>2, <3>3, <3>4
  <2>6. ASSUME NEW l \in Nat, l \in Good  PROVE l + 1 \in Good
    <3>1. SUFFICES ASSUME l + 1 <= n
                   PROVE  iter[1..(l + 1)] \in T /\ iter[1..(l + 1)][k] = queues[k] + g[l + 1]
      OBVIOUS
    <3>2. /\ 1..(l + 1) \in SUBSET (1..n) /\ 1..(l + 1) # {} /\ (l + 1) - 1 = l
          /\ l + 1 \in Nat \ {0} /\ l <= n /\ l + 1 \in 1..n /\ l \in 0..n
      <4>1. /\ l + 1 \in Nat \ {0} /\ l <= n /\ l + 1 \in 1..(l + 1) /\ l + 1 \in 1..n
            /\ l \in 0..n /\ (l + 1) - 1 = l
        BY ONLY <1>0, <3>1, l \in Nat
      <4>2. ASSUME NEW i \in 1..(l + 1)  PROVE i \in 1..n
        BY ONLY <1>0, <3>1, l \in Nat, i \in 1..(l + 1)
      <4>3. QED  BY <4>1, <4>2
    <3>3. Max(1..(l + 1)) = l + 1 /\ (1..(l + 1)) \ {l + 1} = 1..l
      BY <3>2, MaxOfRange
    <3>4. iter[1..(l + 1)] = TakeBack(iter[1..l], r[l + 1])  BY <1>4, <3>2, <3>3
    <3>5. iter[1..l] \in T /\ iter[1..l][k] = queues[k] + g[l]  BY <2>6, <3>2
    <3>6. r[l + 1] \in Packets  BY <1>0, <3>2
    <3>7. /\ iter[1..(l + 1)] \in T
          /\ iter[1..(l + 1)][k] = iter[1..l][k] + One(k, r[l + 1])
      <4>1. PICK acc \in [Keys -> Nat], p \in Packets : acc = iter[1..l] /\ p = r[l + 1]
        BY <3>5, <3>6
      <4>2. /\ TakeBack(acc, p) \in [Keys -> Nat]
            /\ TakeBack(acc, p)[k] = acc[k] + One(k, p)
        BY TakeBackStep
      <4>3. QED  BY <3>4, <4>1, <4>2
    <3>8. g[l + 1] = g[l] + s[l + 1] /\ g[l] \in Int  BY <2>3, <3>2 DEF PartialSums
    <3>9. s[l + 1] = One(k, r[l + 1]) /\ One(k, r[l + 1]) \in Int  BY <2>2, <3>2 DEF One
    <3>10. iter[1..(l + 1)][k] = queues[k] + g[l + 1]
      BY ONLY <2>4, <3>5, <3>7, <3>8, <3>9
    <3>11. QED  BY <3>7, <3>10
  <2>7. Nat \subseteq Good
    <3> HIDE DEF Good
    <3>1. \A l \in Nat : l \in Good => l + 1 \in Good  BY <2>6
    <3>2. QED  BY <2>5, <3>1, AllNumbers
  <2>8. n \in Good /\ n <= n  BY <1>0, <2>7
  <2>9. QED  BY <2>1, <2>3, <2>8
<1>6. "local" \in Keys  BY DEF Keys
<1>7. QED  BY <1>1, <1>5, <1>6

\* clean_commit: what is left of a commit queue returns.
LEMMA CleanedStep ==
  ASSUME NEW s \in Modules, Rung(s), OldestQueue \in Switches
  PROVE  LET t == Cleaned(s) IN
         /\ t \in Modules /\ Rung(t) /\ t.skip = s.skip
         /\ Shrunk(s, t) /\ t.commits[OldestQueue] = <<>>
         /\ \A k \in Keys : Held(t, k) = Held(s, k)
<1>1. PICK q \in Switches : q = OldestQueue  OBVIOUS
<1>2. /\ s.queues \in [Keys -> Nat] /\ s.commits \in [Switches -> Seq(Packets)]
      /\ s.commits[q] \in Seq(Packets)
  BY DEF Modules
<1>3. PICK back \in [Keys -> Nat] :
        /\ back = FoldLeft(TakeBack, s.queues, s.commits[q])
        /\ \A k \in Keys : back[k] = s.queues[k] + Count(k, s.commits[q])
  BY <1>2, TakenBackFold
<1> DEFINE c == [s.commits EXCEPT ![q] = <<>>]
           u == [s EXCEPT !.queues = back, !.commits = c]
           t == Cleaned(s)
<1>4. t = IF s.have THEN CheckAllEmpty(u) ELSE u  BY <1>1, <1>3 DEF Cleaned
<1>5. c \in [Switches -> Seq(Packets)] /\ c[q] = <<>>  BY <1>2, CountEmpty
<1>6. \A p \in Switches : s.commits[p] = <<>> => c[p] = <<>>  BY <1>2
<1>7. ASSUME NEW k \in Keys
      PROVE  back[k] + InCommits(c, k) = s.queues[k] + InCommits(s.commits, k)
  <2>1. <<>> \in Seq(Packets) /\ Count(k, <<>>) = 0  BY CountEmpty
  <2>2. /\ InCommits(s.commits, k) \in Int
        /\ InCommits(c, k) = InCommits(s.commits, k) - Count(k, s.commits[q]) + Count(k, <<>>)
    BY <1>2, <2>1, InCommitsReplaced
  <2>3. Count(k, s.commits[q]) \in Nat /\ s.queues[k] \in Nat  BY <1>2, OnesTypes
  <2>4. back[k] = s.queues[k] + Count(k, s.commits[q])  BY <1>3
  <2> HIDE DEF c
  <2>5. QED  BY ONLY <2>1, <2>2, <2>3, <2>4
<1> HIDE DEF c, t
<1>8. /\ u \in Modules /\ u.queues = back /\ u.commits = c /\ u.skip = s.skip
      /\ u.have = s.have /\ u.dummies = s.dummies
  BY <1>5 DEF Modules
<1> HIDE DEF u
<1>9. CASE s.have
  <2>1. u.have /\ u.dummies = 1  BY <1>8, <1>9 DEF Rung
  <2>2. t = CheckAllEmpty(u)  BY <1>4, <1>9
  <2>3. /\ t \in Modules /\ Rung(t) /\ t.skip = u.skip /\ t.queues = u.queues
        /\ t.commits = u.commits
    BY <1>8, <2>1, <2>2, CheckAllEmptyStep
  <2>4. Shrunk(s, t) /\ t.commits[q] = <<>>  BY <1>5, <1>6, <1>8, <2>3 DEF Shrunk
  <2>5. \A k \in Keys : Held(t, k) = Held(s, k)  BY <1>7, <1>8, <2>3 DEF Held
  <2>6. QED  BY <1>1, <1>8, <2>3, <2>4, <2>5 DEF t
<1>10. CASE ~ s.have
  <2>1. t = u  BY <1>4, <1>10
  <2>2. \A p \in Switches : u.commits[p] = <<>>  BY <1>6, <1>8, <1>10 DEF Rung
  <2>3. u.dummies = 0  BY <1>8, <1>10 DEF Rung
  <2>4. Rung(u)  BY <1>8, <1>10, <2>2, <2>3 DEF Rung
  <2>5. Shrunk(s, t)  BY <2>1, <2>2 DEF Shrunk
  <2>6. \A k \in Keys : Held(t, k) = Held(s, k)  BY <1>7, <1>8, <2>1 DEF Held
  <2>7. QED  BY <1>1, <1>8, <2>1, <2>2, <2>4, <2>5, <2>6 DEF t
<1>11. QED  BY <1>9, <1>10

\* What the host has is a number.
LEMMA HeldType ==
  ASSUME NEW s \in Modules, NEW k \in Keys
  PROVE  Held(s, k) \in Nat
<1> DEFINE a == [i \in 1..Ncommit |-> Count(k, s.commits[i - 1])]
<1>1. Ncommit \in Nat /\ \A i \in 1..Ncommit : i - 1 \in Switches  BY SwitchFacts
<1>2. \A i \in 1..Ncommit : s.commits[i - 1] \in Seq(Packets)  BY <1>1 DEF Modules
<1>3. \A i \in 1..Ncommit : Count(k, s.commits[i - 1]) \in Nat  BY <1>2, OnesTypes
<1>4. a \in [1..Ncommit -> Nat]  BY <1>3
<1>5. InCommits(s.commits, k) = SumSeq(a)  BY DEF InCommits
<1> HIDE DEF a
<1>6. SumSeq(a) \in Nat  BY <1>1, <1>4, FunctionIsSeq, SumNat
<1>7. s.queues[k] \in Nat  BY DEF Modules
<1>8. QED  BY <1>5, <1>6, <1>7 DEF Held

-----------------------------------------------------------------------------
(* The inductive invariant *)

\* The slots since the matching of switch q, when that of switch p is the last.
Age(p, q) == IF q <= p THEN p - q ELSE p + Ncommit - q

\* The commit queues of present matchings are in the history, the oldest
\* first; one that is N - 1 slots old is cleaned before the next matching.
History ==
  /\ hist \in Seq(Switches) /\ slot \in Switches /\ expiring \in SUBSET Switches
  /\ cleaned \in BOOLEAN
  /\ expiring = {hist[i] : i \in 1..Len(hist)}
  /\ \A i \in 1..Len(hist), j \in 1..Len(hist) :
       i < j => Age(slot, hist[j]) < Age(slot, hist[i])
  /\ cleaned <=> Next1(slot) \notin expiring

\* The module keeps its counters, and everything the host has to send.
Keeps ==
  /\ m \in Modules /\ Rung(m) /\ m.skip \in 0..(Ncommit - 1)
  /\ owned \in [Keys -> Nat] /\ \A k \in Keys : owned[k] = Held(m, k)

NICTypes ==
  /\ waiting \in [{"hi", "lo"} -> 0..MaxWaiting] /\ servicing \in {"none", "hi", "lo", "rlb"}
  /\ events \in 0..MaxEvents /\ odd \in {0, 1}

\* Packets of the flow are at the host, on the way, or at the sink.
Flow ==
  /\ network \in [Keys -> Nat] /\ others \in 0..MaxOther
  /\ arrived \in 0..FlowPackets /\ fcts = IF arrived = FlowPackets THEN 1 ELSE 0
  /\ owned["local"] + network["local"] + arrived \in {0, FlowPackets}

IInv == Keeps /\ History /\ OnlyWhileMatched /\ NICTypes /\ Flow

\* A new slot: every matching is one slot older, but that of switch p begins.
LEMMA Older ==
  ASSUME NEW p \in Switches, NEW q \in Switches
  PROVE  LET r == Next1(p) IN
         /\ Age(p, q) \in Int /\ Age(p, q) >= 0 /\ Age(p, q) <= Ncommit - 1
         /\ q = r <=> Age(p, q) = Ncommit - 1
         /\ q # r => Age(r, q) = Age(p, q) + 1
         /\ Age(r, r) = 0
         /\ r \in Switches /\ Next1(r) # r
<1>1. /\ Ncommit \in Nat /\ Ncommit >= 2 /\ p \in Nat /\ p < Ncommit
      /\ q \in Nat /\ q < Ncommit
  BY SwitchFacts
<1>2. \A z \in Switches : Next1(z) = IF z = Ncommit - 1 THEN 0 ELSE z + 1
  <2>1. ASSUME NEW z \in Switches, z # Ncommit - 1  PROVE Next1(z) = z + 1
    <3>1. z \in Nat /\ z + 1 < Ncommit  BY <1>1, <2>1, SwitchFacts
    <3>2. (z + 1) % Ncommit = z + 1  BY <1>1, <3>1
    <3>3. QED  BY <3>2 DEF Next1
  <2>2. (Ncommit - 1 + 1) % Ncommit = 0
    <3>1. Ncommit - 1 + 1 = Ncommit /\ Ncommit % Ncommit = 0  BY <1>1
    <3>2. QED  BY <3>1
  <2>3. QED  BY <2>1, <2>2 DEF Next1
<1>3. PICK r \in Switches : r = Next1(p)  BY SwitchFacts
<1>4. r = IF p = Ncommit - 1 THEN 0 ELSE p + 1  BY <1>2, <1>3
<1>5. Next1(r) = IF r = Ncommit - 1 THEN 0 ELSE r + 1  BY <1>2
<1>6. r \in Nat  BY SwitchFacts
<1>7. /\ Age(p, q) \in Int /\ Age(p, q) >= 0 /\ Age(p, q) <= Ncommit - 1
      /\ q = r <=> Age(p, q) = Ncommit - 1
      /\ q # r => Age(r, q) = Age(p, q) + 1
      /\ Age(r, r) = 0
  BY ONLY <1>1, <1>4, <1>6 DEF Age
<1>8. Next1(r) # r  BY ONLY <1>1, <1>4, <1>5, <1>6
<1>9. QED  BY <1>3, <1>7, <1>8

\* At the start nothing is anywhere.
LEMMA InitIInv ==
  ASSUME Init
  PROVE  IInv
<1>1. m.commits = [q \in Switches |-> <<>>] /\ m.queues = [k \in Keys |-> 0]
  BY DEF Init
<1>2. <<>> \in Seq(Packets) /\ \A k : Count(k, <<>>) = 0  BY CountEmpty
<1>3. 0 \in Switches /\ Ncommit - 1 \in Switches /\ 0 \in 0..(Ncommit - 1)
  BY SwitchFacts
<1>4. m \in Modules
  <2>1. ASSUME NEW no \in BOOLEAN, NEW z \in Switches, NEW none \in Int
        PROVE  [queues |-> [k \in Keys |-> 0], commits |-> [q \in Switches |-> <<>>],
                have |-> no, pull |-> z, push |-> z, skip |-> none, dummies |-> none]
                 \in Modules
    BY <1>2 DEF Modules
  <2>2. FALSE \in BOOLEAN /\ 0 \in Int  OBVIOUS
  <2>3. m = [queues |-> [k \in Keys |-> 0], commits |-> [q \in Switches |-> <<>>],
             have |-> FALSE, pull |-> 0, push |-> 0, skip |-> 0, dummies |-> 0]
    BY DEF Init
  <2>4. QED  BY <1>3, <2>1, <2>2, <2>3, Zenon
<1>5. Rung(m)  BY <1>1 DEF Init, Rung
<1>6. ASSUME NEW k \in Keys  PROVE Held(m, k) = 0
  <2> DEFINE a == [i \in 1..Ncommit |-> Count(k, m.commits[i - 1])]
  <2>1. Ncommit \in Nat /\ \A i \in 1..Ncommit : i - 1 \in Switches  BY SwitchFacts
  <2>2. \A i \in 1..Ncommit : a[i] = 0  BY <1>1, <1>2, <2>1
  <2>3. a \in [1..Ncommit -> Int]
    <3>1. \A i \in 1..Ncommit : Count(k, m.commits[i - 1]) \in Int  BY <1>1, <1>2, <2>1
    <3>2. QED  BY <3>1
  <2>4. InCommits(m.commits, k) = SumSeq(a)  BY DEF InCommits
  <2> HIDE DEF a
  <2>5. a \in Seq(Int) /\ Len(a) = Ncommit  BY <2>1, <2>3, FunctionIsSeq
  <2>6. PICK f : PartialSums(a, Ncommit, f) /\ SumSeq(a) = f[Ncommit]
    BY <2>5, SumIsPartial
  <2> DEFINE Good == {l \in Nat : l <= Ncommit => f[l] = 0}
  <2>7. 0 \in Good  BY <2>6 DEF PartialSums
  <2>8. ASSUME NEW l \in Nat, l \in Good  PROVE l + 1 \in Good
    <3>1. SUFFICES ASSUME l + 1 <= Ncommit  PROVE f[l + 1] = 0  OBVIOUS
    <3>2. l + 1 \in 1..Ncommit /\ (l + 1) - 1 = l /\ l <= Ncommit
      BY ONLY <2>1, <3>1, l \in Nat
    <3>3. f[l + 1] = f[l] + a[l + 1] /\ a[l + 1] = 0 /\ f[l] = 0
      BY <2>2, <2>6, <2>8, <3>2 DEF PartialSums
    <3>4. QED  BY ONLY <3>3
  <2>9. Nat \subseteq Good
    <3> HIDE DEF Good
    <3>1. \A l \in Nat : l \in Good => l + 1 \in Good  BY <2>8
    <3>2. QED  BY <2>7, <3>1, AllNumbers
  <2>10. f[Ncommit] = 0
    <3>1. Ncommit \in Good /\ Ncommit <= Ncommit  BY <2>1, <2>9
    <3>2. QED  BY <3>1
  <2>11. QED  BY <1>1, <2>4, <2>6, <2>10 DEF Held
<1>7. Keeps  BY <1>3, <1>4, <1>5, <1>6 DEF Init, Keeps
<1>8. History
  <2>1. hist = <<>> /\ Len(hist) = 0 /\ hist \in Seq(Switches)  BY EmptySeq DEF Init
  <2>2. 1..Len(hist) = {}  BY <2>1
  <2>3. slot \in Switches  BY <1>3 DEF Init
  <2>4. {hist[i] : i \in 1..Len(hist)} = {}  BY <2>2
  <2>5. QED  BY <2>1, <2>2, <2>3, <2>4 DEF Init, History
<1>9. OnlyWhileMatched  BY <1>1 DEF OnlyWhileMatched
<1>10. NICTypes
  <2>1. 0 \in 0..MaxWaiting /\ 0 \in 0..MaxEvents  BY RLBAssumption
  <2>2. QED  BY <2>1 DEF Init, NICTypes
<1>11. Flow
  <2>1. 0 \in 0..MaxOther /\ 0 \in 0..FlowPackets /\ FlowPackets # 0  BY RLBAssumption
  <2>2. "local" \in Keys  BY DEF Keys
  <2>3. QED  BY <2>1, <2>2 DEF Init, Flow
<1>12. QED  BY <1>7, <1>8, <1>9, <1>10, <1>11 DEF IInv

-----------------------------------------------------------------------------
(* Its steps *)

\* What the NIC does next is one of its services.
LEMMA NICStep ==
  ASSUME NICTypes, NEW d \in Nat, NEW w \in [{"hi", "lo"} -> 0..MaxWaiting], waiting' = w,
         odd' \in {0, 1},
         \/ events > 0 /\ Continue(d, w)
         \/ events < MaxEvents /\ \E size : BeginIfEmpty(size, d, w)
         \/ UNCHANGED <<servicing, events>>
  PROVE  NICTypes'
<1>1. Chosen(d, w) \in {"hi", "lo", "rlb"}  BY DEF Chosen
<1>2. MaxEvents \in Nat /\ events \in 0..MaxEvents  BY RLBAssumption DEF NICTypes
<1>3. servicing' \in {"none", "hi", "lo", "rlb"} /\ events' \in 0..MaxEvents
  <2>1. CASE events > 0 /\ Continue(d, w)
    <3>1. events - 1 \in 0..MaxEvents  BY ONLY <1>2, <2>1
    <3>2. \/ servicing' = Chosen(d, w) /\ events' = events
          \/ servicing' = "none" /\ events' = events - 1
      BY <2>1 DEF Continue
    <3>3. QED  BY <1>1, <1>2, <3>1, <3>2
  <2>2. CASE events < MaxEvents /\ \E size : BeginIfEmpty(size, d, w)
    <3>1. events + 1 \in 0..MaxEvents  BY ONLY <1>2, <2>2
    <3>2. \/ servicing' = Chosen(d, w) /\ events' = events + 1
          \/ servicing' = servicing /\ events' = events
      BY <2>2 DEF BeginIfEmpty
    <3>3. QED  BY <1>1, <1>2, <3>1, <3>2 DEF NICTypes
  <2>3. CASE UNCHANGED <<servicing, events>>  BY <1>2, <2>3 DEF NICTypes
  <2>4. QED  BY <2>1, <2>2, <2>3
<1>4. QED  BY <1>3 DEF NICTypes

\* The dummies of the NIC are a number.
LEMMA RungDummies ==
  ASSUME NEW s, s \in Modules, Rung(s)  PROVE s.dummies \in {0, 1}
BY DEF Modules, Rung

\* A commit queue that only gets shorter is for the same matching.
LEMMA StillMatched ==
  ASSUME m \in Modules, Shrunk(m, m'), OnlyWhileMatched, UNCHANGED expiring
  PROVE  OnlyWhileMatched'
BY DEF OnlyWhileMatched, Shrunk

\* Other traffic comes to the NIC.
LEMMA ReceiveOtherStep ==
  ASSUME IInv, NEW p \in {"hi", "lo"}, ReceiveOther(p)
  PROVE  IInv'
<1>1. UNCHANGED <<m, hist, slot, expiring, cleaned, owned, odd, network, others, arrived, fcts>>
  BY DEF ReceiveOther, modVars, flowVars
<1>2. Keeps' /\ History' /\ OnlyWhileMatched' /\ Flow'
  BY <1>1 DEF IInv, Keeps, History, OnlyWhileMatched, Flow
<1>3. NICTypes'
  <2>1. m.dummies \in Nat  BY RungDummies DEF IInv, Keeps
  <2>2. waiting \in [{"hi", "lo"} -> 0..MaxWaiting] /\ MaxWaiting \in Nat
    BY RLBAssumption DEF IInv, NICTypes
  <2>3. PICK z \in 0..MaxWaiting : z = waiting[p] + 1  BY <2>2 DEF ReceiveOther
  <2>4. waiting' = [waiting EXCEPT ![p] = z]  BY <2>3 DEF ReceiveOther
  <2>5. waiting' \in [{"hi", "lo"} -> 0..MaxWaiting]  BY <2>2, <2>4
  <2>6. events < MaxEvents /\ \E size : BeginIfEmpty(size, m.dummies, waiting')
    BY DEF ReceiveOther
  <2>7. odd' \in {0, 1}  BY <1>1 DEF IInv, NICTypes
  <2>8. NICTypes  BY DEF IInv
  <2>9. PICK w \in [{"hi", "lo"} -> 0..MaxWaiting] : w = waiting'  BY <2>5
  <2>10. \E size : BeginIfEmpty(size, m.dummies, w)  BY <2>6, <2>9
  <2>11. QED  BY <2>1, <2>6, <2>7, <2>8, <2>9, <2>10, NICStep
<1>4. QED  BY <1>2, <1>3 DEF IInv

\* The NIC has sent a packet of other traffic: a full one takes the place of one
\* of the module.
LEMMA ServeOtherStep ==
  ASSUME IInv, NEW p \in {"hi", "lo"}, ServeOther(p)
  PROVE  IInv'
<1>1. UNCHANGED <<hist, slot, expiring, cleaned, owned, network, others, arrived, fcts>>
  BY DEF ServeOther, flowVars
<1>2. m \in Modules /\ Rung(m) /\ m.skip \in 0..(Ncommit - 1)  BY DEF IInv, Keeps
<1>3. /\ m' \in Modules /\ Rung(m') /\ m'.skip \in 0..(Ncommit - 1)
      /\ Shrunk(m, m') /\ \A k \in Keys : Held(m', k) = Held(m, k)
  <2>1. CASE m' = NICPush(m)  BY <1>2, <2>1, NICPushStep
  <2>2. CASE m' = m  BY <1>2, <2>2 DEF Shrunk
  <2>3. QED  BY <2>1, <2>2 DEF ServeOther
<1>4. Keeps'  BY <1>1, <1>3 DEF IInv, Keeps
<1>5. OnlyWhileMatched'  BY <1>1, <1>2, <1>3, StillMatched DEF IInv
<1>6. History' /\ Flow'  BY <1>1 DEF IInv, History, Flow
<1>7. NICTypes'
  <2>1. m'.dummies \in Nat  BY <1>3, RungDummies
  <2>2. waiting \in [{"hi", "lo"} -> 0..MaxWaiting] /\ MaxWaiting \in Nat
    BY RLBAssumption DEF IInv, NICTypes
  <2>3. PICK z \in 0..MaxWaiting : z = waiting[p] - 1  BY <2>2 DEF ServeOther
  <2>4. waiting' = [waiting EXCEPT ![p] = z]  BY <2>3 DEF ServeOther
  <2>5. PICK w \in [{"hi", "lo"} -> 0..MaxWaiting] : w = waiting'  BY <2>2, <2>4
  <2>6. events > 0 /\ Continue(m'.dummies, w)  BY <2>5 DEF ServeOther
  <2>7. odd' \in {0, 1}  BY DEF IInv, NICTypes, ServeOther
  <2>8. NICTypes  BY DEF IInv
  <2>9. PICK d \in Nat : d = m'.dummies  BY <2>1
  <2>10. Continue(d, w)  BY <2>6, <2>9
  <2>11. QED  BY <2>5, <2>6, <2>7, <2>8, <2>10, NICStep
<1>8. QED  BY <1>4, <1>5, <1>6, <1>7 DEF IInv

\* The service of a queue that a doorbell has emptied.
LEMMA ServeNothingStep ==
  ASSUME IInv, ServeNothing
  PROVE  IInv'
<1>1. UNCHANGED <<m, hist, slot, expiring, cleaned, owned, waiting, odd, network, others,
                  arrived, fcts>>
  BY DEF ServeNothing, modVars, flowVars
<1>2. Keeps' /\ History' /\ OnlyWhileMatched' /\ Flow'
  BY <1>1 DEF IInv, Keeps, History, OnlyWhileMatched, Flow
<1>3. NICTypes'
  <2>1. PICK d \in Nat : d = m.dummies  BY RungDummies DEF IInv, Keeps
  <2>2. PICK w \in [{"hi", "lo"} -> 0..MaxWaiting] : w = waiting  BY DEF IInv, NICTypes
  <2>3. events > 0 /\ Continue(d, w)  BY <2>1, <2>2 DEF ServeNothing
  <2>4. waiting' = w /\ odd' \in {0, 1} /\ NICTypes  BY <1>1, <2>2 DEF IInv, NICTypes
  <2>5. QED  BY <2>3, <2>4, NICStep
<1>4. QED  BY <1>2, <1>3 DEF IInv

\* The numbers of the flow and of the packets on the way.
LEMMA FlowFacts ==
  ASSUME Flow
  PROVE  /\ FlowPackets \in Nat \ {0} /\ MaxOther \in Nat
         /\ "local" \in Keys /\ "nonlocal" \in Keys /\ "local" # "nonlocal"
         /\ \A k \in Keys : network[k] \in Nat
         /\ arrived \in Nat /\ arrived <= FlowPackets
BY RLBAssumption DEF Flow, Keys

\* The NIC pulls a packet: it is on the way, or the NIC has a dummy.
LEMMA ServeRLBStep ==
  ASSUME IInv, ServeRLB
  PROVE  IInv'
<1>1. UNCHANGED <<hist, slot, expiring, cleaned, waiting, odd, others, arrived, fcts>>
  BY DEF ServeRLB
<1>2. m \in Modules /\ Rung(m) /\ m.skip \in 0..(Ncommit - 1) /\ m' = NICPull(m)
  BY DEF IInv, Keeps, ServeRLB
<1>3. m.have  BY <1>2 DEF ServeRLB, Rung
<1>4. /\ m' \in Modules /\ Rung(m') /\ m'.skip \in 0..(Ncommit - 1) /\ Shrunk(m, m')
      /\ \A k \in Keys : Held(m', k) = Held(m, k) - One(k, Pulled(m))
  BY <1>2, <1>3, NICPullStep
<1>5. PICK p \in Packets : p = Pulled(m)
  <2>1. At(m, Passed(m)) \in Switches  BY <1>2, PassedFacts, SwitchFacts
  <2>2. PICK q \in Seq(Packets) : q = m.commits[At(m, Passed(m))]
    BY <1>2, <2>1 DEF Modules
  <2>3. Pulled(m) = IF q = <<>> THEN "dummy" ELSE Head(q)  BY <2>2 DEF Pulled
  <2>4. q # <<>> => Head(q) \in Packets  BY CountHead
  <2>5. QED  BY <2>3, <2>4 DEF Packets
<1>6. /\ owned \in [Keys -> Nat] /\ \A k \in Keys : owned[k] = Held(m, k)
      /\ network \in [Keys -> Nat]
  BY DEF IInv, Keeps, Flow
<1>7. ASSUME NEW k \in Keys
      PROVE  owned'[k] = owned[k] - One(k, p) /\ network'[k] = network[k] + One(k, p)
  <2>1. owned[k] \in Nat /\ network[k] \in Nat  BY <1>6
  <2>2. CASE p = "dummy"
    <3>1. One(k, p) = 0  BY <2>2 DEF One, Keys
    <3>2. UNCHANGED <<owned, network>>  BY <1>5, <2>2 DEF ServeRLB
    <3>3. QED  BY <2>1, <3>1, <3>2
  <2>3. CASE p # "dummy"
    <3>1. owned' = [owned EXCEPT ![p] = @ - 1] /\ network' = [network EXCEPT ![p] = @ + 1]
      BY <1>5, <2>3 DEF ServeRLB
    <3>2. CASE k = p
      <4>1. One(k, p) = 1  BY <3>2 DEF One
      <4>2. QED  BY <1>6, <3>1, <3>2, <4>1
    <3>3. CASE k # p
      <4>1. One(k, p) = 0  BY <3>3 DEF One
      <4>2. QED  BY <1>6, <2>1, <3>1, <3>3, <4>1
    <3>4. QED  BY <3>2, <3>3
  <2>4. QED  BY <2>2, <2>3
<1>8. owned' \in [Keys -> Nat] /\ network' \in [Keys -> Nat]
  <2>1. DOMAIN owned' = Keys /\ DOMAIN network' = Keys
        /\ owned' = [k \in Keys |-> owned'[k]] /\ network' = [k \in Keys |-> network'[k]]
    <3>1. CASE p = "dummy"
      <4>1. UNCHANGED <<owned, network>>  BY <1>5, <3>1 DEF ServeRLB
      <4>2. QED  BY <1>6, <4>1
    <3>2. CASE p # "dummy"
      <4>1. owned' = [owned EXCEPT ![p] = @ - 1] /\ network' = [network EXCEPT ![p] = @ + 1]
        BY <1>5, <3>2 DEF ServeRLB
      <4>2. QED  BY <1>6, <4>1
    <3>3. QED  BY <3>1, <3>2
  <2>2. ASSUME NEW k \in Keys  PROVE owned'[k] \in Nat /\ network'[k] \in Nat
    <3>1. Held(m', k) \in Nat /\ Held(m', k) = owned[k] - One(k, p)
      BY <1>4, <1>5, <1>6, HeldType
    <3>2. network[k] \in Nat /\ One(k, p) \in Nat  BY <1>6 DEF One
    <3>3. QED  BY <1>7, <3>1, <3>2
  <2>3. QED  BY <2>1, <2>2
<1>9. Keeps'
  <2>1. \A k \in Keys : owned'[k] = Held(m', k)  BY <1>4, <1>5, <1>6, <1>7
  <2>2. QED  BY <1>4, <1>8, <2>1 DEF Keeps
<1>10. OnlyWhileMatched'  BY <1>1, <1>2, <1>4, StillMatched DEF IInv
<1>11. History'  BY <1>1 DEF IInv, History
<1>12. Flow'
  <2>1. "local" \in Keys /\ arrived \in Nat  BY FlowFacts DEF IInv
  <2>2. /\ owned["local"] \in Nat /\ network["local"] \in Nat /\ One("local", p) \in Int
        /\ owned'["local"] = owned["local"] - One("local", p)
        /\ network'["local"] = network["local"] + One("local", p)
    BY <1>6, <1>7, <2>1 DEF One
  <2>3. owned'["local"] + network'["local"] + arrived
          = owned["local"] + network["local"] + arrived
    BY ONLY <2>1, <2>2
  <2>4. QED  BY <1>1, <1>8, <2>3 DEF IInv, Flow
<1>13. NICTypes'
  <2>1. PICK d \in Nat : d = m'.dummies  BY <1>4, RungDummies
  <2>2. PICK w \in [{"hi", "lo"} -> 0..MaxWaiting] : w = waiting  BY DEF IInv, NICTypes
  <2>3. events > 0 /\ Continue(d, w)  BY <2>1, <2>2 DEF ServeRLB
  <2>4. waiting' = w /\ odd' \in {0, 1} /\ NICTypes  BY <1>1, <2>2 DEF IInv, NICTypes
  <2>5. QED  BY <2>3, <2>4, NICStep
<1>14. QED  BY <1>9, <1>10, <1>11, <1>12, <1>13 DEF IInv

\* Packets that come are in a queue, and the host has as many more.
LEMMA ReceiveStep ==
  ASSUME IInv, NEW k \in Keys, NEW n \in Nat, Receive(k, n)
  PROVE  /\ Keeps' /\ History' /\ OnlyWhileMatched' /\ NICTypes'
         /\ owned' \in [Keys -> Nat] /\ owned'[k] = owned[k] + n
         /\ \A l \in Keys : l # k => owned'[l] = owned[l]
<1>1. UNCHANGED <<hist, slot, expiring, cleaned, waiting, servicing, events, odd>>
  BY DEF Receive, nicVars
<1>2. m \in Modules /\ Rung(m) /\ m.skip \in 0..(Ncommit - 1)  BY DEF IInv, Keeps
<1>3. /\ owned \in [Keys -> Nat] /\ m.queues \in [Keys -> Nat]
      /\ \A l \in Keys : owned[l] = Held(m, l)
  BY DEF IInv, Keeps, Modules
<1>4. PICK a \in Nat, b \in Nat : a = m.queues[k] + n /\ b = owned[k] + n  BY <1>3
<1>5. m' = [m EXCEPT !.queues[k] = a] /\ owned' = [owned EXCEPT ![k] = b]
  BY <1>4 DEF Receive
<1>6. /\ m' \in Modules /\ m'.commits = m.commits /\ m'.have = m.have
      /\ m'.dummies = m.dummies /\ m'.skip = m.skip /\ m'.queues = [m.queues EXCEPT ![k] = a]
  <2>1. PICK u \in [Keys -> Nat] : u = [m.queues EXCEPT ![k] = a]  BY <1>3
  <2>2. m' = [m EXCEPT !.queues = u]  BY <1>5, <2>1
  <2>3. m' \in Modules  BY <1>2, <2>2 DEF Modules
  <2>4. QED  BY <1>2, <2>1, <2>2, <2>3 DEF Modules
<1>7. Rung(m') /\ Shrunk(m, m')  BY <1>2, <1>6 DEF Rung, Shrunk
<1>8. /\ owned' \in [Keys -> Nat] /\ owned'[k] = owned[k] + n
      /\ \A l \in Keys : l # k => owned'[l] = owned[l]
  BY <1>3, <1>4, <1>5
<1>9. ASSUME NEW l \in Keys  PROVE owned'[l] = Held(m', l)
  <2>1. /\ Held(m', l) = m'.queues[l] + InCommits(m.commits, l)
        /\ Held(m, l) = m.queues[l] + InCommits(m.commits, l)
    BY <1>6 DEF Held
  <2>2. InCommits(m.commits, l) \in Int
    <3>1. m.commits \in [Switches -> Seq(Packets)]  BY <1>2 DEF Modules
    <3>2. 0 \in Switches  BY SwitchFacts
    <3>3. QED  BY <3>1, <3>2, CountEmpty, InCommitsReplaced
  <2>3. owned[l] = Held(m, l) /\ m.queues[l] \in Nat  BY <1>3
  <2>4. CASE l = k
    <3>1. m'.queues[l] = m.queues[l] + n /\ owned'[l] = owned[l] + n
      BY <1>3, <1>4, <1>6, <1>8, <2>4
    <3>2. QED  BY ONLY <2>1, <2>2, <2>3, <3>1, n \in Nat
  <2>5. CASE l # k
    <3>1. m'.queues[l] = m.queues[l] /\ owned'[l] = owned[l]  BY <1>3, <1>6, <1>8, <2>5
    <3>2. QED  BY <2>1, <2>3, <3>1
  <2>6. QED  BY <2>4, <2>5
<1>10. Keeps'  BY <1>2, <1>6, <1>7, <1>8, <1>9 DEF Keeps
<1>11. OnlyWhileMatched'  BY <1>1, <1>2, <1>7, StillMatched DEF IInv
<1>12. History' /\ NICTypes'  BY <1>1 DEF IInv, History, NICTypes
<1>13. QED  BY <1>8, <1>10, <1>11, <1>12

\* The flow starts.
LEMMA StartFlowStep ==
  ASSUME IInv, StartFlow
  PROVE  IInv'
<1>1. /\ FlowPackets \in Nat /\ "local" \in Keys /\ network["local"] \in Nat
      /\ arrived \in Nat /\ owned["local"] \in Nat
  BY FlowFacts DEF IInv, Keeps
<1>2. /\ Keeps' /\ History' /\ OnlyWhileMatched' /\ NICTypes'
      /\ owned'["local"] = owned["local"] + FlowPackets
  BY <1>1, ReceiveStep DEF StartFlow
<1>3. UNCHANGED <<network, others, arrived, fcts>>  BY DEF StartFlow, flowVars
<1>4. owned["local"] + network["local"] + arrived = 0  BY DEF StartFlow
<1>5. owned'["local"] + network["local"] + arrived = FlowPackets
  BY ONLY <1>1, <1>2, <1>4
<1>6. Flow'  BY <1>3, <1>5 DEF IInv, Flow
<1>7. QED  BY <1>2, <1>6 DEF IInv

\* A packet of another host comes for its second hop.
LEMMA ReceiveNonlocalStep ==
  ASSUME IInv, ReceiveNonlocal
  PROVE  IInv'
<1>1. "nonlocal" \in Keys /\ "local" \in Keys /\ "local" # "nonlocal" /\ MaxOther \in Nat
  BY FlowFacts DEF IInv
<1>2. /\ Keeps' /\ History' /\ OnlyWhileMatched' /\ NICTypes'
      /\ owned'["local"] = owned["local"]
  BY <1>1, ReceiveStep DEF ReceiveNonlocal
<1>3. UNCHANGED <<network, arrived, fcts>>  BY DEF ReceiveNonlocal
<1>4. others' \in 0..MaxOther
  <2>1. others \in 0..MaxOther /\ others < MaxOther /\ others' = others + 1
    BY DEF IInv, Flow, ReceiveNonlocal
  <2>2. QED  BY ONLY <1>1, <2>1
<1>5. Flow'  BY <1>2, <1>3, <1>4 DEF IInv, Flow
<1>6. QED  BY <1>2, <1>5 DEF IInv

\* A packet leaves the network.
LEMMA NetworkLess ==
  ASSUME Flow, NEW k \in Keys, network[k] > 0, network' = [network EXCEPT ![k] = @ - 1]
  PROVE  /\ network' \in [Keys -> Nat] /\ network'[k] = network[k] - 1
         /\ \A l \in Keys : l # k => network'[l] = network[l]
<1>1. network \in [Keys -> Nat] /\ network[k] \in Nat  BY DEF Flow
<1>2. PICK z \in Nat : z = network[k] - 1  BY <1>1
<1>3. network' = [network EXCEPT ![k] = z]  BY <1>2
<1>4. QED  BY <1>1, <1>2, <1>3

\* A packet comes back from a ToR.
LEMMA ReturnedStep ==
  ASSUME IInv, NEW k \in Keys, Returned(k)
  PROVE  IInv'
<1>1. /\ Keeps' /\ History' /\ OnlyWhileMatched' /\ NICTypes'
      /\ owned'[k] = owned[k] + 1 /\ \A l \in Keys : l # k => owned'[l] = owned[l]
  BY ReceiveStep DEF Returned
<1>2. /\ network' \in [Keys -> Nat] /\ network'[k] = network[k] - 1
      /\ \A l \in Keys : l # k => network'[l] = network[l]
  BY NetworkLess DEF IInv, Returned
<1>3. UNCHANGED <<others, arrived, fcts>>  BY DEF Returned
<1>4. "local" \in Keys /\ arrived \in Nat /\ network["local"] \in Nat /\ owned["local"] \in Nat
  BY FlowFacts DEF IInv, Keeps
<1>5. owned'["local"] + network'["local"] = owned["local"] + network["local"]
  <2>1. CASE k = "local"  BY <1>1, <1>2, <1>4, <2>1
  <2>2. CASE k # "local"  BY <1>1, <1>2, <1>4, <2>2
  <2>3. QED  BY <2>1, <2>2
<1>6. Flow'  BY <1>2, <1>3, <1>5 DEF IInv, Flow
<1>7. QED  BY <1>1, <1>6 DEF IInv

\* A packet comes to its sink; the flow completes once.
LEMMA DeliverStep ==
  ASSUME IInv, NEW k \in Keys, Deliver(k)
  PROVE  IInv'
<1>1. UNCHANGED <<m, hist, slot, expiring, cleaned, owned, waiting, servicing, events, odd,
                  others>>
  BY DEF Deliver, modVars, nicVars
<1>2. Keeps' /\ History' /\ OnlyWhileMatched' /\ NICTypes'
  BY <1>1 DEF IInv, Keeps, History, OnlyWhileMatched, NICTypes
<1>3. /\ network' \in [Keys -> Nat] /\ network'[k] = network[k] - 1 /\ network[k] > 0
      /\ \A l \in Keys : l # k => network'[l] = network[l]
  BY NetworkLess DEF IInv, Deliver
<1>4. /\ "local" \in Keys /\ arrived \in Nat /\ network["local"] \in Nat
      /\ owned["local"] \in Nat /\ FlowPackets \in Nat
      /\ owned["local"] + network["local"] + arrived \in {0, FlowPackets}
      /\ arrived \in 0..FlowPackets /\ fcts = IF arrived = FlowPackets THEN 1 ELSE 0
  BY FlowFacts DEF IInv, Keeps, Flow
<1>5. CASE k = "local"
  <2>1. /\ arrived' = arrived + 1
        /\ fcts' = IF arrived' >= FlowPackets THEN fcts + 1 ELSE fcts
    BY <1>5 DEF Deliver
  <2>2. network'["local"] = network["local"] - 1 /\ network["local"] > 0  BY <1>3, <1>5
  <2>3. arrived < FlowPackets /\ fcts = 0  BY ONLY <1>4, <2>2
  <2>4. /\ arrived' \in 0..FlowPackets /\ fcts' = IF arrived' = FlowPackets THEN 1 ELSE 0
    BY ONLY <1>4, <2>1, <2>3
  <2>5. owned["local"] + network'["local"] + arrived' \in {0, FlowPackets}
    BY ONLY <1>4, <2>1, <2>2
  <2>6. Flow'  BY <1>1, <1>3, <2>4, <2>5 DEF IInv, Flow
  <2>7. QED  BY <1>2, <2>6 DEF IInv
<1>6. CASE k # "local"
  <2>1. UNCHANGED <<arrived, fcts>>  BY <1>6 DEF Deliver
  <2>2. network'["local"] = network["local"]  BY <1>3, <1>4, <1>6
  <2>3. Flow'  BY <1>1, <1>3, <2>1, <2>2 DEF IInv, Flow
  <2>4. QED  BY <1>2, <2>3 DEF IInv
<1>7. QED  BY <1>5, <1>6

\* The matching of a new slot: the commit queue of its switch was cleaned.
LEMMA NewMatchingStep ==
  ASSUME IInv, NEW n \in [Keys -> 0..MaxPkts], NewMatching(n)
  PROVE  IInv'
<1> DEFINE r == Next1(slot)
           L == Len(hist)
<1>1. /\ hist \in Seq(Switches) /\ slot \in Switches /\ expiring \in SUBSET Switches
      /\ expiring = {hist[i] : i \in 1..L}
      /\ \A i \in 1..L, j \in 1..L : i < j => Age(slot, hist[j]) < Age(slot, hist[i])
      /\ L \in Nat /\ \A i \in 1..L : hist[i] \in Switches
      /\ r \notin expiring
  <2>1. hist \in Seq(Switches) /\ cleaned  BY DEF IInv, History, NewMatching
  <2>2. L \in Nat /\ \A i \in 1..L : hist[i] \in Switches
    BY <2>1, LenProperties, ElementOfSeq
  <2>3. QED  BY <2>1, <2>2 DEF IInv, History
<1>2. /\ slot' = r /\ r \in Switches /\ Next1(r) # r /\ Age(r, r) = 0
      /\ cleaned' = (Next1(r) \notin expiring)
  BY <1>1, Older DEF NewMatching
<1>3. UNCHANGED <<waiting, odd, owned, network, others, arrived, fcts>>
  BY DEF NewMatching, flowVars
<1>4. Flow'  BY <1>3 DEF IInv, Flow
<1>5. \A i \in 1..L : Age(r, hist[i]) = Age(slot, hist[i]) + 1 /\ Age(slot, hist[i]) >= 0
                      /\ Age(slot, hist[i]) \in Int
  <2>1. ASSUME NEW i \in 1..L
        PROVE  /\ Age(r, hist[i]) = Age(slot, hist[i]) + 1 /\ Age(slot, hist[i]) >= 0
               /\ Age(slot, hist[i]) \in Int
    <3>1. hist[i] \in Switches /\ hist[i] # r  BY <1>1
    <3>2. QED  BY <1>1, <3>1, Older
  <2>2. QED  BY <2>1
<1>6. cleaned' \in BOOLEAN  BY <1>2
<1> HIDE DEF r
<1>7. CASE \A k \in Keys : n[k] = 0
  <2>1. UNCHANGED <<m, hist, expiring, servicing, events>>  BY <1>7 DEF NewMatching
  <2>2. Keeps' /\ NICTypes' /\ OnlyWhileMatched'
    BY <1>3, <2>1 DEF IInv, Keeps, NICTypes, OnlyWhileMatched
  <2>3. \A i \in 1..L, j \in 1..L : i < j => Age(r, hist[j]) < Age(r, hist[i])
    <3>1. ASSUME NEW i \in 1..L, NEW j \in 1..L, i < j
          PROVE  Age(r, hist[j]) < Age(r, hist[i])
      <4>1. Age(slot, hist[j]) < Age(slot, hist[i])  BY <1>1, <3>1
      <4>2. /\ Age(r, hist[j]) = Age(slot, hist[j]) + 1 /\ Age(slot, hist[j]) \in Int
            /\ Age(r, hist[i]) = Age(slot, hist[i]) + 1 /\ Age(slot, hist[i]) \in Int
        BY <1>5
      <4>3. QED  BY ONLY <4>1, <4>2
    <3>2. QED  BY <3>1
  <2>4. History'  BY <1>1, <1>2, <1>6, <2>1, <2>3 DEF History
  <2>5. QED  BY <1>4, <2>2, <2>4 DEF IInv
<1>8. CASE ~ \A k \in Keys : n[k] = 0
  <2>1. /\ m' = EnqueueCommit(m, r, n) /\ hist' = Append(hist, r)
        /\ expiring' = expiring \cup {r}
    BY <1>2, <1>8 DEF NewMatching
  <2>2. /\ m \in Modules /\ Rung(m) /\ m.skip \in 0..(Ncommit - 1) /\ m.commits[r] = <<>>
        /\ n \in [Keys -> Nat]
    <3>1. m.commits[r] = <<>>  BY <1>1, <1>2 DEF IInv, OnlyWhileMatched
    <3>2. \A k \in Keys : n[k] \in Nat  BY RLBAssumption
    <3>3. QED  BY <3>1, <3>2 DEF IInv, Keeps
  <2>3. /\ m' \in Modules /\ Rung(m') /\ m'.skip = m.skip
        /\ \A q \in Switches : q # r => m'.commits[q] = m.commits[q]
        /\ \A k \in Keys : Held(m', k) = Held(m, k)
    BY <1>2, <2>1, <2>2, EnqueueCommitStep
  <2>4. Keeps'  BY <1>3, <2>2, <2>3 DEF IInv, Keeps
  <2>5. OnlyWhileMatched'  BY <2>1, <2>3 DEF IInv, OnlyWhileMatched
  <2>6. /\ hist' \in Seq(Switches) /\ Len(hist') = L + 1 /\ hist'[L + 1] = r
        /\ \A i \in 1..L : hist'[i] = hist[i]
    BY <1>1, <1>2, <2>1, AppendProperties
  <2>7. \A i \in 1..(L + 1) : i \in 1..L \/ i = L + 1  BY <1>1
  <2>8. 1..L \subseteq 1..(L + 1) /\ L + 1 \in 1..(L + 1)
    <3>1. L \in Nat  BY <1>1
    <3> HIDE DEF L
    <3>2. QED  BY <3>1
  <2> HIDE DEF L
  <2>9. expiring' = {hist'[i] : i \in 1..(L + 1)}  BY <1>1, <2>1, <2>6, <2>7, <2>8
  <2>10. ASSUME NEW i \in 1..(L + 1), NEW j \in 1..(L + 1), i < j
         PROVE  Age(r, hist'[j]) < Age(r, hist'[i])
    <3>1. i \in 1..L
      <4>1. i # L + 1  BY <1>1, <2>10
      <4>2. QED  BY <2>7, <4>1
    <3>2. /\ Age(r, hist'[i]) = Age(slot, hist[i]) + 1 /\ Age(slot, hist[i]) >= 0
          /\ Age(slot, hist[i]) \in Int
      BY <1>5, <2>6, <3>1
    <3>3. CASE j \in 1..L
      <4>1. Age(slot, hist[j]) < Age(slot, hist[i])  BY <1>1, <2>10, <3>1, <3>3
      <4>2. Age(r, hist'[j]) = Age(slot, hist[j]) + 1 /\ Age(slot, hist[j]) \in Int
        BY <1>5, <2>6, <3>3
      <4>3. QED  BY ONLY <3>2, <4>1, <4>2
    <3>4. CASE j = L + 1
      <4>1. Age(r, hist'[j]) = 0  BY <1>2, <2>6, <3>4
      <4>2. QED  BY ONLY <3>2, <4>1
    <3>5. QED  BY <2>7, <3>3, <3>4
  <2>11. cleaned' = (Next1(r) \notin expiring')  BY <1>2, <2>1
  <2>12. expiring' \in SUBSET Switches  BY <1>1, <1>2, <2>1
  <2>13. History'
    BY <1>2, <1>6, <2>6, <2>9, <2>10, <2>11, <2>12 DEF History
  <2>14. NICTypes'
    <3>1. PICK d \in Nat : d = m'.dummies  BY <2>3, RungDummies
    <3>2. PICK w \in [{"hi", "lo"} -> 0..MaxWaiting] : w = waiting  BY DEF IInv, NICTypes
    <3>3. \/ events < MaxEvents /\ \E size : BeginIfEmpty(size, d, w)
          \/ UNCHANGED <<servicing, events>>
      BY <1>8, <3>1, <3>2 DEF NewMatching
    <3>4. waiting' = w /\ odd' \in {0, 1} /\ NICTypes
      BY <1>3, <3>2 DEF IInv, NICTypes
    <3>5. QED  BY <3>3, <3>4, NICStep
  <2>15. QED  BY <1>4, <2>4, <2>5, <2>13, <2>14 DEF IInv
<1>9. QED  BY <1>7, <1>8

\* What is cleaned is the oldest commit queue, that of the switch whose
\* matching ends.
LEMMA CleanCommitStep ==
  ASSUME IInv, CleanCommit
  PROVE  IInv'
<1> DEFINE r == Next1(slot)
           L == Len(hist)
<1>1. /\ hist \in Seq(Switches) /\ slot \in Switches /\ expiring \in SUBSET Switches
      /\ expiring = {hist[i] : i \in 1..L}
      /\ \A i \in 1..L, j \in 1..L : i < j => Age(slot, hist[j]) < Age(slot, hist[i])
      /\ L \in Nat /\ \A i \in 1..L : hist[i] \in Switches
      /\ r \in expiring
  <2>1. hist \in Seq(Switches) /\ ~ cleaned  BY DEF IInv, History, CleanCommit
  <2>2. L \in Nat /\ \A i \in 1..L : hist[i] \in Switches
    BY <2>1, LenProperties, ElementOfSeq
  <2>3. QED  BY <2>1, <2>2 DEF IInv, History
<1>2. UNCHANGED <<slot, owned, waiting, servicing, events, odd, network, others, arrived, fcts>>
  BY DEF CleanCommit, nicVars, flowVars
<1>3. NICTypes' /\ Flow'  BY <1>2 DEF IInv, NICTypes, Flow
<1>4. \A q \in Switches : /\ Age(slot, q) \in Int /\ Age(slot, q) <= Ncommit - 1
                          /\ q = r <=> Age(slot, q) = Ncommit - 1
  BY <1>1, Older
<1> HIDE DEF r
<1>5. L >= 1 /\ hist[1] = r
  <2>1. PICK i \in 1..L : hist[i] = r  BY <1>1
  <2>2. 1 \in 1..L /\ i \in Nat /\ i >= 1 /\ L >= 1
    <3>1. L \in Nat  BY <1>1
    <3> HIDE DEF L
    <3>2. QED  BY <3>1
  <2>3. ASSUME i # 1  PROVE FALSE
    <3>1. 1 < i  BY <2>2, <2>3
    <3>2. Age(slot, hist[i]) < Age(slot, hist[1])  BY <1>1, <2>2, <3>1
    <3>3. hist[1] \in Switches /\ hist[i] \in Switches  BY <1>1, <2>2
    <3>4. /\ Age(slot, hist[i]) = Ncommit - 1 /\ Age(slot, hist[1]) <= Ncommit - 1
          /\ Age(slot, hist[1]) \in Int
      BY <1>4, <2>1, <3>3
    <3>5. Ncommit \in Nat  BY SwitchFacts
    <3>6. QED  BY ONLY <3>2, <3>4, <3>5
  <2>4. QED  BY <2>1, <2>2, <2>3
<1>6. /\ hist # <<>> /\ Head(hist) = r /\ Tail(hist) \in Seq(Switches)
      /\ Len(Tail(hist)) = L - 1 /\ \A i \in 1..(L - 1) : Tail(hist)[i] = hist[i + 1]
  <2>1. hist # <<>>
    <3>1. Len(<<>>) = 0  BY EmptySeq
    <3>2. QED  BY <1>5, <3>1
  <2>2. QED  BY <1>1, <1>5, <2>1, HeadTailProperties
<1>7. /\ m' = Cleaned(m) /\ hist' = Tail(hist) /\ expiring' = expiring \ {r}
      /\ cleaned' = TRUE
  BY DEF CleanCommit, r
<1>8. OldestQueue = r /\ r \in Switches  BY <1>1, <1>6 DEF OldestQueue
<1>9. m \in Modules /\ Rung(m) /\ m.skip \in 0..(Ncommit - 1)  BY DEF IInv, Keeps
<1>10. /\ m' \in Modules /\ Rung(m') /\ m'.skip = m.skip
       /\ Shrunk(m, m') /\ m'.commits[r] = <<>>
       /\ \A k \in Keys : Held(m', k) = Held(m, k)
  BY <1>7, <1>8, <1>9, CleanedStep
<1>11. Keeps'  BY <1>2, <1>9, <1>10 DEF IInv, Keeps
<1>12. OnlyWhileMatched'  BY <1>7, <1>10 DEF IInv, OnlyWhileMatched, Shrunk
<1>13. PICK K \in Nat : K = L - 1 /\ L = K + 1  BY <1>1, <1>5
<1>14. /\ 1..L = 1..(K + 1) /\ 1 \in 1..L
       /\ \A i \in 1..K : i + 1 \in 1..L /\ i + 1 # 1
       /\ \A i \in 1..L : i = 1 \/ \E j \in 1..K : i = j + 1
  <2>1. /\ 1 \in 1..(K + 1) /\ \A i \in 1..K : i + 1 \in 1..(K + 1) /\ i + 1 # 1
    BY ONLY K \in Nat
  <2>2. ASSUME NEW i \in 1..(K + 1), i # 1  PROVE i - 1 \in 1..K /\ i = (i - 1) + 1
    BY ONLY K \in Nat, i \in 1..(K + 1), <2>2
  <2>3. QED  BY <1>13, <2>1, <2>2
<1>15. \A i \in 1..K : Tail(hist)[i] = hist[i + 1]  BY <1>6, <1>13
<1> HIDE DEF L
<1>16. expiring' = {hist'[i] : i \in 1..K}
  <2>1. ASSUME NEW i \in 1..K  PROVE hist[i + 1] \in expiring \ {r}
    <3>1. i + 1 \in 1..L /\ 1 \in 1..L /\ 1 < i + 1  BY <1>14
    <3>2. Age(slot, hist[i + 1]) < Age(slot, hist[1])  BY <1>1, <3>1
    <3>3. Age(slot, hist[1]) \in Int /\ hist[1] \in Switches  BY <1>1, <1>4, <3>1
    <3>4. hist[i + 1] # hist[1]  BY <3>2, <3>3
    <3>5. QED  BY <1>1, <1>5, <3>1, <3>4
  <2>2. ASSUME NEW q \in expiring \ {r}  PROVE \E i \in 1..K : q = hist[i + 1]
    <3>1. PICK i \in 1..L : q = hist[i]  BY <1>1
    <3>2. i # 1  BY <1>5, <3>1
    <3>3. QED  BY <1>14, <3>1, <3>2
  <2>3. expiring \ {r} = {hist[i + 1] : i \in 1..K}  BY <2>1, <2>2
  <2>4. QED  BY <1>7, <1>15, <2>3
<1>17. ASSUME NEW i \in 1..K, NEW j \in 1..K, i < j
       PROVE  Age(slot, hist'[j]) < Age(slot, hist'[i])
  <2>1. i + 1 \in 1..L /\ j + 1 \in 1..L /\ i + 1 < j + 1  BY <1>14, <1>17
  <2>2. Age(slot, hist[j + 1]) < Age(slot, hist[i + 1])  BY <1>1, <2>1
  <2>3. QED  BY <1>7, <1>15, <2>2
<1>18. Next1(slot) \notin expiring' /\ expiring' \in SUBSET Switches
  BY <1>1, <1>7 DEF r
<1>19. History'
  <2>1. Len(hist') = K /\ hist' \in Seq(Switches)  BY <1>6, <1>7, <1>13
  <2>2. cleaned' \in BOOLEAN /\ cleaned'  BY <1>7
  <2>3. QED  BY <1>1, <1>2, <1>16, <1>17, <1>18, <2>1, <2>2 DEF History
<1>20. QED  BY <1>3, <1>11, <1>12, <1>19 DEF IInv

-----------------------------------------------------------------------------
(* Theorems *)

\* Every step keeps the invariant, and so does one of another component.
LEMMA NextIInv ==
  ASSUME IInv, [Next]_vars
  PROVE  IInv'
<1>1. ASSUME NEW p \in {"hi", "lo"}, ReceiveOther(p) \/ ServeOther(p)  PROVE IInv'
  BY <1>1, ReceiveOtherStep, ServeOtherStep
<1>2. CASE ServeRLB  BY <1>2, ServeRLBStep
<1>3. CASE ServeNothing  BY <1>3, ServeNothingStep
<1>4. CASE StartFlow  BY <1>4, StartFlowStep
<1>5. CASE ReceiveNonlocal  BY <1>5, ReceiveNonlocalStep
<1>6. ASSUME NEW k \in Keys, Returned(k) \/ Deliver(k)  PROVE IInv'
  BY <1>6, ReturnedStep, DeliverStep
<1>7. ASSUME NEW n \in [Keys -> 0..MaxPkts], NewMatching(n)  PROVE IInv'
  BY <1>7, NewMatchingStep
<1>8. CASE CleanCommit  BY <1>8, CleanCommitStep
<1>9. CASE UNCHANGED vars
  BY <1>9 DEF vars, modVars, nicVars, flowVars, IInv, Keeps, History, OnlyWhileMatched,
    NICTypes, Flow
<1>10. QED  BY <1>1, <1>2, <1>3, <1>4, <1>5, <1>6, <1>7, <1>8, <1>9 DEF Next

\* The invariant holds in every state of the module, its NIC and its flow: the
\* counters are those of the packets, and the oldest commit queue is the one
\* whose matching ends.
THEOREM RLBInvariance == Spec => []IInv
<1>1. Init => IInv  BY InitIInv
<1>2. IInv /\ [Next]_vars => IInv'  BY NextIInv
<1>3. QED  BY <1>1, <1>2, PTL DEF Spec

\* The state of RlbModule and of the NIC keeps its types, no more skips are
\* counted than there are other commit queues, the NIC has a dummy exactly as
\* long as the module has something committed, and nothing stays committed
\* for a matching that is over.
THEOREM RLBInv == Spec => []Inv
<1>1. IInv => Inv
  <2> SUFFICES ASSUME IInv  PROVE Inv  OBVIOUS
  <2>1. DummyWhileCommitted  BY DEF IInv, Keeps, Rung, DummyWhileCommitted
  <2>2. m.dummies \in Nat  BY RungDummies DEF IInv, Keeps
  <2>3. m \in [queues : [Keys -> Nat], commits : [Switches -> Seq(Keys \cup {"dummy"})],
               have : BOOLEAN, pull : Switches, push : Switches, skip : 0..(Ncommit - 1),
               dummies : Nat]
    <3>1. m \in Modules /\ m.skip \in 0..(Ncommit - 1)  BY DEF IInv, Keeps
    <3>2. QED  BY <2>2, <3>1 DEF Modules, Packets
  <2>4. fcts \in {0, 1}  BY DEF IInv, Flow
  <2>5. TypeOK  BY <2>3, <2>4 DEF IInv, Keeps, History, NICTypes, Flow, TypeOK
  <2>6. QED  BY <2>1, <2>5 DEF IInv, Inv
<1>2. QED  BY <1>1, RLBInvariance, PTL

\* Whatever is committed, pulled, pushed back, skipped and cleaned: every packet
\* the host has to send is in its queue or in one commit queue.
THEOREM RLBNoPacketLost == Spec => []NoPacketLost
<1>1. IInv => NoPacketLost
  BY DEF IInv, Keeps, Held, InCommits, Committed, NoPacketLost
<1>2. QED  BY <1>1, RLBInvariance, PTL

-----------------------------------------------------------------------------
(* Sums of functions *)

\* Induction on the subsets of a finite set: what holds of the empty set, and of
\* a set when it holds without any one element, holds of every subset.
LEMMA AllSubsets ==
  ASSUME NEW D, IsFiniteSet(D), NEW Good, {} \in Good,
         \A S \in SUBSET D : S # {} /\ (\A x \in S : S \ {x} \in Good) => S \in Good
  PROVE  SUBSET D \subseteq Good
<1> DEFINE Sized == {n \in Nat : \A S \in SUBSET D : Cardinality(S) = n => S \in Good}
<1>1. \A S \in SUBSET D : IsFiniteSet(S) /\ Cardinality(S) \in Nat
  BY FS_Subset, FS_CardinalityType
<1>2. 0 \in Sized
  <2>1. \A S \in SUBSET D : Cardinality(S) = 0 => S = {}  BY <1>1, FS_EmptySet
  <2>2. QED  BY <2>1
<1>3. ASSUME NEW n \in Nat, n \in Sized  PROVE n + 1 \in Sized
  <2>1. ASSUME NEW S \in SUBSET D, Cardinality(S) = n + 1  PROVE S \in Good
    <3>1. S # {}  BY <2>1, FS_EmptySet, 0 # n + 1
    <3>2. ASSUME NEW x \in S  PROVE S \ {x} \in Good
      <4>1. Cardinality(S \ {x}) = Cardinality(S) - 1  BY <1>1, FS_RemoveElement
      <4>2. Cardinality(S \ {x}) = n /\ S \ {x} \in SUBSET D  BY <2>1, <4>1
      <4>3. QED  BY <1>3, <4>2
    <3>3. QED  BY <3>1, <3>2
  <2>2. QED  BY <2>1
<1>4. Nat \subseteq Sized
  <2> HIDE DEF Sized
  <2>1. \A n \in Nat : n \in Sized => n + 1 \in Sized  BY <1>3
  <2>2. QED  BY <1>2, <2>1, AllNumbers
<1>5. QED  BY <1>1, <1>4

\* The recursion behind Sum: one element of a set after the other.
AnyOf(S) == CHOOSE x \in S : TRUE
SumsOf(f, D, g) ==
  g = [S \in SUBSET D |-> IF S = {} THEN 0 ELSE f[AnyOf(S)] + g[S \ {AnyOf(S)}]]

\* What f adds up to over a part S of its domain D.
PartSum(f, D, S) == (CHOOSE g : SumsOf(f, D, g))[S]

\* The element the recursion takes is one of the set.
LEMMA AnyOfIsIn ==
  ASSUME NEW S, S # {}
  PROVE  AnyOf(S) \in S
<1>1. \E x \in S : TRUE  OBVIOUS
<1>2. QED  BY <1>1 DEF AnyOf

\* The recursion has a solution.
LEMMA SumsExist ==
  ASSUME NEW D, IsFiniteSet(D), NEW f \in [D -> Int]
  PROVE  \E g \in [SUBSET D -> Int] : SumsOf(f, D, g)
<1> DEFINE Upto(n) == {S \in SUBSET D : Cardinality(S) <= n}
           Solves(g, n) ==
             /\ g \in [Upto(n) -> Int]
             /\ \A S \in Upto(n) :
                  g[S] = IF S = {} THEN 0 ELSE f[AnyOf(S)] + g[S \ {AnyOf(S)}]
           Sized == {n \in Nat : \E g : Solves(g, n)}
<1>1. \A S \in SUBSET D : IsFiniteSet(S) /\ Cardinality(S) \in Nat
  BY FS_Subset, FS_CardinalityType
<1>2. 0 \in Sized
  <2>1. Upto(0) = {{}}  BY <1>1, FS_EmptySet
  <2>2. Solves([S \in Upto(0) |-> 0], 0)  BY <2>1
  <2>3. QED  BY <2>2
<1>3. ASSUME NEW S \in SUBSET D, S # {}
      PROVE  /\ AnyOf(S) \in D /\ S \ {AnyOf(S)} \in SUBSET D
             /\ Cardinality(S \ {AnyOf(S)}) = Cardinality(S) - 1
  BY <1>1, <1>3, AnyOfIsIn, FS_RemoveElement
<1>4. ASSUME NEW n \in Nat, n \in Sized  PROVE n + 1 \in Sized
  <2>1. PICK g : Solves(g, n)  BY <1>4
  <2> DEFINE h == [S \in Upto(n + 1) |->
                     IF S = {} THEN 0 ELSE f[AnyOf(S)] + g[S \ {AnyOf(S)}]]
  <2>2. ASSUME NEW S \in Upto(n + 1), S # {}
        PROVE  S \ {AnyOf(S)} \in Upto(n) /\ f[AnyOf(S)] \in Int /\ g[S \ {AnyOf(S)}] \in Int
    <3>1. S \ {AnyOf(S)} \in Upto(n)  BY <1>1, <1>3, <2>2
    <3>2. QED  BY <1>3, <2>1, <2>2, <3>1
  <2>3. Upto(n) \subseteq Upto(n + 1)  BY <1>1
  <2>4. \A S \in Upto(n) : h[S] = g[S]  BY <2>1, <2>3
  <2>5. h \in [Upto(n + 1) -> Int]  BY <2>2
  <2>6. ASSUME NEW S \in Upto(n + 1)
        PROVE  h[S] = IF S = {} THEN 0 ELSE f[AnyOf(S)] + h[S \ {AnyOf(S)}]
    <3>1. CASE S = {}  BY <3>1
    <3>2. CASE S # {}
      <4>1. h[S \ {AnyOf(S)}] = g[S \ {AnyOf(S)}]  BY <2>2, <2>4, <3>2
      <4>2. QED  BY <3>2, <4>1
    <3>3. QED  BY <3>1, <3>2
  <2> HIDE DEF h
  <2>7. Solves(h, n + 1)  BY <2>5, <2>6
  <2> HIDE DEF Solves
  <2>8. \E k : Solves(k, n + 1)  BY <2>7
  <2>9. QED  BY <2>8
<1>5. Nat \subseteq Sized
  <2> HIDE DEF Sized
  <2>1. \A n \in Nat : n \in Sized => n + 1 \in Sized  BY <1>4
  <2>2. QED  BY <1>2, <2>1, AllNumbers
<1>6. PICK g : Solves(g, Cardinality(D))  BY <1>1, <1>5
<1>7. Upto(Cardinality(D)) = SUBSET D  BY FS_Subset, <1>1
<1>8. g = [S \in SUBSET D |-> g[S]] /\ g \in [SUBSET D -> Int]  BY <1>6, <1>7
<1>9. SumsOf(f, D, g)  BY <1>6, <1>7, <1>8 DEF SumsOf
<1>10. QED  BY <1>8, <1>9

\* The step of the recursion, for the element that the fold takes.
LEMMA PartSumStep ==
  ASSUME NEW D, IsFiniteSet(D), NEW f \in [D -> Int]
  PROVE  /\ PartSum(f, D, {}) = 0
         /\ \A S \in SUBSET D : /\ PartSum(f, D, S) \in Int
                                /\ S # {} => PartSum(f, D, S)
                                     = f[AnyOf(S)] + PartSum(f, D, S \ {AnyOf(S)})
<1> DEFINE g == CHOOSE h : SumsOf(f, D, h)
<1>1. \E h : SumsOf(f, D, h)  BY SumsExist
<1>2. SumsOf(f, D, g)  BY <1>1
<1> HIDE DEF g
<1>3. \A S : PartSum(f, D, S) = g[S]  BY DEF PartSum, g
<1>4. \A S \in SUBSET D :
        g[S] = IF S = {} THEN 0 ELSE f[AnyOf(S)] + g[S \ {AnyOf(S)}]
  BY <1>2 DEF SumsOf
<1> DEFINE Good == {S \in SUBSET D : g[S] \in Int}
<1>5. {} \in Good
  <2>1. {} \in SUBSET D  OBVIOUS
  <2>2. g[{}] = 0  BY <1>4, <2>1
  <2>3. QED  BY <2>1, <2>2
<1>6. ASSUME NEW S \in SUBSET D, S # {}, \A x \in S : S \ {x} \in Good  PROVE S \in Good
  <2>1. AnyOf(S) \in S  BY <1>6, AnyOfIsIn
  <2>2. g[S \ {AnyOf(S)}] \in Int /\ f[AnyOf(S)] \in Int  BY <1>6, <2>1
  <2>3. QED  BY <1>4, <1>6, <2>2
<1>7. SUBSET D \subseteq Good
  <2> HIDE DEF Good
  <2>1. QED  BY <1>5, <1>6, AllSubsets
<1>8. QED  BY <1>3, <1>4, <1>7

\* A sum does not depend on the order: any element may be taken.
LEMMA PartSumTake ==
  ASSUME NEW D, IsFiniteSet(D), NEW f \in [D -> Int], NEW S \in SUBSET D, NEW x \in S
  PROVE  PartSum(f, D, S) = f[x] + PartSum(f, D, S \ {x})
<1> DEFINE P(T) == PartSum(f, D, T)
           Good == {T \in SUBSET D : \A y \in T : P(T) = f[y] + P(T \ {y})}
<1>1. {} \in Good  OBVIOUS
<1>2. ASSUME NEW T \in SUBSET D, T # {}, \A y \in T : T \ {y} \in Good  PROVE T \in Good
  <2>1. ASSUME NEW y \in T  PROVE P(T) = f[y] + P(T \ {y})
    <3> DEFINE c == AnyOf(T)
    <3>1. c \in T /\ P(T) = f[c] + P(T \ {c})  BY <1>2, AnyOfIsIn, PartSumStep
    <3> HIDE DEF c
    <3>2. CASE y = c  BY <3>1, <3>2
    <3>3. CASE y # c
      <4>1. P(T \ {c}) = f[y] + P((T \ {c}) \ {y})  BY <1>2, <3>1, <3>3
      <4>2. P(T \ {y}) = f[c] + P((T \ {y}) \ {c})  BY <1>2, <3>1, <3>3
      <4>3. (T \ {c}) \ {y} = (T \ {y}) \ {c}  OBVIOUS
      <4>4. /\ f[c] \in Int /\ f[y] \in Int
            /\ P((T \ {y}) \ {c}) \in Int /\ P(T \ {c}) \in Int /\ P(T \ {y}) \in Int
        <5>1. (T \ {y}) \ {c} \in SUBSET D /\ T \ {c} \in SUBSET D /\ T \ {y} \in SUBSET D
          OBVIOUS
        <5>2. QED  BY <3>1, <5>1, PartSumStep
      <4>5. QED  BY <3>1, <4>1, <4>2, <4>3, <4>4
    <3>4. QED  BY <3>2, <3>3
  <2>2. QED  BY <2>1
<1>3. SUBSET D \subseteq Good
  <2> HIDE DEF Good
  <2>1. QED  BY <1>1, <1>2, AllSubsets
<1>4. QED  BY <1>3

\* Sum adds up all of a function.
LEMMA SumIsPartSum ==
  ASSUME NEW f
  PROVE  Sum(f) = PartSum(f, DOMAIN f, DOMAIN f)
BY DEF Sum, FoldFunction, FoldFunctionOnSet, MapThenFoldSet, PartSum, SumsOf, AnyOf

\* Functions that agree on a set have the same sum over it.
LEMMA PartSumAgree ==
  ASSUME NEW D, IsFiniteSet(D), NEW E, IsFiniteSet(E), NEW f \in [D -> Int],
         NEW g \in [E -> Int], NEW S \in SUBSET D, S \subseteq E, \A x \in S : f[x] = g[x]
  PROVE  PartSum(f, D, S) = PartSum(g, E, S)
<1> DEFINE Good == {T \in SUBSET S : PartSum(f, D, T) = PartSum(g, E, T)}
<1>1. {} \in Good
  <2>1. PartSum(f, D, {}) = 0 /\ PartSum(g, E, {}) = 0  BY PartSumStep
  <2>2. QED  BY <2>1
<1>2. ASSUME NEW T \in SUBSET S, T # {}, \A y \in T : T \ {y} \in Good  PROVE T \in Good
  <2>1. PICK y \in T : TRUE  BY <1>2
  <2>2. T \in SUBSET D /\ T \in SUBSET E  OBVIOUS
  <2>3. PartSum(f, D, T) = f[y] + PartSum(f, D, T \ {y})  BY <2>2, PartSumTake
  <2>4. PartSum(g, E, T) = g[y] + PartSum(g, E, T \ {y})  BY <2>2, PartSumTake
  <2>5. f[y] = g[y] /\ PartSum(f, D, T \ {y}) = PartSum(g, E, T \ {y})  BY <1>2
  <2>6. QED  BY <2>3, <2>4, <2>5
<1>3. SUBSET S \subseteq Good
  <2> HIDE DEF Good
  <2>1. IsFiniteSet(S)  BY FS_Subset
  <2>2. QED  BY <1>1, <1>2, <2>1, AllSubsets
<1>4. QED  BY <1>3

\* Two sums make the sum of the sums.
LEMMA PartSumPlus ==
  ASSUME NEW D, IsFiniteSet(D), NEW f \in [D -> Int], NEW g \in [D -> Int],
         NEW h \in [D -> Int], \A x \in D : h[x] = f[x] + g[x], NEW S \in SUBSET D
  PROVE  PartSum(h, D, S) = PartSum(f, D, S) + PartSum(g, D, S)
<1> DEFINE Good == {T \in SUBSET D : PartSum(h, D, T) = PartSum(f, D, T) + PartSum(g, D, T)}
<1>1. {} \in Good
  <2>1. PartSum(f, D, {}) = 0 /\ PartSum(g, D, {}) = 0 /\ PartSum(h, D, {}) = 0
    BY PartSumStep
  <2>2. {} \in SUBSET D  OBVIOUS
  <2>3. QED  BY <2>1, <2>2
<1>2. ASSUME NEW T \in SUBSET D, T # {}, \A y \in T : T \ {y} \in Good  PROVE T \in Good
  <2>1. PICK y \in T : TRUE  BY <1>2
  <2> DEFINE U == T \ {y}
  <2>2. /\ PartSum(f, D, T) = f[y] + PartSum(f, D, U)
        /\ PartSum(g, D, T) = g[y] + PartSum(g, D, U)
        /\ PartSum(h, D, T) = h[y] + PartSum(h, D, U)
    BY PartSumTake
  <2>3. U \in SUBSET D  OBVIOUS
  <2>4. PartSum(f, D, U) \in Int /\ PartSum(g, D, U) \in Int  BY <2>3, PartSumStep
  <2>5. PartSum(h, D, U) = PartSum(f, D, U) + PartSum(g, D, U)  BY <1>2
  <2>6. f[y] \in Int /\ g[y] \in Int /\ h[y] = f[y] + g[y]  OBVIOUS
  <2> HIDE DEF U
  <2>7. PartSum(h, D, T) = PartSum(f, D, T) + PartSum(g, D, T)
    BY ONLY <2>2, <2>4, <2>5, <2>6
  <2>8. QED  BY <2>7
<1>3. SUBSET D \subseteq Good
  <2> HIDE DEF Good
  <2>1. QED  BY <1>1, <1>2, AllSubsets
<1>4. QED  BY <1>3

\* A sum of natural numbers is one, and a constant adds up to a product.
LEMMA PartSumNat ==
  ASSUME NEW D, IsFiniteSet(D), NEW f \in [D -> Nat], NEW S \in SUBSET D
  PROVE  PartSum(f, D, S) \in Nat
<1> DEFINE Good == {T \in SUBSET D : PartSum(f, D, T) \in Nat}
<1>0. f \in [D -> Int]  OBVIOUS
<1>1. {} \in Good
  <2>1. {} \in SUBSET D /\ PartSum(f, D, {}) = 0  BY <1>0, PartSumStep
  <2>2. QED  BY <2>1
<1>2. ASSUME NEW T \in SUBSET D, T # {}, \A y \in T : T \ {y} \in Good  PROVE T \in Good
  <2>1. PICK y \in T : TRUE  BY <1>2
  <2>2. PartSum(f, D, T) = f[y] + PartSum(f, D, T \ {y})  BY <1>0, PartSumTake
  <2>3. f[y] \in Nat /\ PartSum(f, D, T \ {y}) \in Nat  BY <1>2
  <2>4. QED  BY <2>2, <2>3
<1>3. SUBSET D \subseteq Good
  <2> HIDE DEF Good
  <2>1. QED  BY <1>1, <1>2, AllSubsets
<1>4. QED  BY <1>3

\* The same number over a part: the number times its size.
LEMMA PartSumConstant ==
  ASSUME NEW D, IsFiniteSet(D), NEW c \in Int, NEW S \in SUBSET D
  PROVE  PartSum([x \in D |-> c], D, S) = c * Cardinality(S)
<1> DEFINE f == [x \in D |-> c]
           Good == {T \in SUBSET D : PartSum(f, D, T) = c * Cardinality(T)}
<1>0. f \in [D -> Int]  OBVIOUS
<1>1. {} \in Good
  <2>1. {} \in SUBSET D /\ PartSum(f, D, {}) = 0  BY <1>0, PartSumStep
  <2>2. Cardinality({}) = 0 /\ c * 0 = 0  BY FS_EmptySet
  <2>3. QED  BY <2>1, <2>2
<1>2. ASSUME NEW T \in SUBSET D, T # {}, \A y \in T : T \ {y} \in Good  PROVE T \in Good
  <2>1. PICK y \in T : TRUE  BY <1>2
  <2>2. PartSum(f, D, T) = f[y] + PartSum(f, D, T \ {y})  BY <1>0, PartSumTake
  <2>3. f[y] = c /\ PartSum(f, D, T \ {y}) = c * Cardinality(T \ {y})  BY <1>2
  <2>4. IsFiniteSet(T)  BY FS_Subset
  <2>5. Cardinality(T) \in Nat /\ Cardinality(T \ {y}) = Cardinality(T) - 1
    BY <2>4, FS_CardinalityType, FS_RemoveElement
  <2>6. ASSUME NEW n \in Nat  PROVE c * n = c + c * (n - 1)  OBVIOUS
  <2>7. c * Cardinality(T) = c + c * Cardinality(T \ {y})  BY <2>5, <2>6
  <2>8. QED  BY <2>2, <2>3, <2>7
<1>3. SUBSET D \subseteq Good
  <2> HIDE DEF Good
  <2>1. QED  BY <1>1, <1>2, AllSubsets
<1>4. QED  BY <1>3

\* The same of Sum, and what follows: a larger function has a larger sum, and a
\* function with no value above c adds up to c for each element at most.
LEMMA SumType ==
  ASSUME NEW D, IsFiniteSet(D), NEW f \in [D -> Int]
  PROVE  Sum(f) \in Int /\ (f \in [D -> Nat] => Sum(f) \in Nat)
<1>1. Sum(f) = PartSum(f, D, D)  BY SumIsPartSum
<1>2. PartSum(f, D, D) \in Int  BY PartSumStep
<1>3. f \in [D -> Nat] => PartSum(f, D, D) \in Nat  BY PartSumNat
<1>4. QED  BY <1>1, <1>2, <1>3

AddTo(D, f, g, h) ==
  /\ IsFiniteSet(D) /\ f \in [D -> Int] /\ g \in [D -> Int] /\ h \in [D -> Int]
  /\ \A x \in D : h[x] = f[x] + g[x]

\* Sums of functions that add up pointwise add up.
LEMMA SumPlus ==
  ASSUME NEW D, NEW f, NEW g, NEW h, AddTo(D, f, g, h)
  PROVE  Sum(h) = Sum(f) + Sum(g)
<1>1. /\ IsFiniteSet(D) /\ f \in [D -> Int] /\ g \in [D -> Int] /\ h \in [D -> Int]
      /\ \A x \in D : h[x] = f[x] + g[x]
  BY DEF AddTo
<1>2. Sum(f) = PartSum(f, D, D) /\ Sum(g) = PartSum(g, D, D) /\ Sum(h) = PartSum(h, D, D)
  BY <1>1, SumIsPartSum
<1>3. QED  BY <1>1, <1>2, PartSumPlus

\* What is smaller everywhere adds up to less.
LEMMA SumLess ==
  ASSUME NEW D, IsFiniteSet(D), NEW f \in [D -> Int], NEW g \in [D -> Int],
         \A x \in D : f[x] <= g[x]
  PROVE  Sum(f) <= Sum(g)
<1> DEFINE h == [x \in D |-> g[x] - f[x]]
<1>1. h \in [D -> Nat] /\ h \in [D -> Int]  OBVIOUS
<1>2. AddTo(D, f, h, g)  BY <1>1 DEF AddTo
<1> HIDE DEF h
<1>3. Sum(g) = Sum(f) + Sum(h)  BY <1>2, SumPlus
<1>4. Sum(h) \in Nat /\ Sum(f) \in Int  BY <1>1, SumType
<1>5. QED  BY <1>3, <1>4

\* What is at most c everywhere adds up to at most c for each element.
LEMMA SumBound ==
  ASSUME NEW D, IsFiniteSet(D), NEW f \in [D -> Int], NEW c \in Int, \A x \in D : f[x] <= c
  PROVE  Sum(f) <= c * Cardinality(D)
<1> DEFINE g == [x \in D |-> c]
<1>1. g \in [D -> Int] /\ \A x \in D : f[x] <= g[x]  OBVIOUS
<1>2. Sum(f) <= Sum(g)  BY <1>1, SumLess
<1>3. Sum(g) = PartSum(g, D, D)  BY SumIsPartSum
<1>4. PartSum(g, D, D) = c * Cardinality(D)  BY PartSumConstant
<1>5. QED  BY <1>2, <1>3, <1>4

\* Zeros add up to zero.
LEMMA SumZero ==
  ASSUME NEW D, IsFiniteSet(D)
  PROVE  Sum([x \in D |-> 0]) = 0
<1>1. Sum([x \in D |-> 0]) = PartSum([x \in D |-> 0], D, D)  BY SumIsPartSum
<1>2. \A c \in Int : PartSum([x \in D |-> c], D, D) = c * Cardinality(D)
  BY PartSumConstant
<1>3. Cardinality(D) \in Nat  BY FS_CardinalityType
<1>4. PartSum([x \in D |-> 0], D, D) = 0
  <2>1. PICK c \in Int : c = 0  OBVIOUS
  <2>2. PartSum([x \in D |-> c], D, D) = c * Cardinality(D)  BY <1>2
  <2>3. c * Cardinality(D) = 0  BY <1>3, <2>1
  <2>4. QED  BY <2>1, <2>2, <2>3
<1>5. QED  BY <1>1, <1>4

\* A part of the domain adds up as if the rest were zero.
LEMMA SumOfPart ==
  ASSUME NEW D, IsFiniteSet(D), NEW O \in SUBSET D, NEW f \in [O -> Int], NEW g \in [D -> Int],
         \A x \in O : g[x] = f[x], \A x \in D \ O : g[x] = 0
  PROVE  Sum(f) = Sum(g)
<1>1. IsFiniteSet(O)  BY FS_Subset
<1>2. Sum(f) = PartSum(f, O, O) /\ Sum(g) = PartSum(g, D, D)  BY SumIsPartSum
<1>3. PartSum(f, O, O) = PartSum(g, D, O)  BY <1>1, PartSumAgree
<1> DEFINE Good == {T \in SUBSET (D \ O) : PartSum(g, D, O \cup T) = PartSum(g, D, O)}
<1>4. {} \in Good
  <2>1. O \cup {} = O /\ {} \in SUBSET (D \ O)  OBVIOUS
  <2>2. QED  BY <2>1
<1>5. ASSUME NEW T \in SUBSET (D \ O), T # {}, \A y \in T : T \ {y} \in Good  PROVE T \in Good
  <2>1. PICK y \in T : TRUE  BY <1>5
  <2>2. O \cup T \in SUBSET D /\ y \in O \cup T /\ (O \cup T) \ {y} = O \cup (T \ {y})
    OBVIOUS
  <2>3. PartSum(g, D, O \cup T) = g[y] + PartSum(g, D, O \cup (T \ {y}))
    BY <2>2, PartSumTake
  <2>4. g[y] = 0 /\ PartSum(g, D, O \cup (T \ {y})) = PartSum(g, D, O)  BY <1>5
  <2>5. PartSum(g, D, O) \in Int  BY PartSumStep
  <2>6. QED  BY <2>3, <2>4, <2>5
<1>6. SUBSET (D \ O) \subseteq Good
  <2> HIDE DEF Good
  <2> DEFINE Rest == D \ O
  <2>1. IsFiniteSet(Rest)  BY FS_Subset, Rest \in SUBSET D
  <2>2. \A T \in SUBSET Rest : T # {} /\ (\A y \in T : T \ {y} \in Good) => T \in Good
    BY <1>5
  <2> HIDE DEF Rest
  <2>3. SUBSET Rest \subseteq Good  BY <1>4, <2>1, <2>2, AllSubsets
  <2>4. QED  BY <2>3 DEF Rest
<1>7. D \ O \in Good /\ O \cup (D \ O) = D  BY <1>6
<1>8. QED  BY <1>2, <1>3, <1>7

\* A matrix adds up by rows.
AsPairs(R, C, f, mat) ==
  /\ IsFiniteSet(R) /\ IsFiniteSet(C) /\ mat \in [R -> [C -> Int]] /\ f \in [R \X C -> Int]
  /\ \A i \in R, j \in C : f[<<i, j>>] = mat[i][j]

\* The sum over the pairs is the sum of the rows: fairshare2d_2 may share a matrix as
\* one row.
LEMMA SumOfPairs ==
  ASSUME NEW R, NEW C, NEW f, NEW mat, AsPairs(R, C, f, mat)
  PROVE  Sum(f) = Total(mat)
<1>0. /\ IsFiniteSet(R) /\ IsFiniteSet(C) /\ mat \in [R -> [C -> Int]]
      /\ f \in [R \X C -> Int] /\ \A i \in R, j \in C : f[<<i, j>>] = mat[i][j]
  BY DEF AsPairs
<1> DEFINE rows == [i \in R |-> Sum(mat[i])]
<1>1. IsFiniteSet(R \X C) /\ f \in [R \X C -> Int]  BY <1>0, FS_Product
<1>2. rows \in [R -> Int] /\ DOMAIN mat = R  BY <1>0, SumType
<1>3. ASSUME NEW i \in R, NEW T \in SUBSET (R \X C), \A p \in T : p[1] # i
      PROVE  PartSum(f, R \X C, T \cup ({i} \X C)) = PartSum(f, R \X C, T) + Sum(mat[i])
  <2> DEFINE P(U) == PartSum(f, R \X C, U)
             row == mat[i]
             Good == {U \in SUBSET C :
                        P(T \cup ({i} \X U)) = P(T) + PartSum(row, C, U)}
  <2>0. row \in [C -> Int] /\ P(T) \in Int /\ IsFiniteSet(C)  BY <1>0, <1>1, PartSumStep
  <2>1. {} \in Good
    <3>1. T \cup ({i} \X {}) = T /\ {} \in SUBSET C  OBVIOUS
    <3>2. PartSum(row, C, {}) = 0  BY <2>0, PartSumStep
    <3>3. P(T \cup ({i} \X {})) = P(T)  BY <3>1
    <3> HIDE DEF P
    <3>4. QED  BY <2>0, <3>1, <3>2, <3>3
  <2>2. ASSUME NEW U \in SUBSET C, U # {}, \A y \in U : U \ {y} \in Good  PROVE U \in Good
    <3>1. PICK y \in U : TRUE  BY <2>2
    <3> DEFINE W == T \cup ({i} \X U)
    <3>2. W \in SUBSET (R \X C) /\ <<i, y>> \in W  OBVIOUS
    <3>3. W \ {<<i, y>>} = T \cup ({i} \X (U \ {y}))  BY <1>3
    <3>4. P(W) = f[<<i, y>>] + P(T \cup ({i} \X (U \ {y})))
      <4>1. P(W) = f[<<i, y>>] + P(W \ {<<i, y>>})
        <5> HIDE DEF W
        <5>1. QED  BY <1>1, <3>2, PartSumTake
      <4>2. QED  BY <3>3, <4>1
    <3>5. f[<<i, y>>] = row[y] /\ row[y] \in Int  BY <1>0, <2>0
    <3>6. P(T \cup ({i} \X (U \ {y}))) = P(T) + PartSum(row, C, U \ {y})  BY <2>2
    <3>7. PartSum(row, C, U) = row[y] + PartSum(row, C, U \ {y})
      <4> HIDE DEF row
      <4>1. QED  BY <2>0, PartSumTake
    <3>8. PartSum(row, C, U \ {y}) \in Int  BY <2>0, PartSumStep, U \ {y} \in SUBSET C
    <3>9. P(W) = P(T) + PartSum(row, C, U)
      BY <2>0, <3>4, <3>5, <3>6, <3>7, <3>8
    <3>10. QED  BY <3>9
  <2>3. SUBSET C \subseteq Good
    <3> HIDE DEF Good
    <3>1. QED  BY <1>0, <2>1, <2>2, AllSubsets
  <2>4. C \in Good  BY <2>3
  <2>5. Sum(row) = PartSum(row, C, C)  BY <2>0, SumIsPartSum
  <2>6. QED  BY <2>4, <2>5
<1> DEFINE Good == {S \in SUBSET R : PartSum(f, R \X C, S \X C) = PartSum(rows, R, S)}
<1>4. {} \in Good
  <2>1. {} \X C = {} /\ {} \in SUBSET R  OBVIOUS
  <2>2. PartSum(f, R \X C, {}) = 0 /\ PartSum(rows, R, {}) = 0  BY <1>0, <1>1, <1>2, PartSumStep
  <2>3. QED  BY <2>1, <2>2
<1>5. ASSUME NEW S \in SUBSET R, S # {}, \A y \in S : S \ {y} \in Good  PROVE S \in Good
  <2>1. PICK i \in S : TRUE  BY <1>5
  <2> DEFINE T == (S \ {i}) \X C
  <2>2. T \in SUBSET (R \X C) /\ (\A p \in T : p[1] # i) /\ T \cup ({i} \X C) = S \X C
    OBVIOUS
  <2>3. PartSum(f, R \X C, S \X C) = PartSum(f, R \X C, T) + Sum(mat[i])
    <3> HIDE DEF T
    <3>1. QED  BY <1>3, <2>2
  <2>4. PartSum(f, R \X C, T) = PartSum(rows, R, S \ {i})  BY <1>5
  <2>5. PartSum(rows, R, S) = rows[i] + PartSum(rows, R, S \ {i})
    BY <1>0, <1>2, PartSumTake
  <2>6. rows[i] = Sum(mat[i]) /\ rows[i] \in Int /\ PartSum(rows, R, S \ {i}) \in Int
    BY <1>0, <1>2, PartSumStep, S \ {i} \in SUBSET R
  <2>7. QED  BY <2>3, <2>4, <2>5, <2>6
<1>6. SUBSET R \subseteq Good
  <2> HIDE DEF Good
  <2>1. QED  BY <1>0, <1>4, <1>5, AllSubsets
<1>7. R \in Good  BY <1>6
<1>8. Sum(f) = PartSum(f, R \X C, R \X C)  BY <1>1, SumIsPartSum
<1>9. Total(mat) = PartSum(rows, R, R)
  <2>1. Total(mat) = Sum(rows)  BY <1>2 DEF Total
  <2>2. QED  BY <2>1, SumIsPartSum
<1>10. QED  BY <1>7, <1>8, <1>9

-----------------------------------------------------------------------------
(* fairshare1d *)

\* Equal parts fit the whole.
LEMMA EqualParts ==
  ASSUME NEW a \in Nat, NEW b \in Nat \ {0}
  PROVE  a \div b \in Nat /\ (a \div b) * b <= a /\ (a \div b) * b \in Nat
<1>1. a % b \in Nat /\ a = (a \div b) * b + (a % b) /\ a \div b \in Nat
      /\ (a \div b) * b \in Nat
  BY Division
<1>2. QED  BY <1>1

\* What the rounds of fairshare1d may have left of an input and a capacity: what
\* is given out of one is taken from the other.
RoundStates(D, input, cap) ==
  {s \in [input : [D -> Nat], cap : Nat, done : BOOLEAN] :
     /\ \A i \in D : s.input[i] <= input[i]
     /\ Sum(s.input) - s.cap = Sum(input) - cap}

\* A round takes from the capacity what it takes from the input.
LEMMA RoundFacts ==
  ASSUME NEW D, IsFiniteSet(D), NEW input \in [D -> Nat], NEW cap \in Nat,
         NEW s \in RoundStates(D, input, cap)
  PROVE  Round(s) \in RoundStates(D, input, cap)
<1> DEFINE W == Wanting(s.input)
           n == Cardinality(W)
           f == s.cap \div n
           over == {i \in W : s.input[i] < f}
           left == [i \in D |-> IF i \in W /\ i \notin over THEN s.input[i] - f ELSE 0]
           given == [i \in D |-> IF i \in W THEN IF i \in over THEN s.input[i] ELSE f ELSE 0]
           unused == [i \in over |-> f - s.input[i]]
           unusedIn == [i \in D |-> IF i \in over THEN f - s.input[i] ELSE 0]
           flat == [i \in D |-> IF i \in W THEN f ELSE 0]
<1>1. CASE s.done \/ W = {}
  <2>1. Round(s) = s  BY <1>1 DEF Round
  <2>2. QED  BY <2>1
<1>2. CASE ~ (s.done \/ W = {})
  <2>0. /\ s \in [input : [D -> Nat], cap : Nat, done : BOOLEAN]
        /\ s.input \in [D -> Nat] /\ s.cap \in Nat /\ DOMAIN s.input = D
        /\ (\A i \in D : s.input[i] <= input[i]) /\ Sum(s.input) - s.cap = Sum(input) - cap
    BY DEF RoundStates
  <2>1. W \in SUBSET D /\ W # {} /\ IsFiniteSet(W) /\ n \in Nat \ {0}
    <3>1. W \in SUBSET D /\ W # {}  BY <1>2, <2>0 DEF Wanting
    <3>2. IsFiniteSet(W)  BY <3>1, FS_Subset
    <3>3. n \in Nat /\ n # 0  BY <3>1, <3>2, FS_CardinalityType, FS_EmptySet
    <3>4. QED  BY <3>1, <3>2, <3>3
  <2>2. Round(s) = [input |-> left, cap |-> s.cap - f * n + Sum(unused), done |-> over = {}]
    BY <1>2, <2>0 DEF Round
  <2>3. f \in Nat /\ f * n <= s.cap /\ f * n \in Nat
    <3> HIDE DEF n
    <3>1. s.cap \in Nat /\ n \in Nat \ {0}  BY <2>0, <2>1
    <3>2. s.cap \div n \in Nat /\ (s.cap \div n) * n <= s.cap /\ (s.cap \div n) * n \in Nat
      BY <3>1, EqualParts
    <3>3. QED  BY <3>2
  <2> HIDE DEF f, W, n
  <2>4. /\ over \in SUBSET D /\ over \subseteq W
        /\ left \in [D -> Nat] /\ given \in [D -> Nat] /\ unused \in [over -> Int]
        /\ unusedIn \in [D -> Nat] /\ flat \in [D -> Nat]
    <3>1. over \in SUBSET D /\ over \subseteq W  BY <2>1
    <3>2. \A i \in D : s.input[i] \in Nat  BY <2>0
    <3>3. QED  BY <2>1, <2>3, <3>1, <3>2
  <2>5. \A i \in D : /\ left[i] <= s.input[i] /\ s.input[i] = left[i] + given[i]
                     /\ flat[i] = given[i] + unusedIn[i]
    <3>1. ASSUME NEW i \in D  PROVE s.input[i] \in Nat /\ (i \notin W => s.input[i] = 0)
      BY <2>0 DEF W, Wanting
    <3>2. QED  BY <2>3, <3>1
  <2>6. Sum(unused) = Sum(unusedIn)
    <3>1. \A i \in over : unusedIn[i] = unused[i]  BY <2>4
    <3>2. \A i \in D \ over : unusedIn[i] = 0  OBVIOUS
    <3>3. unusedIn \in [D -> Int]  BY <2>4
    <3> HIDE DEF over, unused, unusedIn
    <3>4. QED  BY <2>4, <3>1, <3>2, <3>3, SumOfPart
  <2>7. Sum(flat) <= f * n /\ Sum(flat) = f * n
    <3> DEFINE c == [i \in W |-> f]
    <3>1. Sum(c) = Sum(flat)
      <4>1. c \in [W -> Int] /\ flat \in [D -> Int]  BY <2>3, <2>4
      <4>2. (\A i \in W : flat[i] = c[i]) /\ (\A i \in D \ W : flat[i] = 0)  BY <2>1
      <4> HIDE DEF c, flat
      <4>3. QED  BY <2>1, <4>1, <4>2, SumOfPart
    <3>2. Sum(c) = f * n
      <4>1. Sum(c) = PartSum(c, W, W)  BY SumIsPartSum
      <4>2. f \in Int /\ W \in SUBSET W  BY <2>3
      <4>3. PartSum([x \in W |-> f], W, W) = f * Cardinality(W)
        BY <2>1, <4>2, PartSumConstant
      <4>4. QED  BY <4>1, <4>3 DEF n
    <3>3. QED  BY <2>3, <3>1, <3>2
  <2> HIDE DEF left, given, unused, unusedIn, flat
  <2>8. Sum(flat) = Sum(given) + Sum(unusedIn)
    <3>1. flat \in [D -> Int] /\ given \in [D -> Int] /\ unusedIn \in [D -> Int]  BY <2>4
    <3>2. AddTo(D, given, unusedIn, flat)  BY <2>5, <3>1 DEF AddTo
    <3>3. QED  BY <3>2, SumPlus
  <2>9. Sum(s.input) = Sum(left) + Sum(given)
    <3>1. s.input \in [D -> Int] /\ left \in [D -> Int] /\ given \in [D -> Int]  BY <2>0, <2>4
    <3>2. AddTo(D, left, given, s.input)  BY <2>5, <3>1 DEF AddTo
    <3>3. QED  BY <3>2, SumPlus
  <2>10. Sum(given) \in Nat /\ Sum(unusedIn) \in Nat /\ Sum(left) \in Nat
         /\ Sum(input) \in Int
    <3>1. \A g : g \in [D -> Nat] => g \in [D -> Int]  OBVIOUS
    <3>2. QED  BY <2>4, <3>1, SumType
  <2> DEFINE cap2 == s.cap - f * n + Sum(unused)
  <2>11. cap2 = s.cap - Sum(given) /\ cap2 \in Nat
    BY <2>0, <2>3, <2>6, <2>7, <2>8, <2>10
  <2>12. Sum(left) - cap2 = Sum(input) - cap  BY <2>0, <2>9, <2>10, <2>11
  <2>13. \A i \in D : left[i] <= input[i]
    <3>1. \A i \in D : left[i] \in Nat /\ s.input[i] \in Nat /\ input[i] \in Nat
      BY <2>0, <2>4
    <3>2. QED  BY <2>0, <2>5, <3>1
  <2> HIDE DEF cap2
  <2>14. Round(s) = [input |-> left, cap |-> cap2, done |-> over = {}]  BY <2>2 DEF cap2
  <2>15. QED  BY <2>4, <2>11, <2>12, <2>13, <2>14 DEF RoundStates
<1>3. QED  BY <1>1, <1>2

\* So do all the rounds.
LEMMA RoundsFold ==
  ASSUME NEW D, IsFiniteSet(D), NEW input \in [D -> Nat], NEW cap \in Nat
  PROVE  Rounds(input, cap) \in RoundStates(D, input, cap)
<1> DEFINE n == Cardinality(D) + 1
           T == RoundStates(D, input, cap)
           base == [input |-> input, cap |-> cap, done |-> FALSE]
           Equation(f) == f = [S \in SUBSET (1..n) |->
                                 IF S = {} THEN base ELSE Round(f[S \ {Max(S)}])]
           iter == CHOOSE f : Equation(f)
           step == [x \in (1..n) \X T |-> Round(x[2])]
<1>0. n \in Nat /\ base \in T
  BY FS_CardinalityType DEF RoundStates
<1>1. Rounds(input, cap) = iter[1..n]
  <2>1. DOMAIN [i \in 1..n |-> i] = 1..n /\ DOMAIN input = D  OBVIOUS
  <2>2. QED  BY <2>1 DEF Rounds, FoldLeft, MapThenFoldSet
<1> HIDE DEF n, T, base
<1>2. \A s \in T : Round(s) \in T  BY RoundFacts DEF T
<1>3. \E f : Equation(f)
  <2>1. step \in [(1..n) \X T -> T]
    <3>1. ASSUME NEW x \in (1..n) \X T  PROVE Round(x[2]) \in T
      <4>1. x[2] \in T  OBVIOUS
      <4>2. QED  BY <1>2, <4>1
    <3>2. QED  BY <3>1
  <2>2. PICK h : FoldsBy(h, T, n, base, step)
    <3> HIDE DEF step
    <3>1. QED  BY <1>0, <2>1, FoldExists
  <2>3. ASSUME NEW S \in SUBSET (1..n)
        PROVE  h[S] = IF S = {} THEN base ELSE Round(h[S \ {Max(S)}])
    <3>1. h[S] = IF S = {} THEN base ELSE step[<<Max(S), h[S \ {Max(S)}]>>]
      BY <2>2 DEF FoldsBy
    <3>2. CASE S # {}
      <4>1. Max(S) \in 1..n  BY <1>0, <3>2, MaxOfSet
      <4>2. S \ {Max(S)} \in SUBSET (1..n)  OBVIOUS
      <4>3. h[S \ {Max(S)}] \in T  BY <2>2, <4>2 DEF FoldsBy
      <4>4. step[<<Max(S), h[S \ {Max(S)}]>>] = Round(h[S \ {Max(S)}])  BY <4>1, <4>3
      <4>5. QED  BY <3>1, <3>2, <4>4
    <3>3. QED  BY <3>1, <3>2
  <2>4. h = [S \in SUBSET (1..n) |-> h[S]]  BY <2>2 DEF FoldsBy
  <2>5. Equation(h)  BY <2>3, <2>4
  <2>6. QED  BY <2>5
<1>4. Equation(iter)  BY <1>3
<1> HIDE DEF iter
<1> DEFINE Good == {l \in Nat : l <= n => iter[1..l] \in T}
<1>5. 0 \in Good
  <2>1. 1..0 = {} /\ {} \in SUBSET (1..n)  OBVIOUS
  <2>2. iter[{}] = base  BY <1>4, <2>1
  <2>3. QED  BY <1>0, <2>1, <2>2
<1>6. ASSUME NEW l \in Nat, l \in Good  PROVE l + 1 \in Good
  <2>1. SUFFICES ASSUME l + 1 <= n  PROVE iter[1..(l + 1)] \in T  OBVIOUS
  <2>2. 1..(l + 1) \in SUBSET (1..n) /\ 1..(l + 1) # {} /\ l + 1 \in Nat \ {0} /\ l <= n
    <3>1. l + 1 \in Nat \ {0} /\ l <= n /\ l + 1 \in 1..(l + 1)
      BY ONLY <1>0, <2>1, l \in Nat
    <3>2. ASSUME NEW i \in 1..(l + 1)  PROVE i \in 1..n
      BY ONLY <1>0, <2>1, l \in Nat, i \in 1..(l + 1)
    <3>3. QED  BY <3>1, <3>2
  <2>3. Max(1..(l + 1)) = l + 1 /\ (1..(l + 1)) \ {l + 1} = 1..l
    <3>1. (l + 1) - 1 = l  OBVIOUS
    <3>2. QED  BY <2>2, <3>1, MaxOfRange
  <2>4. iter[1..(l + 1)] = Round(iter[1..l])  BY <1>4, <2>2, <2>3
  <2>5. iter[1..l] \in T  BY <1>6, <2>2
  <2>6. QED  BY <1>2, <2>4, <2>5
<1>7. Nat \subseteq Good
  <2> HIDE DEF Good
  <2>1. \A l \in Nat : l \in Good => l + 1 \in Good  BY <1>6
  <2>2. QED  BY <1>5, <2>1, AllNumbers
<1>8. n \in Good  BY <1>0, <1>7
<1>9. QED  BY <1>0, <1>1, <1>8 DEF T

\* A share is no more than was asked for, and all shares fit the capacity.
LEMMA SharesFacts ==
  ASSUME NEW D, IsFiniteSet(D), NEW input \in [D -> Nat], NEW cap \in Nat,
         NEW h \in Shares(input, cap)
  PROVE  h \in [D -> Nat] /\ (\A i \in D : h[i] <= input[i]) /\ Sum(h) <= cap
<1> DEFINE r == Rounds(input, cap)
           extra == LesserOf(r.cap, Sum(r.input))
<1>1. r \in RoundStates(D, input, cap)  BY RoundsFold
<1> HIDE DEF r
<1>2. /\ r.input \in [D -> Nat] /\ r.cap \in Nat /\ \A i \in D : r.input[i] <= input[i]
      /\ Sum(r.input) - r.cap = Sum(input) - cap
  BY <1>1 DEF RoundStates
<1>3. Sum(r.input) \in Nat /\ Sum(input) \in Nat
  <2>1. \A g : g \in [D -> Nat] => g \in [D -> Int]  OBVIOUS
  <2>2. QED  BY <1>2, <2>1, SumType
<1>4. extra \in Nat /\ extra <= r.cap  BY <1>2, <1>3 DEF LesserOf
<1>5. PICK g \in [D -> 0..extra] :
        /\ Sum(g) = extra /\ \A i \in D : g[i] <= r.input[i]
        /\ h = [i \in D |-> input[i] - r.input[i] + g[i]]
  BY DEF Shares, r
<1>6. \A i \in D : g[i] \in Nat /\ input[i] \in Nat /\ r.input[i] \in Nat
  BY <1>2, <1>4
<1>7. h \in [D -> Nat] /\ \A i \in D : h[i] <= input[i]  BY <1>2, <1>5, <1>6
<1> DEFINE both == [i \in D |-> input[i] + g[i]]
<1>8. both \in [D -> Int] /\ h \in [D -> Int] /\ g \in [D -> Int] /\ input \in [D -> Int]
      /\ r.input \in [D -> Int]
  BY <1>2, <1>6, <1>7
<1>9. Sum(both) = Sum(input) + Sum(g)
  <2>1. AddTo(D, input, g, both)  BY <1>8 DEF AddTo
  <2> HIDE DEF both
  <2>2. QED  BY <2>1, SumPlus
<1>10. Sum(both) = Sum(h) + Sum(r.input)
  <2>1. AddTo(D, h, r.input, both)  BY <1>5, <1>6, <1>8 DEF AddTo
  <2> HIDE DEF both
  <2>2. QED  BY <2>1, SumPlus
<1>11. Sum(h) \in Int  BY <1>8, SumType
<1> HIDE DEF both, extra
<1>12. Sum(h) = cap - r.cap + extra  BY <1>2, <1>3, <1>4, <1>5, <1>9, <1>10, <1>11
<1>13. QED  BY <1>2, <1>4, <1>7, <1>12

-----------------------------------------------------------------------------
(* fairshare2d and fairshare2d_2 *)

\* The sums of two matrices, of rows, of columns and of all, add up.
AddsUp(R, C, a, b, c) ==
  /\ IsFiniteSet(R) /\ IsFiniteSet(C)
  /\ a \in [R -> [C -> Nat]] /\ b \in [R -> [C -> Nat]] /\ c \in [R -> [C -> Nat]]
  /\ \A i \in R, j \in C : c[i][j] = a[i][j] + b[i][j]

\* Rows, columns and totals of matrices that add up add up.
LEMMA MatrixPlus ==
  ASSUME NEW R, NEW C, NEW a, NEW b, NEW c, AddsUp(R, C, a, b, c)
  PROVE  /\ \A i \in R : RowSum(c, i) = RowSum(a, i) + RowSum(b, i)
         /\ \A j \in C : ColSum(c, j) = ColSum(a, j) + ColSum(b, j)
         /\ Total(c) = Total(a) + Total(b)
<1>1. /\ IsFiniteSet(R) /\ IsFiniteSet(C)
      /\ a \in [R -> [C -> Nat]] /\ b \in [R -> [C -> Nat]] /\ c \in [R -> [C -> Nat]]
      /\ DOMAIN a = R /\ DOMAIN b = R /\ DOMAIN c = R
      /\ \A i \in R, j \in C : c[i][j] = a[i][j] + b[i][j]
  BY DEF AddsUp
<1>2. \A x \in [R -> [C -> Nat]] : \A i \in R : x[i] \in [C -> Int]  OBVIOUS
<1>3. ASSUME NEW i \in R
      PROVE  /\ Sum(c[i]) = Sum(a[i]) + Sum(b[i])
             /\ Sum(a[i]) \in Int /\ Sum(b[i]) \in Int /\ Sum(c[i]) \in Int
  <2> DEFINE u == a[i]
             v == b[i]
             w == c[i]
  <2>1. AddTo(C, u, v, w)  BY <1>1, <1>2 DEF AddTo
  <2>2. u \in [C -> Int] /\ v \in [C -> Int] /\ w \in [C -> Int]  BY <1>1, <1>2
  <2> HIDE DEF u, v, w
  <2>3. Sum(w) = Sum(u) + Sum(v)  BY <2>1, SumPlus
  <2>4. Sum(u) \in Int /\ Sum(v) \in Int /\ Sum(w) \in Int  BY <1>1, <2>2, SumType
  <2>5. QED  BY <2>3, <2>4 DEF u, v, w
<1>4. ASSUME NEW j \in C  PROVE ColSum(c, j) = ColSum(a, j) + ColSum(b, j)
  <2> DEFINE u == [i \in R |-> a[i][j]]
             v == [i \in R |-> b[i][j]]
             w == [i \in R |-> c[i][j]]
  <2>1. AddTo(R, u, v, w)  BY <1>1 DEF AddTo
  <2>2. ColSum(a, j) = Sum(u) /\ ColSum(b, j) = Sum(v) /\ ColSum(c, j) = Sum(w)
    BY <1>1 DEF ColSum
  <2> HIDE DEF u, v, w
  <2>3. Sum(w) = Sum(u) + Sum(v)  BY <2>1, SumPlus
  <2>4. QED  BY <2>2, <2>3
<1>5. Total(c) = Total(a) + Total(b)
  <2> DEFINE u == [i \in R |-> Sum(a[i])]
             v == [i \in R |-> Sum(b[i])]
             w == [i \in R |-> Sum(c[i])]
  <2>1. AddTo(R, u, v, w)  BY <1>1, <1>3 DEF AddTo
  <2>2. Total(a) = Sum(u) /\ Total(b) = Sum(v) /\ Total(c) = Sum(w)  BY <1>1 DEF Total
  <2> HIDE DEF u, v, w
  <2>3. Sum(w) = Sum(u) + Sum(v)  BY <2>1, SumPlus
  <2>4. QED  BY <2>2, <2>3
<1>6. QED  BY <1>3, <1>4, <1>5 DEF RowSum

\* A smaller matrix has smaller sums.
LEMMA MatrixLess ==
  ASSUME NEW R, IsFiniteSet(R), NEW C, IsFiniteSet(C), NEW a \in [R -> [C -> Nat]],
         NEW b \in [R -> [C -> Nat]], \A i \in R, j \in C : a[i][j] <= b[i][j]
  PROVE  /\ \A i \in R : RowSum(a, i) <= RowSum(b, i)
         /\ Total(a) <= Total(b)
<1>1. \A x \in [R -> [C -> Nat]] :
        DOMAIN x = R /\ \A i \in R : x[i] \in [C -> Nat] /\ x[i] \in [C -> Int]
  OBVIOUS
<1>2. ASSUME NEW i \in R  PROVE Sum(a[i]) <= Sum(b[i])  BY <1>1, SumLess
<1>3. Total(a) <= Total(b)
  <2> DEFINE u == [i \in R |-> Sum(a[i])]
             v == [i \in R |-> Sum(b[i])]
  <2>1. u \in [R -> Int] /\ v \in [R -> Int] /\ \A i \in R : u[i] <= v[i]
    BY <1>1, <1>2, SumType
  <2>2. Total(a) = Sum(u) /\ Total(b) = Sum(v)  BY <1>1 DEF Total
  <2> HIDE DEF u, v
  <2>3. QED  BY <2>1, <2>2, SumLess
<1>4. QED  BY <1>2, <1>3 DEF RowSum

\* All sums of natural numbers are natural numbers.
LEMMA MatrixType ==
  ASSUME NEW R, IsFiniteSet(R), NEW C, IsFiniteSet(C), NEW a \in [R -> [C -> Nat]]
  PROVE  /\ \A i \in R : RowSum(a, i) \in Nat
         /\ \A j \in C : ColSum(a, j) \in Nat
         /\ Total(a) \in Nat
<1>0. \A D, f : f \in [D -> Nat] => f \in [D -> Int]  OBVIOUS
<1>1. ASSUME NEW i \in R  PROVE Sum(a[i]) \in Nat
  <2>1. a[i] \in [C -> Nat]  OBVIOUS
  <2>2. QED  BY <1>0, <2>1, SumType
<1>2. ASSUME NEW j \in C  PROVE ColSum(a, j) \in Nat
  <2> DEFINE u == [i \in R |-> a[i][j]]
  <2>1. u \in [R -> Nat] /\ ColSum(a, j) = Sum(u)  BY DEF ColSum
  <2> HIDE DEF u
  <2>2. QED  BY <1>0, <2>1, SumType
<1>3. Total(a) \in Nat
  <2> DEFINE u == [i \in R |-> Sum(a[i])]
  <2>1. u \in [R -> Nat] /\ Total(a) = Sum(u)  BY <1>1 DEF Total
  <2> HIDE DEF u
  <2>2. QED  BY <1>0, <2>1, SumType
<1>4. QED  BY <1>1, <1>2, <1>3 DEF RowSum

\* A matrix of zeros adds up to zero.
LEMMA MatrixZero ==
  ASSUME NEW R, IsFiniteSet(R), NEW C, IsFiniteSet(C)
  PROVE  /\ Zero(R, C) \in [R -> [C -> Nat]]
         /\ \A i \in R : RowSum(Zero(R, C), i) = 0
         /\ \A j \in C : ColSum(Zero(R, C), j) = 0
         /\ Total(Zero(R, C)) = 0
<1>1. Zero(R, C) \in [R -> [C -> Nat]]  BY DEF Zero
<1>2. \A i \in R : Zero(R, C)[i] = [j \in C |-> 0]  BY DEF Zero
<1>3. \A i \in R : Sum(Zero(R, C)[i]) = 0  BY <1>2, SumZero
<1>4. \A j \in C : [i \in R |-> Zero(R, C)[i][j]] = [i \in R |-> 0]  BY <1>2
<1>5. \A j \in C : ColSum(Zero(R, C), j) = 0  BY <1>1, <1>4, SumZero DEF ColSum
<1>6. [i \in R |-> Sum(Zero(R, C)[i])] = [i \in R |-> 0]  BY <1>3
<1>7. Total(Zero(R, C)) = 0  BY <1>1, <1>6, SumZero DEF Total
<1>8. QED  BY <1>1, <1>3, <1>5, <1>7 DEF RowSum

\* The second sweep cuts every column to what is left of its capacity.
LEMMA ColumnSharesFacts ==
  ASSUME NEW R, IsFiniteSet(R), NEW C, IsFiniteSet(C), NEW rows \in [R -> [C -> Nat]],
         NEW sent \in [R -> [C -> Nat]], NEW cap1 \in [C -> Nat],
         \A j \in C : ColSum(sent, j) <= cap1[j],
         NEW more \in ColumnShares(rows, sent, cap1)
  PROVE  /\ more \in [R -> [C -> Nat]]
         /\ \A i \in R, j \in C : more[i][j] <= rows[i][j]
         /\ \A j \in C : ColSum(sent, j) + ColSum(more, j) <= cap1[j]
<1> DEFINE column(j) == [i \in R |-> rows[i][j]]
           room(j) == cap1[j] - ColSum(sent, j)
<1>1. PICK c : /\ \A j \in C : c[j] \in Shares(column(j), room(j))
               /\ more = [i \in R |-> [j \in C |-> c[j][i]]]
  <2>1. DOMAIN sent = R /\ DOMAIN cap1 = C  OBVIOUS
  <2>2. QED  BY <2>1 DEF ColumnShares, Selections
<1>2. ASSUME NEW j \in C
      PROVE  /\ c[j] \in [R -> Nat] /\ \A i \in R : c[j][i] <= rows[i][j]
             /\ Sum(c[j]) <= room(j)
  <2>1. column(j) \in [R -> Nat]  OBVIOUS
  <2>2. room(j) \in Nat
    <3>1. ColSum(sent, j) \in Nat  BY MatrixType
    <3>2. cap1[j] \in Nat  OBVIOUS
    <3>3. QED  BY <3>1, <3>2
  <2>3. c[j] \in Shares(column(j), room(j))  BY <1>1
  <2>4. \A i \in R : column(j)[i] = rows[i][j]  OBVIOUS
  <2> HIDE DEF column, room
  <2>5. /\ c[j] \in [R -> Nat] /\ \A i \in R : c[j][i] <= column(j)[i]
        /\ Sum(c[j]) <= room(j)
    BY <2>1, <2>2, <2>3, SharesFacts
  <2>6. QED  BY <2>4, <2>5
<1>3. more \in [R -> [C -> Nat]]  BY <1>1, <1>2
<1>4. \A i \in R, j \in C : more[i][j] <= rows[i][j]  BY <1>1, <1>2
<1>5. ASSUME NEW j \in C  PROVE ColSum(sent, j) + ColSum(more, j) <= cap1[j]
  <2>1. c[j] = [i \in R |-> c[j][i]]  BY <1>2
  <2>2. [i \in R |-> more[i][j]] = c[j]  BY <1>1, <2>1
  <2>3. ColSum(more, j) = Sum(c[j])  BY <1>3, <2>2 DEF ColSum
  <2>4. ColSum(sent, j) \in Nat /\ ColSum(more, j) \in Nat  BY <1>3, MatrixType
  <2>5. cap1[j] \in Nat  OBVIOUS
  <2>6. QED  BY <1>2, <2>3, <2>4, <2>5
<1>6. QED  BY <1>3, <1>4, <1>5

\* What the loop of fairshare2d keeps: what was sent fits both capacities, and
\* input and sent together are no more than there was.
Shared2D(R, C, cap0, cap1, have, s) ==
  /\ s.input \in [R -> [C -> Nat]] /\ s.sent \in [R -> [C -> Nat]]
  /\ \A i \in R : RowSum(s.sent, i) <= cap0[i]
  /\ \A j \in C : ColSum(s.sent, j) <= cap1[j]
  /\ \A i \in R, j \in C : s.input[i][j] + s.sent[i][j] <= have[i][j]

\* The same of fairshare2d_2, whose rows share one capacity.
Shared2D2(R, C, cap0, cap1, have, s) ==
  /\ s.input \in [R -> [C -> Nat]] /\ s.sent \in [R -> [C -> Nat]]
  /\ Total(s.sent) <= cap0
  /\ \A j \in C : ColSum(s.sent, j) <= cap1[j]
  /\ \A i \in R, j \in C : s.input[i][j] + s.sent[i][j] <= have[i][j]

\* One iteration of each loop keeps that.
LEMMA Sweep2DFacts ==
  ASSUME NEW R, IsFiniteSet(R), NEW C, IsFiniteSet(C), NEW cap0 \in [R -> Nat],
         NEW cap1 \in [C -> Nat], NEW have \in [R -> [C -> Nat]],
         Shared2D(R, C, cap0, cap1, have, share), Sweep2D(cap0, cap1)
  PROVE  Shared2D(R, C, cap0, cap1, have, share')
<1> DEFINE input == share.input
           sent == share.sent
           room(i) == cap0[i] - RowSum(sent, i)
<1>0. /\ input \in [R -> [C -> Nat]] /\ sent \in [R -> [C -> Nat]]
      /\ DOMAIN cap0 = R /\ DOMAIN cap1 = C
      /\ \A i \in R : RowSum(sent, i) <= cap0[i]
      /\ \A j \in C : ColSum(sent, j) <= cap1[j]
      /\ \A i \in R, j \in C : input[i][j] + sent[i][j] <= have[i][j]
  BY DEF Shared2D
<1>1. PICK rows \in Selections([i \in DOMAIN cap0 |-> Shares(share.input[i], cap0[i] - RowSum(share.sent, i))]) :
        \E sent0 \in ColumnShares(rows, share.sent, cap1) :
          LET next == [i \in DOMAIN cap0 |-> [j \in DOMAIN cap1 |-> share.sent[i][j] + sent0[i][j]]]
              open(i, j) == RowSum(next, i) < cap0[i] /\ ColSum(next, j) < cap1[j]
          IN share' = [input |-> [i \in DOMAIN cap0 |-> [j \in DOMAIN cap1 |->
                                    IF open(i, j) THEN share.input[i][j] - sent0[i][j] ELSE 0]],
                       sent |-> next, iter |-> share.iter + 1]
  BY DEF Sweep2D
<1>2. PICK more \in ColumnShares(rows, sent, cap1) :
          LET next == [i \in DOMAIN cap0 |-> [j \in DOMAIN cap1 |-> share.sent[i][j] + more[i][j]]]
              open(i, j) == RowSum(next, i) < cap0[i] /\ ColSum(next, j) < cap1[j]
          IN share' = [input |-> [i \in DOMAIN cap0 |-> [j \in DOMAIN cap1 |->
                                    IF open(i, j) THEN share.input[i][j] - more[i][j] ELSE 0]],
                       sent |-> next, iter |-> share.iter + 1]
  BY <1>1
<1> DEFINE next == [i \in R |-> [j \in C |-> sent[i][j] + more[i][j]]]
           input2 == [i \in R |-> [j \in C |->
                        IF RowSum(next, i) < cap0[i] /\ ColSum(next, j) < cap1[j]
                        THEN input[i][j] - more[i][j] ELSE 0]]
<1>3. share'.sent = next /\ share'.input = input2  BY <1>0, <1>2
<1>4. ASSUME NEW i \in R
      PROVE  /\ rows[i] \in [C -> Nat] /\ \A j \in C : rows[i][j] <= input[i][j]
             /\ Sum(rows[i]) <= room(i)
  <2>1. input[i] \in [C -> Nat]  BY <1>0
  <2>2. room(i) \in Nat
    <3>1. RowSum(sent, i) \in Nat /\ cap0[i] \in Nat  BY <1>0, MatrixType
    <3>2. QED  BY <1>0, <3>1
  <2>3. rows[i] \in Shares(input[i], room(i))  BY <1>1 DEF Selections
  <2> HIDE DEF room, input
  <2>4. QED  BY <2>1, <2>2, <2>3, SharesFacts
<1>5. rows \in [R -> [C -> Nat]]
  <2>1. rows = [i \in R |-> rows[i]]  BY <1>1 DEF Selections
  <2>2. QED  BY <1>4, <2>1
<1>6. /\ more \in [R -> [C -> Nat]] /\ \A i \in R, j \in C : more[i][j] <= rows[i][j]
      /\ \A j \in C : ColSum(sent, j) + ColSum(more, j) <= cap1[j]
  <2> HIDE DEF sent
  <2>1. QED  BY <1>0, <1>2, <1>5, ColumnSharesFacts, ZenonT(60)
<1>7. /\ next \in [R -> [C -> Nat]]
      /\ \A i \in R : RowSum(next, i) = RowSum(sent, i) + RowSum(more, i)
      /\ \A j \in C : ColSum(next, j) = ColSum(sent, j) + ColSum(more, j)
  <2>1. \A i \in R, j \in C : sent[i][j] \in Nat /\ more[i][j] \in Nat  BY <1>0, <1>6
  <2>2. next \in [R -> [C -> Nat]]  BY <2>1
  <2>3. sent \in [R -> [C -> Nat]] /\ more \in [R -> [C -> Nat]]  BY <1>0, <1>6
  <2>4. AddsUp(R, C, sent, more, next)  BY <2>2, <2>3 DEF AddsUp
  <2> HIDE DEF sent, next
  <2>5. QED  BY <2>2, <2>4, MatrixPlus
<1>8. \A i \in R : RowSum(next, i) <= cap0[i]
  <2>1. \A i \in R : RowSum(more, i) <= RowSum(rows, i)  BY <1>5, <1>6, MatrixLess
  <2>2. \A i \in R : RowSum(rows, i) <= room(i)  BY <1>4 DEF RowSum
  <2>3. \A i \in R : RowSum(more, i) \in Nat /\ RowSum(sent, i) \in Nat /\ RowSum(rows, i) \in Nat
    <3> HIDE DEF sent
    <3>1. QED  BY <1>0, <1>5, <1>6, MatrixType
  <2> HIDE DEF next
  <2>4. ASSUME NEW i \in R  PROVE RowSum(next, i) <= cap0[i]
    <3>1. cap0[i] \in Nat  OBVIOUS
    <3> HIDE DEF sent
    <3>2. QED  BY <1>7, <2>1, <2>2, <2>3, <3>1
  <2>5. QED  BY <2>4
<1>9. \A j \in C : ColSum(next, j) <= cap1[j]
  <2> HIDE DEF next, sent
  <2>1. QED  BY <1>6, <1>7
<1>10. /\ input2 \in [R -> [C -> Nat]]
       /\ \A i \in R, j \in C : input2[i][j] + next[i][j] <= have[i][j]
  <2>1. \A i \in R, j \in C : input[i][j] \in Nat /\ more[i][j] \in Nat /\ rows[i][j] \in Nat
    BY <1>0, <1>5, <1>6
  <2>2. \A i \in R, j \in C : more[i][j] <= input[i][j]  BY <1>4, <1>6, <2>1
  <2>3. input2 \in [R -> [C -> Int]]
        /\ \A i \in R, j \in C : input2[i][j] \in {0, input[i][j] - more[i][j]}
    <3> HIDE DEF next, input
    <3>1. QED  BY <2>1
  <2>4. next \in [R -> [C -> Int]]
        /\ \A i \in R, j \in C : next[i][j] = sent[i][j] + more[i][j]
    <3>1. \A i \in R, j \in C : next[i][j] = sent[i][j] + more[i][j]  OBVIOUS
    <3> HIDE DEF next
    <3>2. QED  BY <1>7, <3>1
  <2> HIDE DEF input2, next, input, sent
  <2>5. ASSUME NEW i \in R, NEW j \in C
        PROVE  input2[i][j] \in Nat /\ input2[i][j] + next[i][j] <= have[i][j]
    <3>1. /\ input[i][j] \in Nat /\ sent[i][j] \in Nat /\ more[i][j] \in Nat
          /\ have[i][j] \in Nat
      BY <1>0, <1>6
    <3>2. /\ input[i][j] + sent[i][j] <= have[i][j] /\ more[i][j] <= input[i][j]
          /\ next[i][j] = sent[i][j] + more[i][j]
          /\ input2[i][j] \in {0, input[i][j] - more[i][j]}
      BY <1>0, <2>2, <2>3, <2>4
    <3>3. QED  BY <3>1, <3>2
  <2>6. QED  BY <2>3, <2>5
<1> HIDE DEF input2, next, room
<1>11. QED  BY <1>3, <1>7, <1>8, <1>9, <1>10 DEF Shared2D

\* An iteration of fairshare2d_2 keeps the total, the columns and the elements within
\* what they may have.
LEMMA Sweep2D2Facts ==
  ASSUME NEW R, IsFiniteSet(R), NEW C, IsFiniteSet(C), NEW cap0 \in Nat,
         NEW cap1 \in [C -> Nat], NEW have \in [R -> [C -> Nat]],
         Shared2D2(R, C, cap0, cap1, have, share), Sweep2D2(cap0, cap1)
  PROVE  Shared2D2(R, C, cap0, cap1, have, share')
<1> DEFINE input == share.input
           sent == share.sent
           room == cap0 - Total(sent)
           pairs == [p \in R \X C |-> input[p[1]][p[2]]]
<1>0. /\ input \in [R -> [C -> Nat]] /\ sent \in [R -> [C -> Nat]]
      /\ DOMAIN input = R /\ DOMAIN cap1 = C
      /\ Total(sent) <= cap0
      /\ \A j \in C : ColSum(sent, j) <= cap1[j]
      /\ \A i \in R, j \in C : input[i][j] + sent[i][j] <= have[i][j]
  BY DEF Shared2D2
<1>1. PICK all \in Shares([p \in (DOMAIN share.input) \X (DOMAIN cap1) |-> share.input[p[1]][p[2]]], cap0 - Total(share.sent)) :
        \E sent0 \in ColumnShares([i \in DOMAIN share.input |-> [j \in DOMAIN cap1 |-> all[<<i, j>>]]], share.sent, cap1) :
          LET next == [i \in DOMAIN share.input |-> [j \in DOMAIN cap1 |-> share.sent[i][j] + sent0[i][j]]]
              open(j) == Total(next) < cap0 /\ ColSum(next, j) < cap1[j]
          IN share' = [input |-> [i \in DOMAIN share.input |-> [j \in DOMAIN cap1 |->
                                    IF open(j) THEN share.input[i][j] - sent0[i][j] ELSE 0]],
                       sent |-> next, iter |-> share.iter + 1]
  BY DEF Sweep2D2
<1> DEFINE rows == [i \in R |-> [j \in C |-> all[<<i, j>>]]]
<1>2. PICK more \in ColumnShares(rows, sent, cap1) :
          LET next == [i \in DOMAIN share.input |-> [j \in DOMAIN cap1 |-> share.sent[i][j] + more[i][j]]]
              open(j) == Total(next) < cap0 /\ ColSum(next, j) < cap1[j]
          IN share' = [input |-> [i \in DOMAIN share.input |-> [j \in DOMAIN cap1 |->
                                    IF open(j) THEN share.input[i][j] - more[i][j] ELSE 0]],
                       sent |-> next, iter |-> share.iter + 1]
  BY <1>0, <1>1
<1> DEFINE next == [i \in R |-> [j \in C |-> sent[i][j] + more[i][j]]]
           input2 == [i \in R |-> [j \in C |->
                        IF Total(next) < cap0 /\ ColSum(next, j) < cap1[j]
                        THEN input[i][j] - more[i][j] ELSE 0]]
<1>3. share'.sent = next /\ share'.input = input2  BY <1>0, <1>2
<1>4. /\ all \in [R \X C -> Nat] /\ \A p \in R \X C : all[p] <= pairs[p]
      /\ Sum(all) <= room /\ room \in Nat
  <2>1. pairs \in [R \X C -> Nat]
    <3>1. \A p \in R \X C : p[1] \in R /\ p[2] \in C  OBVIOUS
    <3>2. \A p \in R \X C : input[p[1]][p[2]] \in Nat  BY <1>0, <3>1
    <3>3. QED  BY <3>2
  <2>2. room \in Nat
    <3>1. Total(sent) \in Nat  BY <1>0, MatrixType
    <3>2. QED  BY <1>0, <3>1
  <2>3. all \in Shares(pairs, room)  BY <1>0, <1>1
  <2>4. IsFiniteSet(R \X C)  BY FS_Product
  <2> HIDE DEF room, pairs
  <2>5. QED  BY <2>1, <2>2, <2>3, <2>4, SharesFacts
<1>5. rows \in [R -> [C -> Nat]] /\ \A i \in R, j \in C : rows[i][j] <= input[i][j]
  BY <1>4
<1>6. Total(rows) = Sum(all)
  <2>1. rows \in [R -> [C -> Int]] /\ all \in [R \X C -> Int]  BY <1>4, <1>5
  <2>2. AsPairs(R, C, all, rows)  BY <2>1 DEF AsPairs
  <2> HIDE DEF rows
  <2>3. QED  BY <2>2, SumOfPairs
<1>7. /\ more \in [R -> [C -> Nat]] /\ \A i \in R, j \in C : more[i][j] <= rows[i][j]
      /\ \A j \in C : ColSum(sent, j) + ColSum(more, j) <= cap1[j]
  <2> HIDE DEF sent, rows
  <2>1. QED  BY <1>0, <1>2, <1>5, ColumnSharesFacts, ZenonT(60)
<1>8. /\ next \in [R -> [C -> Nat]]
      /\ Total(next) = Total(sent) + Total(more)
      /\ \A j \in C : ColSum(next, j) = ColSum(sent, j) + ColSum(more, j)
  <2>1. \A i \in R, j \in C : sent[i][j] \in Nat /\ more[i][j] \in Nat  BY <1>0, <1>7
  <2>2. next \in [R -> [C -> Nat]]  BY <2>1
  <2>3. sent \in [R -> [C -> Nat]] /\ more \in [R -> [C -> Nat]]  BY <1>0, <1>7
  <2>4. AddsUp(R, C, sent, more, next)  BY <2>2, <2>3 DEF AddsUp
  <2> HIDE DEF sent, next
  <2>5. QED  BY <2>2, <2>4, MatrixPlus
<1> HIDE DEF rows
<1>9. Total(next) <= cap0
  <2>1. Total(more) <= Total(rows)  BY <1>5, <1>7, MatrixLess
  <2>2. Total(more) \in Nat /\ Total(sent) \in Nat /\ Total(rows) \in Nat
    <3> HIDE DEF sent
    <3>1. QED  BY <1>0, <1>5, <1>7, MatrixType
  <2> HIDE DEF next, sent
  <2>3. QED  BY <1>4, <1>6, <1>8, <2>1, <2>2
<1>10. \A j \in C : ColSum(next, j) <= cap1[j]
  <2> HIDE DEF next, sent
  <2>1. QED  BY <1>7, <1>8
<1>11. /\ input2 \in [R -> [C -> Nat]]
       /\ \A i \in R, j \in C : input2[i][j] + next[i][j] <= have[i][j]
  <2>1. \A i \in R, j \in C : input[i][j] \in Nat /\ more[i][j] \in Nat /\ rows[i][j] \in Nat
    BY <1>0, <1>5, <1>7
  <2>2. \A i \in R, j \in C : more[i][j] <= input[i][j]  BY <1>5, <1>7, <2>1
  <2>3. input2 \in [R -> [C -> Int]]
        /\ \A i \in R, j \in C : input2[i][j] \in {0, input[i][j] - more[i][j]}
    <3> HIDE DEF next, input
    <3>1. QED  BY <2>1
  <2>4. next \in [R -> [C -> Int]]
        /\ \A i \in R, j \in C : next[i][j] = sent[i][j] + more[i][j]
    <3>1. \A i \in R, j \in C : next[i][j] = sent[i][j] + more[i][j]  OBVIOUS
    <3> HIDE DEF next
    <3>2. QED  BY <1>8, <3>1
  <2> HIDE DEF input2, next, input, sent
  <2>5. ASSUME NEW i \in R, NEW j \in C
        PROVE  input2[i][j] \in Nat /\ input2[i][j] + next[i][j] <= have[i][j]
    <3>1. /\ input[i][j] \in Nat /\ sent[i][j] \in Nat /\ more[i][j] \in Nat
          /\ have[i][j] \in Nat
      BY <1>0, <1>7
    <3>2. /\ input[i][j] + sent[i][j] <= have[i][j] /\ more[i][j] <= input[i][j]
          /\ next[i][j] = sent[i][j] + more[i][j]
          /\ input2[i][j] \in {0, input[i][j] - more[i][j]}
      BY <1>0, <2>2, <2>3, <2>4
    <3>3. QED  BY <3>1, <3>2
  <2>6. QED  BY <2>3, <2>5
<1> HIDE DEF input2, next, room
<1>12. QED  BY <1>3, <1>8, <1>9, <1>10, <1>11 DEF Shared2D2

-----------------------------------------------------------------------------
(* The matching *)

MasterTypes ==
  /\ nonlocal \in Matrices(Hosts, Hosts, Nat) /\ local \in Matrices(Hosts, Hosts, Nat)
  /\ toOthers \in Matrices(Hosts, Others, Nat) /\ queued \in Matrices(Hosts, Others, Nat)
  /\ capSend \in [Hosts -> 0..SlotPkts] /\ capRecv \in [Hosts -> 0..SlotPkts]
  /\ granted \in Matrices(Hosts, Hosts, Nat) /\ proposals \in Matrices(Hosts, Others, Nat)
  /\ accepts \in [Hosts -> Matrices(Hosts, Others, Nat)]

\* What is true in each step: nothing is granted or accepted before its step, and
\* the loops share what the step started with.
MasterStage ==
  /\ phase \in {"second hop", "direct", "accept", "done"}
  /\ phase = "second hop" =>
       capSend = [i \in Hosts |-> SlotPkts] /\ capRecv = [j \in Hosts |-> SlotPkts]
  /\ phase \in {"second hop", "direct"} =>
       /\ granted = Zero(Hosts, Hosts) /\ proposals = Zero(Hosts, Others)
       /\ accepts = [j \in Hosts |-> Zero(Hosts, Others)]
  /\ phase = "direct" => Shared2D(Hosts, Hosts, capSend, capRecv, local, share)
  /\ phase = "accept" =>
       /\ receiver \in Hosts
       /\ Shared2D2(Hosts, Others, capRecv[receiver], Room(receiver), proposals, share)

MasterIInv == MasterTypes /\ MasterStage /\ LinksNotOverrun /\ ReceiversNotOverrun

\* What the assumption says of the constants: equal parts of a link fit it.
LEMMA HostsFacts ==
  /\ Hpr \in Nat \ {0} /\ SlotPkts \in Nat \ {0} /\ 1 \in Hosts
  /\ IsFiniteSet(Hosts) /\ IsFiniteSet(Others) /\ Cardinality(Hosts) = Hpr
  /\ SafePkts \in Nat /\ SafePkts * Hpr <= SlotPkts
<1>1. Hpr \in Nat \ {0} /\ SlotPkts \in Nat \ {0} /\ IsFiniteSet(Others)
  BY MasterAssumption
<1>2. IsFiniteSet(1..Hpr) /\ Cardinality(1..Hpr) = Hpr
  <2>1. 1 \in Int /\ Hpr \in Int /\ 1 <= Hpr /\ Hpr - 1 + 1 = Hpr  BY <1>1
  <2>2. QED  BY <2>1, FS_Interval
<1>3. SafePkts \in Nat /\ SafePkts * Hpr <= SlotPkts  BY <1>1, EqualParts DEF SafePkts
<1>4. QED  BY <1>1, <1>2, <1>3 DEF Hosts

\* Before the first step nothing is granted.
LEMMA MasterInitIInv ==
  ASSUME MasterInit
  PROVE  MasterIInv
<1>0. /\ NonlocalSizes \subseteq Nat /\ LocalSizes \subseteq Nat
      /\ OtherSizes \subseteq Nat /\ QueuedSizes \subseteq Nat
  BY MasterAssumption
<1>1. /\ Zero(Hosts, Hosts) \in Matrices(Hosts, Hosts, Nat)
      /\ Zero(Hosts, Others) \in Matrices(Hosts, Others, Nat)
      /\ Total(Zero(Hosts, Others)) = 0
      /\ \A k \in Others : ColSum(Zero(Hosts, Others), k) = 0
      /\ \A h \in Hosts : Sum(Zero(Hosts, Others)[h]) = 0
  BY HostsFacts, MatrixZero DEF Matrices, RowSum
<1>2. MasterTypes
  <2>1. /\ nonlocal \in Matrices(Hosts, Hosts, Nat) /\ local \in Matrices(Hosts, Hosts, Nat)
        /\ toOthers \in Matrices(Hosts, Others, Nat) /\ queued \in Matrices(Hosts, Others, Nat)
    BY <1>0 DEF MasterInit, Matrices
  <2>2. capSend \in [Hosts -> 0..SlotPkts] /\ capRecv \in [Hosts -> 0..SlotPkts]
    <3>1. SlotPkts \in 0..SlotPkts  BY HostsFacts
    <3>2. QED  BY <3>1 DEF MasterInit
  <2>3. QED  BY <1>1, <2>1, <2>2 DEF MasterInit, MasterTypes
<1>3. MasterStage  BY DEF MasterInit, MasterStage
<1>4. LinksNotOverrun
  <2>1. ASSUME NEW h \in Hosts
        PROVE  /\ capSend[h] \in 0..SlotPkts /\ capRecv[h] \in 0..SlotPkts
               /\ Sum(proposals[h]) <= capSend[h]
               /\ \A g \in Hosts : granted[h][g] <= local[h][g]
    <3>1. capSend[h] = SlotPkts /\ capRecv[h] = SlotPkts /\ Sum(proposals[h]) = 0
      BY <1>1 DEF MasterInit
    <3>2. \A g \in Hosts : granted[h][g] = 0 /\ local[h][g] \in Nat
      BY <1>2 DEF MasterInit, Zero, MasterTypes, Matrices
    <3>3. QED  BY <3>1, <3>2, HostsFacts
  <2>2. QED  BY <2>1 DEF LinksNotOverrun
<1>5. ReceiversNotOverrun
  <2>1. ASSUME NEW j \in Hosts
        PROVE  /\ Total(accepts[j]) <= capRecv[j]
               /\ \A k \in Others : ColSum(accepts[j], k) = 0
               /\ \A i \in Hosts, k \in Others : accepts[j][i][k] <= proposals[i][k]
    <3>1. accepts[j] = Zero(Hosts, Others) /\ proposals = Zero(Hosts, Others)
          /\ capRecv[j] = SlotPkts
      BY DEF MasterInit
    <3>2. \A i \in Hosts, k \in Others : Zero(Hosts, Others)[i][k] = 0  BY DEF Zero
    <3>3. QED  BY <1>1, <3>1, <3>2, HostsFacts
  <2>2. QED  BY <2>1 DEF ReceiversNotOverrun
<1>6. QED  BY <1>2, <1>3, <1>4, <1>5 DEF MasterIInv

\* No natural number is less than zero.
LEMMA NotNegative == \A n \in Nat : 0 <= n  OBVIOUS

\* Before the proposals nothing is accepted, whatever capacity is left.
LEMMA NothingYet ==
  ASSUME MasterIInv, phase \in {"second hop", "direct"}, NEW cap \in [Hosts -> Nat]
  PROVE  \A j \in Hosts :
           /\ Total(accepts[j]) <= cap[j]
           /\ \A k \in Others : ColSum(accepts[j], k) = 0
           /\ \A i \in Hosts, k \in Others : accepts[j][i][k] = 0
<1>1. Total(Zero(Hosts, Others)) = 0 /\ \A k \in Others : ColSum(Zero(Hosts, Others), k) = 0
  BY HostsFacts, MatrixZero
<1>2. \A i \in Hosts, k \in Others : Zero(Hosts, Others)[i][k] = 0  BY DEF Zero
<1>3. accepts = [j \in Hosts |-> Zero(Hosts, Others)]  BY DEF MasterIInv, MasterStage
<1>4. \A j \in Hosts : accepts[j] = Zero(Hosts, Others)  BY <1>3
<1>5. \A j \in Hosts : 0 <= cap[j]
  <2>1. \A j \in Hosts : cap[j] \in Nat  BY Zenon
  <2>2. QED  BY <2>1, NotNegative, Zenon
<1>6. QED  BY <1>1, <1>2, <1>4, <1>5

\* The packets of second hops, an equal part for each, fit the links.
LEMMA SecondHopStep ==
  ASSUME MasterIInv, SecondHop
  PROVE  MasterIInv'
<1> DEFINE sent == [i \in Hosts |-> [j \in Hosts |-> SecondHopPkts(i, j)]]
<1>0. /\ phase = "second hop" /\ phase' = "direct"
      /\ capSend' = [i \in Hosts |-> capSend[i] - RowSum(sent, i)]
      /\ capRecv' = [j \in Hosts |-> capRecv[j] - ColSum(sent, j)]
      /\ StartShare(local)
      /\ UNCHANGED <<nonlocal, local, toOthers, queued, granted, proposals, accepts, receiver>>
  BY DEF SecondHop, inputs
<1>1. MasterTypes /\ MasterStage /\ LinksNotOverrun  BY DEF MasterIInv
<1>2. \A i, j \in Hosts : SecondHopPkts(i, j) \in 0..SafePkts
  <2>1. \A i, j \in Hosts : nonlocal[i][j] \in Nat  BY <1>1 DEF MasterTypes, Matrices
  <2>2. QED  BY <2>1, HostsFacts DEF SecondHopPkts, LesserOf
<1>3. sent \in [Hosts -> [Hosts -> Nat]]  BY <1>2, HostsFacts
<1>4. ASSUME NEW i \in Hosts
      PROVE  RowSum(sent, i) \in 0..SlotPkts /\ ColSum(sent, i) \in 0..SlotPkts
  <2> DEFINE row == sent[i]
             col == [j \in Hosts |-> sent[j][i]]
  <2>1. row \in [Hosts -> Int] /\ \A j \in Hosts : row[j] <= SafePkts  BY <1>2, HostsFacts
  <2>2. col \in [Hosts -> Int] /\ \A j \in Hosts : col[j] <= SafePkts  BY <1>2, HostsFacts
  <2>3. RowSum(sent, i) = Sum(row) /\ ColSum(sent, i) = Sum(col)  BY DEF RowSum, ColSum
  <2> HIDE DEF row, col
  <2>4. SafePkts \in Int  BY HostsFacts
  <2>5. Sum(row) <= SafePkts * Cardinality(Hosts) /\ Sum(col) <= SafePkts * Cardinality(Hosts)
    BY <2>1, <2>2, <2>4, HostsFacts, SumBound
  <2> HIDE DEF sent
  <2>6. RowSum(sent, i) \in Nat /\ ColSum(sent, i) \in Nat  BY <1>3, HostsFacts, MatrixType
  <2>7. QED  BY <2>3, <2>5, <2>6, HostsFacts
<1> HIDE DEF sent
<1>5. capSend' \in [Hosts -> 0..SlotPkts] /\ capRecv' \in [Hosts -> 0..SlotPkts]
  <2>1. \A i \in Hosts : capSend[i] = SlotPkts /\ capRecv[i] = SlotPkts
    BY <1>0, <1>1 DEF MasterStage
  <2>2. ASSUME NEW i \in Hosts
        PROVE  capSend[i] - RowSum(sent, i) \in 0..SlotPkts
               /\ capRecv[i] - ColSum(sent, i) \in 0..SlotPkts
    BY <1>4, <2>1, HostsFacts
  <2>3. QED  BY <1>0, <2>2
<1>6. MasterTypes'  BY <1>0, <1>1, <1>5 DEF MasterTypes
<1>7. MasterStage'
  <2>1. DOMAIN local = Hosts /\ DOMAIN local[1] = Hosts
    BY <1>1, HostsFacts DEF MasterTypes, Matrices
  <2>2. share' = [input |-> local, sent |-> Zero(Hosts, Hosts), iter |-> 0]
    BY <1>0, <2>1 DEF StartShare
  <2>3. share'.input = local /\ share'.sent = Zero(Hosts, Hosts)  BY <2>2
  <2>4. /\ Zero(Hosts, Hosts) \in [Hosts -> [Hosts -> Nat]]
        /\ \A i \in Hosts : RowSum(Zero(Hosts, Hosts), i) = 0
        /\ \A j \in Hosts : ColSum(Zero(Hosts, Hosts), j) = 0
        /\ \A i \in Hosts, j \in Hosts : Zero(Hosts, Hosts)[i][j] = 0
    <3>1. \A i \in Hosts, j \in Hosts : Zero(Hosts, Hosts)[i][j] = 0  BY DEF Zero
    <3>2. IsFiniteSet(Hosts)  BY HostsFacts
    <3>3. QED  BY <3>1, <3>2, MatrixZero
  <2>5. \A i \in Hosts, j \in Hosts : local[i][j] \in Nat  BY <1>1 DEF MasterTypes, Matrices
  <2>6. \A i \in Hosts : 0 <= capSend'[i] /\ 0 <= capRecv'[i]  BY <1>5
  <2>7. Shared2D(Hosts, Hosts, capSend', capRecv', local', share')
    <3>1. \A i \in Hosts, j \in Hosts : local[i][j] + Zero(Hosts, Hosts)[i][j] <= local[i][j]
      BY <2>4, <2>5
    <3>2. QED  BY <1>0, <1>1, <2>3, <2>4, <2>6, <3>1 DEF Shared2D, MasterTypes, Matrices
  <2>8. QED  BY <1>0, <1>1, <2>7 DEF MasterStage
<1>8. LinksNotOverrun'
  <2>1. \A h \in Hosts : Sum(proposals[h]) = 0
    <3>1. \A h \in Hosts : RowSum(Zero(Hosts, Others), h) = 0  BY HostsFacts, MatrixZero
    <3>2. proposals = Zero(Hosts, Others)  BY <1>0, <1>1 DEF MasterStage
    <3>3. QED  BY <3>1, <3>2 DEF RowSum
  <2>2. \A h \in Hosts : Sum(proposals[h]) <= capSend'[h]  BY <1>5, <2>1
  <2>3. QED  BY <1>0, <1>1, <1>5, <2>2 DEF LinksNotOverrun
<1>9. ReceiversNotOverrun'
  <2>1. capRecv' \in [Hosts -> Nat]  BY <1>5
  <2>2. \A j \in Hosts : /\ Total(accepts[j]) <= capRecv'[j]
                         /\ \A k \in Others : ColSum(accepts[j], k) = 0
                         /\ \A i \in Hosts, k \in Others : accepts[j][i][k] = 0
    BY <1>0, <2>1, NothingYet
  <2>3. \A i \in Hosts, k \in Others : 0 <= proposals[i][k]
    BY <1>1 DEF MasterTypes, Matrices
  <2>4. \A j \in Hosts : \A k \in Others : ~ (ColSum(accepts[j], k) > 0)  BY <2>2
  <2>5. \A j \in Hosts : \A i \in Hosts, k \in Others : accepts[j][i][k] <= proposals[i][k]
    BY <2>2, <2>3
  <2>6. QED  BY <1>0, <2>2, <2>4, <2>5 DEF ReceiversNotOverrun
<1>10. QED  BY <1>6, <1>7, <1>8, <1>9 DEF MasterIInv

\* An iteration of the loop of step 2.
LEMMA DirectStep ==
  ASSUME MasterIInv, Direct
  PROVE  MasterIInv'
<1>1. /\ phase = "direct" /\ Sweep2D(capSend, capRecv)
      /\ UNCHANGED <<nonlocal, local, toOthers, queued, capSend, capRecv, granted, proposals,
                     accepts, phase, receiver>>
  BY DEF Direct, inputs
<1>2. MasterTypes /\ MasterStage /\ LinksNotOverrun /\ ReceiversNotOverrun  BY DEF MasterIInv
<1>3. Shared2D(Hosts, Hosts, capSend, capRecv, local, share')
  <2>1. Shared2D(Hosts, Hosts, capSend, capRecv, local, share)  BY <1>1, <1>2 DEF MasterStage
  <2>2. capSend \in [Hosts -> Nat] /\ capRecv \in [Hosts -> Nat]
        /\ local \in [Hosts -> [Hosts -> Nat]]
    BY <1>2 DEF MasterTypes, Matrices
  <2>3. QED  BY <1>1, <2>1, <2>2, HostsFacts, Sweep2DFacts
<1>4. MasterTypes'  BY <1>1, <1>2 DEF MasterTypes
<1>5. MasterStage'  BY <1>1, <1>2, <1>3 DEF MasterStage
<1>6. LinksNotOverrun'  BY <1>1, <1>2 DEF LinksNotOverrun
<1>7. ReceiversNotOverrun'  BY <1>1, <1>2 DEF ReceiversNotOverrun
<1>8. QED  BY <1>4, <1>5, <1>6, <1>7 DEF MasterIInv

\* What a receiver has room for, with what is queued, fits two slots.
LEMMA RoomFacts ==
  ASSUME MasterTypes, NEW j \in Hosts
  PROVE  /\ Room(j) \in [Others -> Nat]
         /\ \A k \in Others, n \in Nat :
              n <= Room(j)[k] /\ n > 0 => (n + queued[j][k]) * Hpr <= 2 * SlotPkts
<1> DEFINE all == (2 * SlotPkts) \div Hpr
<1>1. all \in Nat /\ all * Hpr <= 2 * SlotPkts
  <2>1. 2 * SlotPkts \in Nat /\ Hpr \in Nat \ {0}  BY HostsFacts
  <2>2. QED  BY <2>1, EqualParts
<1>2. \A k \in Others : queued[j][k] \in Nat  BY DEF MasterTypes, Matrices
<1>3. Room(j) = [k \in Others |-> IF all - queued[j][k] < 0 THEN 0 ELSE all - queued[j][k]]
  BY DEF Room
<1> HIDE DEF all
<1>4. Room(j) \in [Others -> Nat]  BY <1>1, <1>2, <1>3
<1>5. ASSUME NEW k \in Others, NEW n \in Nat, n <= Room(j)[k], n > 0
      PROVE  (n + queued[j][k]) * Hpr <= 2 * SlotPkts
  <2> DEFINE q == queued[j][k]
  <2>1. q \in Nat  BY <1>2
  <2>2. Room(j)[k] = IF all - q < 0 THEN 0 ELSE all - q  BY <1>3
  <2> HIDE DEF q
  <2>3. n + q \in Nat /\ n + q <= all  BY <1>1, <1>5, <2>1, <2>2
  <2>4. \A a, b \in Nat, h \in Nat : a <= b => a * h <= b * h
    <3>1. ASSUME NEW a \in Nat, NEW b \in Nat, NEW h \in Nat, a <= b  PROVE a * h <= b * h
      <4>1. b - a \in Nat /\ (b - a) * h \in Nat  BY <3>1
      <4>2. (b - a) * h = b * h - a * h  OBVIOUS
      <4>3. QED  BY <4>1, <4>2
    <3>2. QED  BY <3>1
  <2>5. (n + q) * Hpr <= all * Hpr  BY <1>1, <2>3, <2>4, HostsFacts
  <2>6. (n + q) * Hpr \in Nat /\ all * Hpr \in Nat /\ 2 * SlotPkts \in Nat
    BY <1>1, <2>3, HostsFacts
  <2>7. (n + q) * Hpr <= 2 * SlotPkts  BY <1>1, <2>5, <2>6
  <2>8. QED  BY <2>7 DEF q
<1>6. QED  BY <1>4, <1>5

\* A receiver starts with all that is proposed.
LEMMA StartAccept ==
  ASSUME NEW cap \in Nat, NEW room \in [Others -> Nat], NEW p \in Matrices(Hosts, Others, Nat),
         NEW s, s.input = p, s.sent = Zero(Hosts, Others)
  PROVE  Shared2D2(Hosts, Others, cap, room, p, s)
<1>1. /\ Zero(Hosts, Others) \in [Hosts -> [Others -> Nat]]
      /\ Total(Zero(Hosts, Others)) = 0
      /\ \A k \in Others : ColSum(Zero(Hosts, Others), k) = 0
  BY HostsFacts, MatrixZero
<1>2. \A i \in Hosts, k \in Others : Zero(Hosts, Others)[i][k] = 0  BY DEF Zero
<1>3. p \in [Hosts -> [Others -> Nat]] /\ \A i \in Hosts, k \in Others : p[i][k] \in Nat
  BY DEF Matrices
<1>4. \A i \in Hosts, k \in Others : p[i][k] + Zero(Hosts, Others)[i][k] <= p[i][k]
  BY <1>2, <1>3
<1>5. \A k \in Others : 0 <= room[k]  OBVIOUS
<1>6. QED  BY <1>1, <1>3, <1>4, <1>5 DEF Shared2D2

\* The end of the loop: what it shared out fits, and proposals fit what is left.
LEMMA ProposeStep ==
  ASSUME MasterIInv, Propose
  PROVE  MasterIInv'
<1>0. /\ phase = "direct" /\ phase' = "accept" /\ receiver' = 1 /\ granted' = share.sent
      /\ capSend' = [i \in Hosts |-> capSend[i] - RowSum(share.sent, i)]
      /\ capRecv' = [j \in Hosts |-> capRecv[j] - ColSum(share.sent, j)]
      /\ proposals' \in Selections([i \in Hosts |-> Shares(toOthers[i], capSend'[i])])
      /\ StartShare(proposals')
      /\ UNCHANGED <<nonlocal, local, toOthers, queued, accepts>>
  BY DEF Propose, inputs
<1>1. MasterTypes /\ MasterStage /\ LinksNotOverrun  BY DEF MasterIInv
<1>2. /\ share.sent \in [Hosts -> [Hosts -> Nat]] /\ share.input \in [Hosts -> [Hosts -> Nat]]
      /\ \A i \in Hosts : RowSum(share.sent, i) <= capSend[i]
      /\ \A j \in Hosts : ColSum(share.sent, j) <= capRecv[j]
      /\ \A i \in Hosts, j \in Hosts : share.input[i][j] + share.sent[i][j] <= local[i][j]
  BY <1>0, <1>1 DEF MasterStage, Shared2D
<1>3. capSend' \in [Hosts -> 0..SlotPkts] /\ capRecv' \in [Hosts -> 0..SlotPkts]
  <2>1. ASSUME NEW i \in Hosts
        PROVE  capSend[i] - RowSum(share.sent, i) \in 0..SlotPkts
               /\ capRecv[i] - ColSum(share.sent, i) \in 0..SlotPkts
    <3>1. capSend[i] \in 0..SlotPkts /\ capRecv[i] \in 0..SlotPkts  BY <1>1 DEF MasterTypes
    <3>2. RowSum(share.sent, i) \in Nat /\ ColSum(share.sent, i) \in Nat
      BY <1>2, HostsFacts, MatrixType
    <3>3. QED  BY <1>2, <3>1, <3>2, HostsFacts
  <2>2. QED  BY <1>0, <2>1
<1>4. ASSUME NEW i \in Hosts
      PROVE  proposals'[i] \in [Others -> Nat] /\ Sum(proposals'[i]) <= capSend'[i]
  <2>1. toOthers[i] \in [Others -> Nat]  BY <1>1 DEF MasterTypes, Matrices
  <2>2. capSend'[i] \in Nat  BY <1>3
  <2>3. proposals'[i] \in Shares(toOthers[i], capSend'[i])  BY <1>0 DEF Selections
  <2>4. QED  BY <2>1, <2>2, <2>3, HostsFacts, SharesFacts
<1>5. proposals' \in Matrices(Hosts, Others, Nat)
  <2>1. proposals' = [i \in Hosts |-> proposals'[i]]  BY <1>0 DEF Selections
  <2>2. QED  BY <1>4, <2>1 DEF Matrices
<1>6. MasterTypes'
  <2>1. granted' \in Matrices(Hosts, Hosts, Nat)  BY <1>0, <1>2 DEF Matrices
  <2>2. QED  BY <1>0, <1>1, <1>3, <1>5, <2>1 DEF MasterTypes
<1>7. MasterStage'
  <2>1. DOMAIN proposals' = Hosts /\ DOMAIN proposals'[1] = Others
    BY <1>5, HostsFacts DEF Matrices
  <2>2. share' = [input |-> proposals', sent |-> Zero(Hosts, Others), iter |-> 0]
    BY <1>0, <2>1 DEF StartShare
  <2>3. share'.input = proposals' /\ share'.sent = Zero(Hosts, Others)  BY <2>2
  <2>4. receiver' \in Hosts  BY <1>0, HostsFacts
  <2>5. capRecv'[receiver'] \in Nat  BY <1>3, <2>4
  <2>6. Room(receiver)' \in [Others -> Nat]
    <3>1. \A j \in Hosts : Room(j) \in [Others -> Nat]  BY <1>1, RoomFacts
    <3>2. Room(receiver)' = Room(1)  BY <1>0 DEF Room
    <3>3. QED  BY <3>1, <3>2, HostsFacts
  <2>7. Shared2D2(Hosts, Others, capRecv'[receiver'], Room(receiver)', proposals', share')
    BY <1>5, <2>3, <2>5, <2>6, StartAccept
  <2>8. QED  BY <1>0, <2>4, <2>7 DEF MasterStage
<1>8. LinksNotOverrun'
  <2>1. ASSUME NEW h \in Hosts, NEW g \in Hosts  PROVE granted'[h][g] <= local'[h][g]
    <3>1. share.sent[h][g] \in Nat /\ share.input[h][g] \in Nat /\ local[h][g] \in Nat
      BY <1>1, <1>2 DEF MasterTypes, Matrices
    <3>2. QED  BY <1>0, <1>2, <3>1
  <2>2. QED  BY <1>3, <1>4, <2>1 DEF LinksNotOverrun
<1>9. ReceiversNotOverrun'
  <2>1. capRecv' \in [Hosts -> Nat]  BY <1>3
  <2>2. \A j \in Hosts : /\ Total(accepts[j]) <= capRecv'[j]
                         /\ \A k \in Others : ColSum(accepts[j], k) = 0
                         /\ \A i \in Hosts, k \in Others : accepts[j][i][k] = 0
    BY <1>0, <2>1, NothingYet
  <2>3. \A i \in Hosts, k \in Others : 0 <= proposals'[i][k]  BY <1>5 DEF Matrices
  <2>4. \A j \in Hosts : \A k \in Others : ~ (ColSum(accepts[j], k) > 0)  BY <2>2
  <2>5. \A j \in Hosts : \A i \in Hosts, k \in Others : accepts[j][i][k] <= proposals'[i][k]
    BY <2>2, <2>3
  <2>6. QED  BY <1>0, <2>2, <2>4, <2>5 DEF ReceiversNotOverrun
<1>10. QED  BY <1>6, <1>7, <1>8, <1>9 DEF MasterIInv

\* An iteration of the loop of a receiver.
LEMMA AcceptStep ==
  ASSUME MasterIInv, NEW j \in Hosts, Accept(j)
  PROVE  MasterIInv'
<1>1. /\ phase = "accept" /\ receiver = j /\ Sweep2D2(capRecv[j], Room(j))
      /\ UNCHANGED <<nonlocal, local, toOthers, queued, capSend, capRecv, granted, proposals,
                     accepts, phase, receiver>>
  BY DEF Accept, inputs
<1>2. MasterTypes /\ MasterStage /\ LinksNotOverrun /\ ReceiversNotOverrun  BY DEF MasterIInv
<1>3. Shared2D2(Hosts, Others, capRecv[j], Room(j), proposals, share')
  <2>1. Shared2D2(Hosts, Others, capRecv[j], Room(j), proposals, share)
    BY <1>1, <1>2 DEF MasterStage
  <2>2. capRecv[j] \in Nat /\ proposals \in [Hosts -> [Others -> Nat]]
    BY <1>2 DEF MasterTypes, Matrices
  <2>3. Room(j) \in [Others -> Nat]  BY <1>2, RoomFacts
  <2>4. QED  BY <1>1, <2>1, <2>2, <2>3, HostsFacts, Sweep2D2Facts
<1>4. MasterTypes'  BY <1>1, <1>2 DEF MasterTypes
<1>5. MasterStage'
  <2>1. Room(receiver)' = Room(j)  BY <1>1 DEF Room
  <2>2. QED  BY <1>1, <1>2, <1>3, <2>1 DEF MasterStage
<1>6. LinksNotOverrun'  BY <1>1, <1>2 DEF LinksNotOverrun
<1>7. ReceiversNotOverrun'  BY <1>1, <1>2 DEF ReceiversNotOverrun
<1>8. QED  BY <1>4, <1>5, <1>6, <1>7 DEF MasterIInv

\* A receiver is done, and the next one starts.
LEMMA EndAcceptStep ==
  ASSUME MasterIInv, NEW j \in Hosts, EndAccept(j)
  PROVE  MasterIInv'
<1>1. /\ phase = "accept" /\ receiver = j
      /\ accepts' = [accepts EXCEPT ![j] = share.sent] /\ receiver' = j + 1
      /\ IF j < Hpr THEN StartShare(proposals) /\ UNCHANGED phase
         ELSE phase' = "done" /\ share' = NoShare
      /\ UNCHANGED <<nonlocal, local, toOthers, queued, capSend, capRecv, granted, proposals>>
  BY DEF EndAccept, inputs
<1>2. MasterTypes /\ MasterStage /\ LinksNotOverrun /\ ReceiversNotOverrun  BY DEF MasterIInv
<1>3. /\ share.sent \in [Hosts -> [Others -> Nat]] /\ share.input \in [Hosts -> [Others -> Nat]]
      /\ Total(share.sent) <= capRecv[j]
      /\ \A k \in Others : ColSum(share.sent, k) <= Room(j)[k]
      /\ \A i \in Hosts, k \in Others : share.input[i][k] + share.sent[i][k] <= proposals[i][k]
  BY <1>1, <1>2 DEF MasterStage, Shared2D2
<1>4. MasterTypes'  BY <1>1, <1>2, <1>3 DEF MasterTypes, Matrices
<1>5. MasterStage'
  <2>1. CASE j < Hpr
    <3>1. DOMAIN proposals = Hosts /\ DOMAIN proposals[1] = Others
      BY <1>2, HostsFacts DEF MasterTypes, Matrices
    <3>2. share' = [input |-> proposals, sent |-> Zero(Hosts, Others), iter |-> 0]
      BY <1>1, <2>1, <3>1 DEF StartShare
    <3>3. share'.input = proposals /\ share'.sent = Zero(Hosts, Others)  BY <3>2
    <3>4. receiver' \in Hosts /\ receiver' = j + 1  BY <1>1, <2>1, HostsFacts DEF Hosts
    <3>5. capRecv[receiver'] \in Nat /\ proposals \in Matrices(Hosts, Others, Nat)
      BY <1>2, <3>4 DEF MasterTypes
    <3>6. Room(receiver)' \in [Others -> Nat]
      <4>1. Room(receiver') \in [Others -> Nat]
        <5>1. \A i \in Hosts : Room(i) \in [Others -> Nat]  BY <1>2, RoomFacts
        <5>2. QED  BY <3>4, <5>1
      <4>2. Room(receiver)' = Room(receiver')  BY <1>1 DEF Room
      <4>3. QED  BY <4>1, <4>2
    <3>7. Shared2D2(Hosts, Others, capRecv[receiver'], Room(receiver)', proposals, share')
      BY <3>3, <3>5, <3>6, StartAccept
    <3>8. QED  BY <1>1, <1>2, <2>1, <3>4, <3>7 DEF MasterStage
  <2>2. CASE ~ (j < Hpr)  BY <1>1, <2>2 DEF MasterStage
  <2>3. QED  BY <2>1, <2>2
<1>6. LinksNotOverrun'  BY <1>1, <1>2 DEF LinksNotOverrun
<1>7. ReceiversNotOverrun'
  <2> DEFINE Fits(f, i) ==
        /\ Total(f) <= capRecv[i]
        /\ \A k \in Others : ColSum(f, k) > 0 =>
             (ColSum(f, k) + queued[i][k]) * Hpr <= 2 * SlotPkts
        /\ \A h \in Hosts, k \in Others : f[h][k] <= proposals[h][k]
  <2>1. \A i \in Hosts : Fits(accepts[i], i)  BY <1>2 DEF ReceiversNotOverrun
  <2>2. Fits(share.sent, j)
    <3>1. \A k \in Others : ColSum(share.sent, k) \in Nat  BY <1>3, HostsFacts, MatrixType
    <3>2. \A k \in Others : ColSum(share.sent, k) > 0 =>
            (ColSum(share.sent, k) + queued[j][k]) * Hpr <= 2 * SlotPkts
      BY <1>2, <1>3, <3>1, RoomFacts
    <3>3. ASSUME NEW h \in Hosts, NEW k \in Others  PROVE share.sent[h][k] <= proposals[h][k]
      <4>1. share.sent[h][k] \in Nat /\ share.input[h][k] \in Nat /\ proposals[h][k] \in Nat
        BY <1>2, <1>3 DEF MasterTypes, Matrices
      <4>2. QED  BY <1>3, <4>1
    <3>4. QED  BY <1>3, <3>2, <3>3
  <2>3. \A i \in Hosts : accepts'[i] = IF i = j THEN share.sent ELSE accepts[i]
    BY <1>1, <1>2 DEF MasterTypes
  <2> HIDE DEF Fits
  <2>4. \A i \in Hosts : Fits(accepts'[i], i)  BY <2>1, <2>2, <2>3
  <2>5. QED  BY <1>1, <2>4 DEF Fits, ReceiversNotOverrun
<1>8. QED  BY <1>4, <1>5, <1>6, <1>7 DEF MasterIInv

\* Every step keeps the invariant.
LEMMA MasterNextIInv ==
  ASSUME MasterIInv, [MasterNext]_masterVars
  PROVE  MasterIInv'
<1>1. CASE SecondHop  BY <1>1, SecondHopStep
<1>2. CASE Direct  BY <1>2, DirectStep
<1>3. CASE Propose  BY <1>3, ProposeStep
<1>4. ASSUME NEW j \in Hosts, Accept(j) \/ EndAccept(j)  PROVE MasterIInv'
  BY <1>4, AcceptStep, EndAcceptStep
<1>5. CASE UNCHANGED masterVars
  <2>1. /\ UNCHANGED <<nonlocal, local, toOthers, queued, capSend, capRecv, granted, proposals>>
        /\ UNCHANGED <<accepts, phase, receiver, share>>
    BY <1>5 DEF masterVars, inputs
  <2>2. Room(receiver)' = Room(receiver)  BY <2>1 DEF Room
  <2>3. MasterTypes'  BY <2>1 DEF MasterIInv, MasterTypes
  <2>4. MasterStage'  BY <2>1, <2>2 DEF MasterIInv, MasterStage
  <2>5. LinksNotOverrun' /\ ReceiversNotOverrun'
    BY <2>1 DEF MasterIInv, LinksNotOverrun, ReceiversNotOverrun
  <2>6. QED  BY <2>3, <2>4, <2>5 DEF MasterIInv
<1>6. QED  BY <1>1, <1>2, <1>3, <1>4, <1>5 DEF MasterNext

\* The invariant of the computation of a matching: what its loops have shared out
\* fits the links of both ends, and no sender gives more than it has.
THEOREM MasterInvariance == MasterSpec => []MasterIInv
<1>1. MasterInit => MasterIInv  BY MasterInitIInv
<1>2. MasterIInv /\ [MasterNext]_masterVars => MasterIInv'  BY MasterNextIInv
<1>3. QED  BY <1>1, <1>2, PTL DEF MasterSpec

\* Phase 1 never grants more than a link carries in the slot, nor more than there
\* is, and what a sender proposes fits what is left of its link.
THEOREM MatchingFitsLinks == MasterSpec => []LinksNotOverrun
<1>1. MasterIInv => LinksNotOverrun  BY DEF MasterIInv
<1>2. QED  BY <1>1, MasterInvariance, PTL

\* What a receiver accepts fits its link, its room for each destination, and what
\* was proposed.
THEOREM AcceptsFitReceivers == MasterSpec => []ReceiversNotOverrun
<1>1. MasterIInv => ReceiversNotOverrun  BY DEF MasterIInv
<1>2. QED  BY <1>1, MasterInvariance, PTL

=============================================================================
